-------------------------- MODULE InfoStoreProofs ---------------------------
(***************************************************************************)
(* Proofs about InfoStore, for any items, sizes, bad blocks, faults and    *)
(* power failures.                                                         *)
(*                                                                         *)
(* The addresses of the current copies are lost at every power failure and *)
(* found again by a scan for names, so the listing of the current blocks   *)
(* can be an invariant only together with what is on flash: OwnInv says    *)
(* that no block carries the names of two items, and JobInv that the save  *)
(* in progress writes its name only to a block that is nobody's or its     *)
(* own.                                                                    *)
(*                                                                         *)
(* That no page is programmed twice needs more of the flash (LogInv): the  *)
(* copies of a FULL_PAGE item are in the order of their timestamps, and    *)
(* only the newest block may have room behind its copies.  Every other     *)
(* block may be torn by an erase that is interrupted, and no scan will     *)
(* ever choose it to append to.                                            *)
(***************************************************************************)
EXTENDS InfoStore, FiniteSetTheorems, WellFoundedInduction, TLAPS

-----------------------------------------------------------------------------
(* Minima, maxima and the blocks of the reserved area.                     *)

(* A set of natural numbers that is not empty has its minimum.             *)
LEMMA MinNat ==
  ASSUME NEW T \in SUBSET Nat, T # {}
  PROVE  Min(T) \in T /\ \A y \in T : Min(T) <= y
<1>1. PICK x \in T : \A y \in T : ~(<<y, x>> \in OpToRel(<, Nat))
  BY NatLessThanWellFounded, WFMin
<1>2. \A y \in T : x <= y
  <2> SUFFICES ASSUME NEW y \in T PROVE x <= y
    OBVIOUS
  <2>1. x \in Nat /\ y \in Nat
    OBVIOUS
  <2> DEFINE R == OpToRel(<, Nat)
  <2>2. y < x => <<y, x>> \in R
    BY <2>1 DEF OpToRel
  <2>3. ~(<<y, x>> \in R)
    BY <1>1
  <2> HIDE DEF R
  <2> QED
    BY <2>1, <2>2, <2>3
<1>3. \E z \in T : \A y \in T : z <= y
  BY <1>2
<1> QED
  BY <1>3 DEF Min

(* If it is bounded it has its maximum.                                    *)
LEMMA MaxNat ==
  ASSUME NEW T \in SUBSET Nat, T # {}, NEW n \in Nat, \A y \in T : y <= n
  PROVE  Max(T) \in T /\ \A y \in T : y <= Max(T)
<1> DEFINE D == {d \in Nat : \E y \in T : d = n - y}
<1>1. PICK y \in T : TRUE
  OBVIOUS
<1>2. n - y \in D
  BY <1>1
<1>3. D \in SUBSET Nat /\ D # {}
  BY <1>2
<1>4. Min(D) \in D /\ \A d \in D : Min(D) <= d
  BY <1>3, MinNat
<1>5. PICK m \in T : Min(D) = n - m
  BY <1>4
<1>6. \A z \in T : z <= m
  <2> SUFFICES ASSUME NEW z \in T PROVE z <= m
    OBVIOUS
  <2>1. n - z \in D
    OBVIOUS
  <2>2. n - m <= n - z
    BY <1>4, <1>5, <2>1
  <2> HIDE DEF D
  <2> QED
    BY <2>2
<1>7. \E z \in T : \A x \in T : z >= x
  BY <1>6
<1> QED
  BY <1>7 DEF Max

(* The scan at boot looks at blocks of the reserved area only:             *)
(* get_last_reserve_block ends behind RESERVED_BLOCK_CNT blocks that were  *)
(* not shipped bad, so not before the scan does.                           *)
LEMMA ScanInside == ScanBlocks \subseteq AllBlocks /\ LastReserved \in Nat
<1> DEFINE C(m) == Cardinality((StartBlk..m - 1) \ FactoryBad)
           N == StartBlk + ReservedCnt + Cardinality(FactoryBad)
           T == {m \in StartBlk..N : C(m) >= ReservedCnt}
           S == {m \in StartBlk..N : C(m) = ReservedCnt}
           x == Min(T)
<1>1. /\ StartBlk \in Nat /\ ReservedCnt \in Nat /\ Cardinality(FactoryBad) \in Nat
      /\ N \in Nat /\ N >= StartBlk /\ IsFiniteSet(FactoryBad)
  BY StoreAssumption, FS_CardinalityType
<1>2. \A m \in Int : /\ IsFiniteSet(StartBlk..m - 1)
                     /\ Cardinality(StartBlk..m - 1)
                          = IF StartBlk > m - 1 THEN 0 ELSE (m - 1) - StartBlk + 1
                     /\ IsFiniteSet((StartBlk..m - 1) \ FactoryBad) /\ C(m) \in Nat
                     /\ C(m) <= Cardinality(StartBlk..m - 1)
  <2> SUFFICES ASSUME NEW m \in Int
               PROVE  /\ IsFiniteSet(StartBlk..m - 1)
                      /\ Cardinality(StartBlk..m - 1)
                           = IF StartBlk > m - 1 THEN 0 ELSE (m - 1) - StartBlk + 1
                      /\ IsFiniteSet((StartBlk..m - 1) \ FactoryBad) /\ C(m) \in Nat
                      /\ C(m) <= Cardinality(StartBlk..m - 1)
    OBVIOUS
  <2>1. m - 1 \in Int /\ StartBlk \in Int
    BY <1>1
  <2>2. /\ IsFiniteSet(StartBlk..m - 1)
        /\ Cardinality(StartBlk..m - 1)
             = IF StartBlk > m - 1 THEN 0 ELSE (m - 1) - StartBlk + 1
    BY <2>1, FS_Interval
  <2>3. (StartBlk..m - 1) \ FactoryBad \subseteq StartBlk..m - 1
    OBVIOUS
  <2> QED
    BY <2>2, <2>3, FS_Subset, FS_CardinalityType
<1>3. N \in T
  <2>0. N \in Int /\ IsFiniteSet(StartBlk..N - 1)
    <3>1. N \in Int
      BY <1>1
    <3> HIDE DEF N
    <3> QED
      BY <1>2, <3>1
  <2>1. /\ C(N) = Cardinality(StartBlk..N - 1)
                    - Cardinality((StartBlk..N - 1) \cap FactoryBad)
        /\ Cardinality((StartBlk..N - 1) \cap FactoryBad) <= Cardinality(FactoryBad)
        /\ Cardinality((StartBlk..N - 1) \cap FactoryBad) \in Nat
    <3> HIDE DEF N
    <3> DEFINE I == StartBlk..N - 1
    <3>1. IsFiniteSet(I) /\ IsFiniteSet(FactoryBad)
      BY <1>1, <2>0
    <3> HIDE DEF I
    <3>2. /\ Cardinality(I \ FactoryBad) = Cardinality(I) - Cardinality(I \cap FactoryBad)
          /\ IsFiniteSet(I \cap FactoryBad)
          /\ Cardinality(I \cap FactoryBad) <= Cardinality(FactoryBad)
      BY <3>1, FS_Difference, FS_Intersection
    <3> QED
      BY <3>2, FS_CardinalityType DEF I
  <2>2. Cardinality(StartBlk..N - 1) = ReservedCnt + Cardinality(FactoryBad)
    <3> HIDE DEF N
    <3>1. Cardinality(StartBlk..N - 1)
             = IF StartBlk > N - 1 THEN 0 ELSE (N - 1) - StartBlk + 1
      BY <1>2, <2>0
    <3> USE DEF N
    <3> QED
      BY <1>1, <3>1
  <2> HIDE DEF C
  <2>3. C(N) >= ReservedCnt
    BY <1>1, <2>1, <2>2
  <2> HIDE DEF N
  <2> QED
    BY <1>1, <2>3
<1> HIDE DEF N
<1>4. T \in SUBSET Nat /\ S \in SUBSET Nat
  BY <1>1
<1>5. x \in T /\ \A y \in T : x <= y
  BY <1>3, <1>4, MinNat
<1>6. x \in Nat /\ x >= StartBlk /\ x <= N /\ C(x) >= ReservedCnt /\ C(x) \in Nat
  <2>1. x \in StartBlk..N /\ C(x) >= ReservedCnt
    BY <1>5
  <2> HIDE DEF C, x
  <2>2. x \in Int
    BY <2>1
  <2>3. C(x) \in Nat
    BY <1>2, <2>2
  <2> QED
    BY <1>1, <2>1, <2>2, <2>3
<1> HIDE DEF x
<1>7. C(x) <= ReservedCnt
  <2>1. CASE x = StartBlk
    <3>1. StartBlk..x - 1 = {}
      BY <1>1, <2>1
    <3>2. C(x) = 0
      BY <3>1, FS_EmptySet, Zenon
    <3> QED
      BY <1>1, <3>2
  <2>2. CASE x # StartBlk
    <3>1. x - 1 \in StartBlk..N /\ x - 1 \in Int /\ ~(x <= x - 1)
      BY <1>1, <1>6, <2>2
    <3>2. C(x - 1) < ReservedCnt
      <4>1. x - 1 \notin T
        BY <1>5, <3>1
      <4>2. ~(C(x - 1) >= ReservedCnt) /\ C(x - 1) \in Nat
        BY <1>2, <3>1, <4>1
      <4> HIDE DEF C
      <4> QED
        BY <1>1, <4>2
    <3> DEFINE A == (StartBlk..(x - 1) - 1) \ FactoryBad
    <3>3. (StartBlk..x - 1) \ FactoryBad \subseteq A \cup {x - 1}
      BY <1>1, <1>6
    <3>4. IsFiniteSet(A) /\ Cardinality(A) = C(x - 1) /\ C(x - 1) \in Nat
      BY <1>2, <3>1
    <3> HIDE DEF A
    <3>5. IsFiniteSet(A \cup {x - 1}) /\ Cardinality(A \cup {x - 1}) \in Nat
          /\ Cardinality(A \cup {x - 1}) <= Cardinality(A) + 1
      <4>1. /\ IsFiniteSet(A \cup {x - 1})
            /\ Cardinality(A \cup {x - 1})
                 = IF x - 1 \in A THEN Cardinality(A) ELSE Cardinality(A) + 1
        BY <3>4, FS_AddElement
      <4>2. Cardinality(A) \in Nat
        BY <3>4, FS_CardinalityType
      <4> QED
        BY <4>1, <4>2
    <3>6. C(x) <= Cardinality(A \cup {x - 1})
      BY <3>3, <3>5, FS_Subset
    <3> HIDE DEF C
    <3> QED
      BY <1>1, <1>6, <3>2, <3>4, <3>5, <3>6
  <2> QED
    BY <2>1, <2>2
<1>8. x \in S
  <2> HIDE DEF C
  <2>1. C(x) = ReservedCnt /\ x \in StartBlk..N
    BY <1>1, <1>6, <1>7
  <2> QED
    BY <2>1
<1>9. Min(S) \in S
  BY <1>4, <1>8, MinNat
<1> DEFINE e == LastReserved
<1>10. e = Min(S)
  BY DEF LastReserved, N
<1> HIDE DEF e
<1>11. e \in StartBlk..N /\ C(e) = ReservedCnt
  BY <1>9, <1>10
<1>12. e \in Int /\ e \in Nat /\ e >= StartBlk
  BY <1>1, <1>11
<1>13. ReservedCnt <= IF StartBlk > e - 1 THEN 0 ELSE (e - 1) - StartBlk + 1
  <2>1. C(e) <= Cardinality(StartBlk..e - 1)
        /\ Cardinality(StartBlk..e - 1)
             = IF StartBlk > e - 1 THEN 0 ELSE (e - 1) - StartBlk + 1
    BY <1>2, <1>12
  <2> HIDE DEF C
  <2> QED
    BY <1>11, <2>1
<1>14. e >= StartBlk + ReservedCnt
  BY <1>1, <1>12, <1>13
<1> QED
  BY <1>1, <1>12, <1>14 DEF ScanBlocks, AllBlocks, e

-----------------------------------------------------------------------------
(* What the scan at boot finds.                                            *)

(* Names a page can carry.                                                 *)
Names == Items \cup {Key, "blank", "torn"}

(* What a page can hold.                                                   *)
Contents == [name : Names, timestamp : 0..TsMod - 1, version : Nat]

(* f assigns contents to the pages of the reserved area.                   *)
FlashOK(f) == f \in [AllBlocks -> [Pages -> Contents]]

(* A struct _nand_arg_info.                                                *)
Args == [arg_valid : BOOLEAN, valid_blk_addr : AllBlocks \cup {0},
         valid_page_addr : Nat, timestamp : 0..TsMod - 1, update_flag : BOOLEAN]

(* A page of block b carries the name i.                                   *)
Has(f, b, i) == \E p \in Pages : Named(f[b][p], i)

(* No page of block b carries the name of an item other than i.            *)
Only(f, b, i) == \A j \in Items : Has(f, b, j) => j = i

(* No block carries the names of two items.                                *)
Pure(f) == \A b \in AllBlocks : \A i \in Items : Has(f, b, i) => Only(f, b, i)

(* Types of the constants.                                                 *)
LEMMA ConstFacts ==
  /\ TsMod \in Nat /\ TsMod > 1 /\ pages_read \in Nat /\ pages_read > 0
  /\ AllBlocks \subseteq Nat \ {0} /\ ScanBlocks \subseteq AllBlocks /\ Pages \subseteq Nat
  /\ Blank \in Contents /\ Torn \in Contents
  /\ "blank" \notin Items /\ "torn" \notin Items /\ Key \notin Items
<1>1. TsMod \in Nat /\ TsMod > 1 /\ pages_read \in Nat /\ pages_read > 0
      /\ StartBlk \in Nat \ {0}
  BY StoreAssumption
<1>2. AllBlocks \subseteq Nat \ {0}
  BY <1>1, ScanInside DEF AllBlocks
<1>3. Pages \subseteq Nat
  BY <1>1 DEF Pages
<1>4. Blank \in Contents /\ Torn \in Contents
  BY <1>1 DEF Blank, Torn, Page, Contents, Names
<1>5. "blank" \notin Items /\ "torn" \notin Items /\ Key \notin Items
  BY StoreAssumption
<1> QED
  BY <1>1, <1>2, <1>3, <1>4, <1>5, ScanInside

(* The first pages of the copies of item i.                                *)
LEMMA SlotFacts ==
  ASSUME NEW i \in Items
  PROVE  /\ arg_pages[i] \in Nat \ {0} /\ arg_pages[i] <= pages_read
         /\ 0 \in Slots(i) /\ Slots(i) \subseteq Pages
<1>1. arg_pages[i] \in 1..pages_read /\ pages_read \in Nat
  BY StoreAssumption
<1>2. 0 \in Pages
  BY <1>1 DEF Pages
<1>3. 0 % arg_pages[i] = 0
  <2> DEFINE m == arg_pages[i]
  <2>1. m \in Nat /\ m > 0
    BY <1>1
  <2> HIDE DEF m
  <2>2. 0 % m = 0
    BY <2>1, Z3
  <2> QED
    BY <2>2 DEF m
<1> QED
  BY <1>1, <1>2, <1>3 DEF Slots

(* The multiple behind a multiple.                                         *)
LEMMA NextMultiple ==
  ASSUME NEW x \in Nat, NEW y \in Nat \ {0}, x % y = 0
  PROVE  (x + y) % y = 0
<1>1. x = y * (x \div y) /\ x \div y \in Nat
  BY Z3
<1>2. PICK q \in Nat : x = y * q
  BY <1>1
<1>3. x + y = y * (q + 1)
  BY <1>2, Z3
<1>4. (y * (q + 1)) % y = 0
  BY Z3
<1> QED
  BY <1>3, <1>4

(* Behind a copy with room for two starts the next one.                    *)
LEMMA NextSlot ==
  ASSUME NEW i \in Items, NEW p \in Slots(i), p + 2 * arg_pages[i] <= pages_read
  PROVE  p + arg_pages[i] \in Slots(i)
<1>1. arg_pages[i] \in Nat \ {0} /\ p \in Nat /\ pages_read \in Nat /\ p % arg_pages[i] = 0
  BY SlotFacts, ConstFacts DEF Slots
<1> DEFINE m == arg_pages[i]
<1>3. (p + m) % m = 0
  BY <1>1, NextMultiple
<1>4. p + m \in 0..pages_read - 1
  <2> HIDE DEF m
  <2>1. m \in Nat /\ m > 0 /\ p \in Nat /\ pages_read \in Nat /\ p + 2 * m <= pages_read
    BY <1>1 DEF m
  <2> QED
    BY <2>1
<1> QED
  BY <1>3, <1>4 DEF Slots, Pages

(* A block whose first readable page carries the name has a timestamp and  *)
(* at least one copy.                                                      *)
LEMMA HolderFacts ==
  ASSUME NEW f, FlashOK(f), NEW i \in Items, NEW b \in Holders(f, i)
  PROVE  /\ b \in AllBlocks /\ Has(f, b, i)
         /\ FirstTimestamp(f, b, i) \in 0..TsMod - 1
         /\ Copies(f, b, i) # {} /\ Copies(f, b, i) \subseteq Slots(i)
<1>1. b \in ScanBlocks /\ b \in AllBlocks
  BY ConstFacts DEF Holders
<1>2. PICK p \in FirstReadable(f, b, i) : Named(f[b][p], i)
  BY DEF Holders
<1>3. p \in Slots(i) /\ p \in Pages /\ f[b][p] # Torn
      /\ \A q \in Slots(i) : q < p => f[b][q] = Torn
  BY <1>2, SlotFacts DEF FirstReadable
<1>4. Has(f, b, i)
  BY <1>2, <1>3 DEF Has
<1>5. FirstTimestamp(f, b, i) \in 0..TsMod - 1
  <2> DEFINE c == CHOOSE x \in FirstReadable(f, b, i) : TRUE
  <2>1. c \in FirstReadable(f, b, i)
    BY <1>2
  <2>2. c \in Pages
    BY <2>1, SlotFacts DEF FirstReadable
  <2> HIDE DEF c
  <2>3. f[b][c] \in Contents
    BY <1>1, <2>2 DEF FlashOK
  <2>4. FirstTimestamp(f, b, i) = f[b][c].timestamp
    BY DEF FirstTimestamp, c
  <2> QED
    BY <2>3, <2>4 DEF Contents
<1>6. p < CopiesEnd(f, b, i)
  <2> DEFINE T == {pages_read} \cup {q \in Slots(i) : f[b][q] # Torn /\ ~Named(f[b][q], i)}
  <2>1. T \in SUBSET Nat /\ T # {}
    BY SlotFacts, ConstFacts
  <2>2. Min(T) \in T
    BY <2>1, MinNat
  <2>3. p < pages_read /\ p \in Nat
    BY <1>3, ConstFacts DEF Pages
  <2>4. \A q \in T : p < q
    <3> SUFFICES ASSUME NEW q \in T PROVE p < q
      OBVIOUS
    <3>1. CASE q = pages_read
      BY <2>3, <3>1
    <3>2. CASE q # pages_read
      <4>1. q \in Slots(i) /\ f[b][q] # Torn /\ ~Named(f[b][q], i) /\ q \in Nat
        BY <2>1, <3>2
      <4>2. ~(q < p) /\ q # p
        BY <1>2, <1>3, <4>1
      <4> HIDE DEF T
      <4> QED
        BY <2>3, <4>1, <4>2
    <3> QED
      BY <3>1, <3>2
  <2> QED
    BY <2>2, <2>4 DEF CopiesEnd
<1>7. p \in Copies(f, b, i)
  BY <1>2, <1>3, <1>6 DEF Copies
<1> QED
  BY <1>1, <1>4, <1>5, <1>7 DEF Copies

(* If a block holds the item the scan ends at one that does: for FULL_PAGE *)
(* items one with the greatest timestamp.                                  *)
LEMMA ScanBlockFacts ==
  ASSUME NEW f, FlashOK(f), NEW i \in Items, Holders(f, i) # {}
  PROVE  /\ ScanBlock(f, i) \in Holders(f, i)
         /\ i \notin FullBlk =>
              \A c \in Holders(f, i) :
                FirstTimestamp(f, c, i) <= FirstTimestamp(f, ScanBlock(f, i), i)
<1>1. Holders(f, i) \in SUBSET Nat
  BY ConstFacts DEF Holders
<1>2. CASE i \in FullBlk
  BY <1>1, <1>2, MinNat DEF ScanBlock
<1>3. CASE i \notin FullBlk
  <2> DEFINE ts(b) == FirstTimestamp(f, b, i)
             T == {n \in Nat : \E b \in Holders(f, i) : n = ts(b)}
             M == {b \in Holders(f, i) : \A c \in Holders(f, i) : ts(c) <= ts(b)}
  <2>1. \A b \in Holders(f, i) : ts(b) \in 0..TsMod - 1
    BY HolderFacts
  <2> HIDE DEF ts
  <2>2. \A n \in T : n <= TsMod
    BY <2>1, ConstFacts
  <2>3. T # {} /\ T \in SUBSET Nat
    BY <2>1, ConstFacts
  <2>4. Max(T) \in T /\ \A n \in T : n <= Max(T)
    BY <2>2, <2>3, MaxNat, ConstFacts
  <2>5. PICK b \in Holders(f, i) : Max(T) = ts(b)
    BY <2>4
  <2>6. \A c \in Holders(f, i) : ts(c) <= ts(b)
    <3> SUFFICES ASSUME NEW c \in Holders(f, i) PROVE ts(c) <= ts(b)
      OBVIOUS
    <3>1. ts(c) \in T
      BY <2>1, ConstFacts
    <3> QED
      BY <2>4, <2>5, <3>1
  <2>7. M # {} /\ M \in SUBSET Nat
    BY <1>1, <2>6
  <2>8. Min(M) \in M
    BY <2>7, MinNat
  <2>9. ScanBlock(f, i) = Min(M)
    BY <1>3 DEF ScanBlock, ts
  <2>10. ScanBlock(f, i) \in Holders(f, i)
         /\ \A c \in Holders(f, i) : ts(c) <= ts(ScanBlock(f, i))
    BY <2>8, <2>9
  <2> QED
    BY <2>10 DEF ts
<1> QED
  BY <1>2, <1>3

(* amlnand_check_info_by_name fills in an arg_info that points to the      *)
(* first page of a copy, in a block that carries the name.                 *)
LEMMA CheckFacts ==
  ASSUME NEW f, FlashOK(f), NEW i \in Items
  PROVE  /\ CheckInfo(f, i) \in Args /\ CheckInfo(f, i).valid_page_addr \in Slots(i)
         /\ CheckInfo(f, i).arg_valid =>
              /\ CheckInfo(f, i).valid_blk_addr \in AllBlocks
              /\ Has(f, CheckInfo(f, i).valid_blk_addr, i)
         /\ CheckInfo(f, i).arg_valid <=> Holders(f, i) # {}
<1>1. CASE Holders(f, i) = {}
  <2>1. CheckInfo(f, i) = Unknown
    BY <1>1 DEF CheckInfo
  <2>2. Unknown \in Args /\ Unknown.valid_page_addr = 0 /\ ~Unknown.arg_valid
    BY ConstFacts DEF Unknown, Args
  <2> QED
    BY <1>1, <2>1, <2>2, SlotFacts
<1>2. CASE Holders(f, i) # {}
  <2> DEFINE b == ScanBlock(f, i)
             p == ScanPage(f, b, i)
             K == Copies(f, b, i)
  <2>1. b \in Holders(f, i)
    BY <1>2, ScanBlockFacts
  <2> HIDE DEF b
  <2>2. b \in AllBlocks /\ Has(f, b, i) /\ K # {} /\ K \subseteq Slots(i)
    BY <2>1, HolderFacts
  <2>3. K \in SUBSET Nat /\ \A q \in K : q <= pages_read
    <3>1. \A q \in Pages : q \in Nat /\ q <= pages_read
      BY ConstFacts DEF Pages
    <3> QED
      BY <2>2, <3>1, SlotFacts
  <2>4. Min(K) \in K /\ Max(K) \in K
    BY <2>2, <2>3, MinNat, MaxNat, ConstFacts
  <2>5. p \in Slots(i) /\ p \in Pages /\ p \in Nat
    BY <2>2, <2>4, SlotFacts, ConstFacts DEF ScanPage
  <2> HIDE DEF p
  <2>6. CheckInfo(f, i) =
          [arg_valid |-> TRUE, valid_blk_addr |-> b, valid_page_addr |-> p,
           timestamp |-> f[b][p].timestamp, update_flag |-> UpdateFlag(f, b, i)]
    BY <1>2 DEF CheckInfo, b, p
  <2>7. f[b][p].timestamp \in 0..TsMod - 1
    <3>1. f[b][p] \in Contents
      BY <2>2, <2>5 DEF FlashOK
    <3> QED
      BY <3>1 DEF Contents
  <2>8. UpdateFlag(f, b, i) \in BOOLEAN
    BY DEF UpdateFlag
  <2>9. CheckInfo(f, i) \in Args
    BY <2>2, <2>5, <2>6, <2>7, <2>8 DEF Args
  <2> QED
    BY <1>2, <2>2, <2>5, <2>6, <2>9
<1> QED
  BY <1>1, <1>2

(* A boot finds a version.                                                 *)
LEMMA FoundFacts ==
  ASSUME NEW f, FlashOK(f)
  PROVE  Found(f) \in [Items -> Nat]
<1> SUFFICES ASSUME NEW i \in Items PROVE Version(f, i) \in Nat
  BY DEF Found
<1> DEFINE a == CheckInfo(f, i)
           r == ReadInfo(f, a, i)
<1>1. a.arg_valid => a.valid_blk_addr \in AllBlocks
  BY CheckFacts
<1>2. a.arg_valid => r[0] \in Nat
  <2> HAVE a.arg_valid
  <2> HIDE DEF a
  <2>1. 0 \in 0..arg_pages[i] - 1
    BY SlotFacts
  <2> DEFINE p == a.valid_page_addr + 0
  <2>2. r[0] = IF p \in Pages /\ Named(f[a.valid_blk_addr][p], i)
               THEN f[a.valid_blk_addr][p].version ELSE 0
    BY <2>1 DEF ReadInfo
  <2> HIDE DEF p
  <2>3. p \in Pages => f[a.valid_blk_addr][p] \in Contents
    BY <1>1 DEF FlashOK
  <2>4. p \in Pages => f[a.valid_blk_addr][p].version \in Nat
    BY <2>3 DEF Contents
  <2> QED
    BY <2>2, <2>4
<1> HIDE DEF r, a
<1>3. Version(f, i) = IF a.arg_valid /\ \A k \in DOMAIN r : r[k] = r[0] THEN r[0] ELSE 0
  BY DEF Version, r, a
<1> QED
  BY <1>2, <1>3

-----------------------------------------------------------------------------
(* The invariant, and what a step does to the flash.                       *)

(* A save in progress.                                                     *)
Jobs == [phase : {"alloc", "write", "commit", "erase_old", "finish", "hung"},
         item : Items, version : Nat, boot : BOOLEAN, copy : {0, 1},
         blk : AllBlocks \cup {0}, fresh : BOOLEAN, from : Nat, written : Nat,
         tests : Nat, old : AllBlocks \cup {0}]

(* The types of the state.                                                 *)
StoreTypes ==
  /\ FlashOK(flash)
  /\ found \in [Items -> Nat]
  /\ arg_info \in [Items -> Args]
  /\ \A i \in Items : arg_info[i].valid_page_addr \in Slots(i)
  /\ reserved \subseteq AllBlocks
  /\ job \in Jobs \cup {NoJob}
  /\ repair \subseteq FullBlk
  /\ saves \in [Items -> Nat]
  /\ acked \in [Items -> Nat]

(* The block the RAM has for item i.                                       *)
Current(i) == arg_info[i].valid_blk_addr

(* Item i is known to have a copy.                                         *)
Valid(i) == arg_info[i].arg_valid

(* The current block of item i is listed, carries no other name and is no  *)
(* other item's current block.                                             *)
Owns(i) ==
  /\ Current(i) \in reserved
  /\ Only(flash, Current(i), i)
  /\ \A j \in Items \ {i} : Valid(j) => Current(j) # Current(i)

(* Every item that is known owns its block, and no block carries two       *)
(* names.                                                                  *)
OwnInv == Pure(flash) /\ \A i \in Items : Valid(i) => Owns(i)

(* What the save in progress knows of its block. A new block is not listed *)
(* until the commit, and an append goes to the block of its own item;      *)
(* after the commit the item owns its new block, and the old one is        *)
(* nobody's.                                                               *)
JobInv ==
  job # NoJob =>
    /\ job.boot => job.item \in FullBlk
    /\ job.item \in FullBlk => job.fresh
    /\ job.phase = "alloc" => job.fresh
    /\ job.phase \in {"write", "commit"} =>
         /\ job.blk \in AllBlocks /\ Only(flash, job.blk, job.item)
         /\ job.fresh => job.blk \notin reserved
         /\ ~job.fresh =>
              /\ Valid(job.item) /\ job.blk = Current(job.item)
              /\ arg_info[job.item].valid_page_addr + 2 * arg_pages[job.item]
                   <= pages_read
    /\ job.phase \in {"erase_old", "finish"} => Owns(job.item)
    /\ job.phase = "erase_old" =>
         /\ job.old \in AllBlocks /\ Only(flash, job.old, job.item)
         /\ \A j \in Items : Valid(j) \/ j = job.item => Current(j) # job.old

(* The inductive invariant.                                                *)
StoreInv == StoreTypes /\ OwnInv /\ JobInv

(* No block carries a name in g that it does not carry in f.               *)
Shrinks(f, g) == \A b \in AllBlocks : \A j \in Items : Has(g, b, j) => Has(f, b, j)

(* Only block B may carry a new name in g, and only i.                     *)
Writes(f, g, B, i) ==
  \A b \in AllBlocks : \A j \in Items :
    Has(g, b, j) => Has(f, b, j) \/ (b = B /\ j = i)

(* Writing the name i to block B leaves other blocks, and the blocks of i, *)
(* as pure as they were.                                                   *)
LEMMA OnlyKept ==
  ASSUME NEW f, NEW g, NEW B, NEW i, Writes(f, g, B, i),
         NEW b \in AllBlocks, NEW j, Only(f, b, j), b # B \/ j = i
  PROVE  Only(g, b, j)
BY DEF Writes, Only

(* If B carried no other name, every block still carries one name at most. *)
LEMMA PureKept ==
  ASSUME NEW f, NEW g, NEW B, NEW i, Writes(f, g, B, i), Pure(f), Only(f, B, i)
  PROVE  Pure(g)
<1> SUFFICES ASSUME NEW b \in AllBlocks, NEW j \in Items, Has(g, b, j),
                    NEW k \in Items, Has(g, b, k)
             PROVE  k = j
  BY DEF Pure, Only
<1>1. /\ Has(f, b, j) \/ (b = B /\ j = i)
      /\ Has(f, b, k) \/ (b = B /\ k = i)
  BY DEF Writes
<1>2. \A x \in Items : b = B /\ Has(f, b, x) => x = i
  BY DEF Only
<1>3. Has(f, b, j) /\ Has(f, b, k) => k = j
  BY DEF Pure, Only
<1> QED
  BY <1>1, <1>2, <1>3

(* Taking names away leaves the rest as it was.                            *)
LEMMA OnlyShrinks ==
  ASSUME NEW f, NEW g, Shrinks(f, g), NEW b \in AllBlocks, NEW j, Only(f, b, j)
  PROVE  Only(g, b, j)
BY DEF Shrinks, Only

(* The same for all blocks.                                                *)
LEMMA PureShrinks ==
  ASSUME NEW f, NEW g, Shrinks(f, g), Pure(f)
  PROVE  Pure(g)
BY DEF Shrinks, Pure, Only

(* f with block b replaced.                                                *)
WithBlock(f, b, h) == [f EXCEPT ![b] = h]

(* f with one page replaced.                                               *)
WithPage(f, b, p, c) == [f EXCEPT ![b][p] = c]

(* What a block erase does to the flash.                                   *)
LEMMA SetBlock ==
  ASSUME NEW f, FlashOK(f), NEW b \in AllBlocks, NEW h \in [Pages -> Contents]
  PROVE  /\ FlashOK(WithBlock(f, b, h))
         /\ \A c \in AllBlocks : WithBlock(f, b, h)[c] = IF c = b THEN h ELSE f[c]
BY DEF FlashOK, WithBlock

(* What a page program does.                                               *)
LEMMA SetPage ==
  ASSUME NEW f, FlashOK(f), NEW b \in AllBlocks, NEW p, NEW c \in Contents
  PROVE  /\ FlashOK(WithPage(f, b, p, c))
         /\ \A d \in AllBlocks : \A q \in Pages :
              WithPage(f, b, p, c)[d][q] = IF d = b /\ q = p THEN c ELSE f[d][q]
<1>1. f[b] \in [Pages -> Contents]
  BY DEF FlashOK
<1>2. [f[b] EXCEPT ![p] = c] \in [Pages -> Contents]
  BY <1>1
<1> DEFINE h == [f[b] EXCEPT ![p] = c]
<1>3. WithPage(f, b, p, c) = WithBlock(f, b, h)
  BY DEF WithPage, WithBlock
<1> HIDE DEF h
<1>4. /\ FlashOK(WithPage(f, b, p, c))
      /\ \A d \in AllBlocks : WithPage(f, b, p, c)[d] = IF d = b THEN h ELSE f[d]
  BY <1>2, <1>3, SetBlock DEF h
<1>5. \A q \in Pages : [f[b] EXCEPT ![p] = c][q] = IF q = p THEN c ELSE f[b][q]
  BY <1>1
<1> QED
  BY <1>4, <1>5 DEF h

(* Erased and unreadable pages carry no name.                              *)
LEMMA BlankNames ==
  /\ \A j \in Items : ~Named(Blank, j) /\ ~Named(Torn, j)
  /\ [p \in Pages |-> Blank] \in [Pages -> Contents]
<1>1. Blank.name = "blank" /\ Torn.name = "torn"
  BY DEF Blank, Torn, Page
<1>2. [p \in Pages |-> Blank] \in [Pages -> Contents]
  BY ConstFacts
<1> QED
  BY <1>1, <1>2, ConstFacts DEF Named

(* An erase that is interrupted adds no name.                              *)
LEMMA HalfFacts ==
  ASSUME FlashOK(flash), NEW b \in AllBlocks, NEW h \in HalfErased(b)
  PROVE  /\ h \in [Pages -> Contents]
         /\ \A p \in Pages : \A j \in Items : Named(h[p], j) => Named(flash[b][p], j)
<1>1. PICK T \in SUBSET Pages :
        h = [p \in Pages |-> IF p \in T THEN Torn ELSE flash[b][p]]
  BY DEF HalfErased
<1>2. \A p \in Pages : flash[b][p] \in Contents
  BY DEF FlashOK
<1>3. h \in [Pages -> Contents]
  BY <1>1, <1>2, ConstFacts
<1>4. \A p \in Pages : h[p] = IF p \in T THEN Torn ELSE flash[b][p]
  BY <1>1
<1> QED
  BY <1>3, <1>4, BlankNames

(* The test pattern adds no name but that of the item being saved.         *)
LEMMA TestedFacts ==
  ASSUME StoreTypes, job \in Jobs, NEW b \in AllBlocks, NEW h \in Tested(b)
  PROVE  /\ h \in [Pages -> Contents]
         /\ \A p \in Pages : \A j \in Items :
              Named(h[p], j) => Named(flash[b][p], j) \/ j = job.item
<1> DEFINE t == Page(job.item, arg_info[job.item].timestamp, 0)
<1>1. t \in Contents /\ t.name = job.item
  <2>1. job.item \in Items
    BY DEF Jobs
  <2>2. arg_info[job.item] \in Args
    BY <2>1 DEF StoreTypes
  <2>3. arg_info[job.item].timestamp \in 0..TsMod - 1
    BY <2>2 DEF Args
  <2> QED
    BY <2>1, <2>3 DEF Page, Contents, Names
<1> HIDE DEF t
<1>2. CASE h \in HalfErased(b)
  BY <1>2, HalfFacts DEF StoreTypes
<1>3. CASE h = [p \in Pages |-> Blank]
  BY <1>3, BlankNames
<1>4. CASE \E k \in 0..pages_read :
             h = [p \in Pages |-> IF p < k THEN t ELSE IF p = k THEN Torn ELSE Blank]
  <2>1. PICK k \in 0..pages_read :
          h = [p \in Pages |-> IF p < k THEN t ELSE IF p = k THEN Torn ELSE Blank]
    BY <1>4
  <2>2. \A p \in Pages : h[p] \in {t, Torn, Blank}
    BY <2>1
  <2>3. h \in [Pages -> Contents]
    BY <2>1, <1>1, ConstFacts
  <2> QED
    BY <1>1, <2>2, <2>3, BlankNames DEF Named
<1> QED
  BY <1>2, <1>3, <1>4 DEF Tested, t

(* Replacing a block by one with fewer names.                              *)
LEMMA BlockShrinks ==
  ASSUME NEW f, FlashOK(f), NEW b \in AllBlocks, NEW h \in [Pages -> Contents],
         \A p \in Pages : \A j \in Items : Named(h[p], j) => Named(f[b][p], j),
         NEW g, g = WithBlock(f, b, h)
  PROVE  FlashOK(g) /\ Shrinks(f, g)
<1>1. FlashOK(g) /\ \A c \in AllBlocks : g[c] = IF c = b THEN h ELSE f[c]
  BY SetBlock
<1> QED
  BY <1>1 DEF Shrinks, Has

(* Replacing a block by one with the name i added.                         *)
LEMMA BlockWritten ==
  ASSUME NEW f, FlashOK(f), NEW b \in AllBlocks, NEW h \in [Pages -> Contents], NEW i,
         \A p \in Pages : \A j \in Items : Named(h[p], j) => Named(f[b][p], j) \/ j = i,
         NEW g, g = WithBlock(f, b, h)
  PROVE  FlashOK(g) /\ Writes(f, g, b, i)
<1>1. FlashOK(g) /\ \A c \in AllBlocks : g[c] = IF c = b THEN h ELSE f[c]
  BY SetBlock
<1> QED
  BY <1>1 DEF Writes, Has

(* A page that becomes unreadable.                                         *)
LEMMA PageTorn ==
  ASSUME NEW f, FlashOK(f), NEW b \in AllBlocks, NEW p,
         NEW g, g = WithPage(f, b, p, Torn)
  PROVE  FlashOK(g) /\ Shrinks(f, g)
<1>1. /\ FlashOK(g)
      /\ \A d \in AllBlocks : \A q \in Pages :
           g[d][q] = IF d = b /\ q = p THEN Torn ELSE f[d][q]
  BY SetPage, ConstFacts
<1> QED
  BY <1>1, BlankNames DEF Shrinks, Has

(* A page that is programmed.                                              *)
LEMMA PageWritten ==
  ASSUME NEW f, FlashOK(f), NEW b \in AllBlocks, NEW p, NEW c \in Contents,
         NEW g, g = WithPage(f, b, p, c)
  PROVE  FlashOK(g) /\ Writes(f, g, b, c.name)
<1>1. /\ FlashOK(g)
      /\ \A d \in AllBlocks : \A q \in Pages :
           g[d][q] = IF d = b /\ q = p THEN c ELSE f[d][q]
  BY SetPage
<1> QED
  BY <1>1 DEF Writes, Has, Named

(* amlnand_get_free_block takes a block of the area that is not listed.    *)
LEMMA FreeBlockFacts ==
  ASSUME NEW S, S = FreeBlock(job), S # {}
  PROVE  /\ Min(S) \in AllBlocks /\ Min(S) \notin reserved
         /\ Min(S) + 1 \in Nat
<1>1. S \in SUBSET Nat
  BY ConstFacts DEF FreeBlock
<1>2. Min(S) \in S
  BY <1>1, MinNat
<1>3. S \subseteq AllBlocks \ reserved
  BY DEF FreeBlock
<1> QED
  BY <1>1, <1>2, <1>3

-----------------------------------------------------------------------------
(* The start of a save.                                                    *)

(* A save in progress is not NoJob.                                        *)
LEMMA JobIsOne == NoJob \notin Jobs /\ \A j \in Jobs : j.phase # "none"
<1>1. \A j \in Jobs : j.phase # "none"
  BY DEF Jobs
<1>2. NoJob.phase = "none"
  BY DEF NoJob
<1> QED
  BY <1>1, <1>2

(* A phase other than none means that a save is in progress.               *)
LEMMA Running ==
  ASSUME StoreTypes, job.phase # "none"
  PROVE  job \in Jobs /\ job # NoJob /\ job.item \in Items
<1>1. NoJob.phase = "none"
  BY DEF NoJob
<1>2. job \in Jobs
  BY <1>1 DEF StoreTypes
<1> QED
  BY <1>2, JobIsOne DEF Jobs

(* A step that sets the flash keeps its type.                              *)
LEMMA FlashSet ==
  ASSUME NEW f, FlashOK(f), SetFlash(f)
  PROVE  flash' = f /\ FlashOK(flash)' /\ found' \in [Items -> Nat]
BY FoundFacts DEF SetFlash, FlashOK

(* If names are taken away and nothing is learnt, items keep what they     *)
(* own.                                                                    *)
LEMMA ArgsShrink ==
  ASSUME StoreInv, UNCHANGED <<arg_info, reserved>>, NEW f, flash' = f, Shrinks(flash, f)
  PROVE  OwnInv' /\ \A i \in Items : Owns(i) => Owns(i)'
<1>1. \A i \in Items : Owns(i) => Owns(i)'
  <2> SUFFICES ASSUME NEW i \in Items, Owns(i) PROVE Owns(i)'
    OBVIOUS
  <2>1. Current(i) \in AllBlocks /\ Only(flash, Current(i), i)
    BY DEF Owns, StoreInv, StoreTypes
  <2>2. Only(f, Current(i), i)
    BY <2>1, OnlyShrinks
  <2> QED
    BY <2>2 DEF Owns, Current, Valid
<1>2. Pure(f)
  BY PureShrinks DEF StoreInv, OwnInv
<1> QED
  BY <1>1, <1>2 DEF StoreInv, OwnInv, Valid

(* If the name k is written to a block that only k can own, they do too.   *)
LEMMA ArgsWritten ==
  ASSUME StoreInv, UNCHANGED <<arg_info, reserved>>, NEW f, flash' = f,
         NEW B \in AllBlocks, NEW k \in Items, Writes(flash, f, B, k), Only(flash, B, k),
         \A j \in Items : Valid(j) => Current(j) # B \/ j = k
  PROVE  OwnInv'
<1>1. \A i \in Items : Valid(i) => Owns(i)'
  <2> SUFFICES ASSUME NEW i \in Items, Valid(i) PROVE Owns(i)'
    OBVIOUS
  <2>0. Owns(i) /\ (Current(i) # B \/ i = k)
    BY DEF StoreInv, OwnInv
  <2>1. Current(i) \in AllBlocks /\ Only(flash, Current(i), i)
    BY <2>0 DEF Owns, StoreInv, StoreTypes
  <2>2. Only(f, Current(i), i)
    BY <2>0, <2>1, OnlyKept
  <2> QED
    BY <2>0, <2>2 DEF Owns, Current, Valid
<1>2. Pure(f)
  BY PureKept DEF StoreInv, OwnInv
<1> QED
  BY <1>1, <1>2 DEF OwnInv, Valid

(* How one pass of amlnand_save_info_by_name starts.                       *)
LEMMA CopyFacts ==
  ASSUME NEW a \in Args, NEW i \in Items, NEW v \in Nat, NEW boot \in BOOLEAN,
         NEW n \in {0, 1}, NEW last \in AllBlocks \cup {0}
  PROVE  LET c == Copy(a, i, v, boot, n, last)
         IN /\ c \in Jobs /\ c.item = i /\ c.boot = boot /\ c.fresh = ~Appends(a, i)
            /\ c.phase = IF Appends(a, i) THEN "write" ELSE "alloc"
            /\ Appends(a, i) => c.blk = a.valid_blk_addr
<1>1. Appends(a, i) \in BOOLEAN
  BY DEF Appends
<1>2. a.valid_blk_addr \in AllBlocks \cup {0} /\ StartBlk \in Nat
  BY StoreAssumption DEF Args
<1> QED
  BY <1>1, <1>2 DEF Copy, Jobs

(* The timestamp counts modulo its width and nothing else changes.         *)
LEMMA StampFacts ==
  ASSUME NEW a \in Args
  PROVE  /\ Stamp(a) \in Args /\ Stamp(a).arg_valid = a.arg_valid
         /\ Stamp(a).valid_blk_addr = a.valid_blk_addr
         /\ Stamp(a).valid_page_addr = a.valid_page_addr
         /\ Stamp(a).update_flag = a.update_flag
<1>1. \A n \in Nat, m \in Nat \ {0} : n % m \in 0..m - 1
  BY Z3
<1>2. a.timestamp \in Nat /\ TsMod \in Nat \ {0}
  BY ConstFacts DEF Args
<1>3. (a.timestamp + 1) % TsMod \in 0..TsMod - 1
  BY <1>1, <1>2
<1> QED
  BY <1>3 DEF Stamp, Args

(* A step that changes neither flash nor addresses.                        *)
LEMMA QuietArgs ==
  ASSUME StoreInv, UNCHANGED <<flash, reserved>>,
         \A i \in Items : /\ arg_info'[i].arg_valid = arg_info[i].arg_valid
                          /\ arg_info'[i].valid_blk_addr = arg_info[i].valid_blk_addr
  PROVE  OwnInv'
BY DEF StoreInv, OwnInv, Owns, Current, Valid

(* The start of a save keeps the invariant.                                *)
LEMMA FirstCopy ==
  ASSUME StoreInv, NEW i \in Items, NEW v \in Nat, NEW boot \in BOOLEAN,
         boot => i \in FullBlk, BeginSave(i, v, boot), UNCHANGED <<flash, found, reserved, acked>>,
         repair' \subseteq FullBlk, saves' \in [Items -> Nat]
  PROVE  StoreInv'
<1> DEFINE a == arg_info[i]
           b == [Stamp(a) EXCEPT !.update_flag = a.update_flag /\ ~boot]
           c == Copy(a, i, v, boot, 0, 0)
<1>1. a \in Args /\ a.valid_page_addr \in Slots(i)
  BY DEF StoreInv, StoreTypes
<1>2. arg_info' = [arg_info EXCEPT ![i] = b] /\ job' = c
  <2>1. job' = c
    BY DEF BeginSave
  <2>2. arg_info' = [arg_info EXCEPT ![i] = b]
    BY DEF BeginSave
  <2> QED
    BY <2>1, <2>2
<1>3. /\ b \in Args /\ b.arg_valid = a.arg_valid /\ b.valid_blk_addr = a.valid_blk_addr
      /\ b.valid_page_addr = a.valid_page_addr
  <2>1. /\ Stamp(a) \in Args /\ Stamp(a).arg_valid = a.arg_valid
        /\ Stamp(a).valid_blk_addr = a.valid_blk_addr
        /\ Stamp(a).valid_page_addr = a.valid_page_addr
    BY <1>1, StampFacts
  <2> QED
    BY <2>1 DEF Args
<1>4. /\ c \in Jobs /\ c.item = i /\ c.boot = boot /\ c.fresh = ~Appends(a, i)
      /\ c.phase = IF Appends(a, i) THEN "write" ELSE "alloc"
      /\ Appends(a, i) => c.blk = a.valid_blk_addr
  BY <1>1, CopyFacts
<1> HIDE DEF b, c
<1>5. arg_info' \in [Items -> Args]
      /\ \A j \in Items : arg_info'[j] = IF j = i THEN b ELSE arg_info[j]
  BY <1>2, <1>3 DEF StoreInv, StoreTypes
<1>6. \A j \in Items : /\ arg_info'[j].arg_valid = arg_info[j].arg_valid
                       /\ arg_info'[j].valid_blk_addr = arg_info[j].valid_blk_addr
                       /\ arg_info'[j].valid_page_addr = arg_info[j].valid_page_addr
  BY <1>3, <1>5
<1>7. StoreTypes'
  BY <1>2, <1>4, <1>5, <1>6 DEF StoreInv, StoreTypes, FlashOK
<1>8. OwnInv'
  BY <1>6, QuietArgs
<1>9. JobInv'
  <2>1. CASE Appends(a, i)
    <3>1. Valid(i) /\ i \notin FullBlk
          /\ a.valid_page_addr + 2 * arg_pages[i] <= pages_read
      BY <2>1 DEF Appends, Valid
    <3>2. Owns(i) /\ Current(i) \in AllBlocks
      BY <3>1 DEF StoreInv, StoreTypes, OwnInv, Owns
    <3>3. /\ job'.boot = boot /\ job'.item = i /\ job'.phase = "write" /\ ~job'.fresh
          /\ job'.blk = Current(i)
      BY <1>2, <1>4, <2>1 DEF Current
    <3>4. Only(flash', Current(i), i)
      BY <3>2 DEF Owns
    <3>5. Valid(i)' /\ Current(i)' = Current(i) /\ arg_info'[i].valid_page_addr = a.valid_page_addr
      BY <3>1, <1>6 DEF Valid, Current
    <3> QED
      BY <3>1, <3>2, <3>3, <3>4, <3>5 DEF JobInv, Current, Valid
  <2>2. CASE ~Appends(a, i)
    BY <1>2, <1>4, <2>2 DEF JobInv
  <2> QED
    BY <2>1, <2>2
<1> QED
  BY <1>7, <1>8, <1>9 DEF StoreInv

-----------------------------------------------------------------------------
(* Taking a block and writing to it.                                       *)

(* Taking a block.                                                         *)
LEMMA FreeStep ==
  ASSUME StoreInv, GetFreeBlock
  PROVE  StoreInv'
<1> DEFINE b == Min(FreeBlock(job))
           h == [p \in Pages |-> Blank]
           g == WithBlock(flash, b, h)
<1>1. job \in Jobs /\ job.item \in Items /\ job.phase = "alloc" /\ job # NoJob
  BY Running DEF GetFreeBlock, StoreInv
<1>2. b \in AllBlocks /\ b \notin reserved
  BY FreeBlockFacts DEF GetFreeBlock
<1>3. /\ job' = [job EXCEPT !.phase = "write", !.blk = b, !.written = 0]
      /\ SetFlash(g) /\ UNCHANGED <<arg_info, reserved, repair, saves, acked>>
  BY DEF GetFreeBlock, WithBlock
<1> HIDE DEF b
<1>4. h \in [Pages -> Contents] /\ \A p \in Pages : h[p] = Blank
  BY BlankNames
<1> HIDE DEF h
<1>5. FlashOK(g) /\ Shrinks(flash, g)
  BY <1>2, <1>4, BlockShrinks, BlankNames DEF StoreInv, StoreTypes
<1>6. Only(g, b, job.item)
  <2>1. g[b] = h
    BY <1>2, <1>4, SetBlock DEF StoreInv, StoreTypes
  <2> QED
    BY <1>4, <2>1, BlankNames DEF Only, Has
<1> HIDE DEF g
<1>7. flash' = g /\ FlashOK(flash)' /\ found' \in [Items -> Nat]
  BY <1>3, <1>5, FlashSet
<1>8. OwnInv'
  BY <1>3, <1>5, <1>7, ArgsShrink
<1>9. /\ job' \in Jobs /\ job'.item = job.item /\ job'.boot = job.boot
      /\ job'.fresh = job.fresh /\ job'.phase = "write" /\ job'.blk = b
  BY <1>1, <1>2, <1>3 DEF Jobs
<1>10. StoreTypes'
  BY <1>3, <1>7, <1>9 DEF StoreInv, StoreTypes
<1>11. JobInv'
  <2>1. job.fresh /\ (job.boot => job.item \in FullBlk)
    BY <1>1 DEF StoreInv, JobInv
  <2>2. job'.blk \notin reserved' /\ job'.blk \in AllBlocks
        /\ Only(flash', job'.blk, job'.item)
    BY <1>2, <1>3, <1>6, <1>7, <1>9
  <2> QED
    BY <1>9, <2>1, <2>2 DEF JobInv
<1> QED
  BY <1>8, <1>10, <1>11 DEF StoreInv

(* Skipping a block whose erase fails.                                     *)
LEMMA EraseFailsStep ==
  ASSUME StoreInv, FreeBlockEraseFails
  PROVE  StoreInv'
<1> DEFINE b == Min(FreeBlock(job))
<1>1. job \in Jobs /\ job.item \in Items /\ job.phase = "alloc" /\ job # NoJob
  BY Running DEF FreeBlockEraseFails, StoreInv
<1>2. b \in AllBlocks /\ b + 1 \in Nat
  BY FreeBlockFacts DEF FreeBlockEraseFails
<1>3. PICK h \in HalfErased(b) : SetFlash([flash EXCEPT ![b] = h])
  BY DEF FreeBlockEraseFails
<1>4. /\ job' = [job EXCEPT !.from = b + 1]
      /\ UNCHANGED <<arg_info, reserved, repair, saves, acked>>
  BY DEF FreeBlockEraseFails
<1> HIDE DEF b
<1> DEFINE g == WithBlock(flash, b, h)
<1>5. SetFlash(g)
  BY <1>3 DEF WithBlock
<1>6. FlashOK(g) /\ Shrinks(flash, g)
  BY <1>2, <1>3, HalfFacts, BlockShrinks DEF StoreInv, StoreTypes
<1> HIDE DEF g
<1>7. flash' = g /\ FlashOK(flash)' /\ found' \in [Items -> Nat]
  BY <1>5, <1>6, FlashSet
<1>8. OwnInv'
  BY <1>4, <1>6, <1>7, ArgsShrink
<1>9. /\ job' \in Jobs /\ job'.item = job.item /\ job'.boot = job.boot
      /\ job'.fresh = job.fresh /\ job'.phase = "alloc"
  BY <1>1, <1>2, <1>4 DEF Jobs
<1>10. StoreTypes'
  BY <1>4, <1>7, <1>9 DEF StoreInv, StoreTypes
<1>11. JobInv'
  <2>1. job.fresh /\ (job.boot => job.item \in FullBlk)
    BY <1>1 DEF StoreInv, JobInv
  <2> QED
    BY <1>9, <2>1 DEF JobInv
<1> QED
  BY <1>8, <1>10, <1>11 DEF StoreInv

(* Giving up without a block.                                              *)
LEMMA NoFreeStep ==
  ASSUME StoreInv, NoFreeBlock
  PROVE  StoreInv'
<1>1. job' = NoJob /\ repair' = {} /\ UNCHANGED <<flash, found, arg_info, reserved, saves, acked>>
  BY DEF NoFreeBlock, GiveUp
<1>2. StoreTypes'
  BY <1>1 DEF StoreInv, StoreTypes, FlashOK
<1>3. OwnInv'
  BY <1>1, QuietArgs
<1>4. JobInv'
  BY <1>1 DEF JobInv
<1> QED
  BY <1>2, <1>3, <1>4 DEF StoreInv

(* Programming a page.                                                     *)
LEMMA WriteStep ==
  ASSUME StoreInv, WritePage
  PROVE  StoreInv'
<1> DEFINE i == job.item
           B == job.blk
           c == Page(i, arg_info[i].timestamp, job.version)
           g == WithPage(flash, B, WritePos(job), c)
<1>1. job \in Jobs /\ job.phase = "write" /\ job # NoJob
  BY Running DEF WritePage, StoreInv
<1>1a. i \in Items
  BY <1>1 DEF Jobs
<1>2. /\ SetFlash(g) /\ UNCHANGED <<arg_info, reserved, repair, saves, acked>>
      /\ job' = [job EXCEPT !.written = @ + 1,
                   !.phase = IF job.written + 1 = PassLength(job.item)
                             THEN "commit" ELSE "write"]
  BY DEF WritePage, WithPage
<1>3. c \in Contents /\ c.name = i
  <2>1. arg_info[i] \in Args /\ job.version \in Nat
    BY <1>1, <1>1a DEF StoreInv, StoreTypes, Jobs
  <2>2. arg_info[i].timestamp \in 0..TsMod - 1
    BY <2>1 DEF Args
  <2> QED
    BY <1>1a, <2>1, <2>2 DEF Page, Contents, Names
<1>4. /\ job' \in Jobs /\ job'.item = i /\ job'.boot = job.boot
      /\ job'.fresh = job.fresh /\ job'.phase \in {"write", "commit"} /\ job'.blk = B
  <2>1. PICK q \in {"write", "commit"} :
          job' = [job EXCEPT !.written = @ + 1, !.phase = q]
    BY <1>2
  <2>2. PICK w \in Nat : w = job.written + 1
    BY <1>1 DEF Jobs
  <2>3. job' = [job EXCEPT !.written = w, !.phase = q]
    BY <2>1, <2>2
  <2> QED
    BY <1>1, <2>3 DEF Jobs
<1>5. /\ B \in AllBlocks /\ Only(flash, B, i)
      /\ job.fresh => B \notin reserved
      /\ ~job.fresh => /\ Valid(i) /\ B = Current(i)
                       /\ arg_info[i].valid_page_addr + 2 * arg_pages[i] <= pages_read
      /\ job.boot => i \in FullBlk
      /\ i \in FullBlk => job.fresh
  BY <1>1 DEF StoreInv, JobInv
<1> HIDE DEF i, B, c
<1>6. FlashOK(g) /\ Writes(flash, g, B, i)
  BY <1>3, <1>5, PageWritten DEF StoreInv, StoreTypes
<1> HIDE DEF g
<1>7. flash' = g /\ FlashOK(flash)' /\ found' \in [Items -> Nat]
  BY <1>2, <1>6, FlashSet
<1>8. \A j \in Items : Valid(j) => Current(j) # B \/ j = i
  <2> SUFFICES ASSUME NEW j \in Items, Valid(j), j # i PROVE Current(j) # B
    OBVIOUS
  <2>1. CASE job.fresh
    BY <1>5, <2>1 DEF StoreInv, OwnInv, Owns
  <2>2. CASE ~job.fresh
    BY <1>1a, <1>5, <2>2 DEF StoreInv, OwnInv, Owns
  <2> QED
    BY <2>1, <2>2
<1>9. OwnInv'
  BY <1>1a, <1>2, <1>5, <1>6, <1>7, <1>8, ArgsWritten
<1>10. StoreTypes'
  BY <1>2, <1>4, <1>7 DEF StoreInv, StoreTypes
<1>11. Only(flash', B, i)
  BY <1>5, <1>6, <1>7, OnlyKept
<1>12. JobInv'
  <2>1. arg_info' = arg_info /\ reserved' = reserved
    BY <1>2
  <2>2. job'.blk \in AllBlocks /\ Only(flash', job'.blk, job'.item)
    BY <1>4, <1>5, <1>11
  <2>3. /\ job'.boot => job'.item \in FullBlk
        /\ job'.item \in FullBlk => job'.fresh
        /\ job'.fresh => job'.blk \notin reserved'
    BY <1>4, <1>5, <2>1
  <2>4. ~job'.fresh =>
              /\ arg_info'[job'.item].arg_valid
              /\ job'.blk = arg_info'[job'.item].valid_blk_addr
              /\ arg_info'[job'.item].valid_page_addr + 2 * arg_pages[job'.item]
                   <= pages_read
    BY <1>4, <1>5, <2>1 DEF Valid, Current
  <2>5. job'.phase # "alloc" /\ job'.phase \notin {"erase_old", "finish"}
    BY <1>4
  <2> QED
    BY <2>2, <2>3, <2>4, <2>5 DEF JobInv, Valid, Current
<1> QED
  BY <1>9, <1>10, <1>12 DEF StoreInv

-----------------------------------------------------------------------------
(* Failing programs, and the commit.                                       *)

(* A save that hangs or gives up owns nothing more.                        *)
LEMMA AfterHang ==
  ASSUME StoreInv, job \in Jobs, Hang \/ GiveUp
  PROVE  job' \in Jobs \cup {NoJob} /\ repair' \subseteq FullBlk /\ JobInv'
<1>1. CASE Hang
  <2>1. job' = [job EXCEPT !.phase = "hung"] /\ repair' = repair
    BY <1>1 DEF Hang
  <2>2. /\ job' \in Jobs /\ job'.phase = "hung" /\ job'.item = job.item
        /\ job'.boot = job.boot /\ job'.fresh = job.fresh
    BY <2>1 DEF Jobs
  <2>3. job # NoJob /\ (job.boot => job.item \in FullBlk)
        /\ (job.item \in FullBlk => job.fresh)
    BY JobIsOne DEF StoreInv, JobInv
  <2> QED
    BY <2>1, <2>2, <2>3 DEF JobInv, StoreInv, StoreTypes
<1>2. CASE GiveUp
  BY <1>2 DEF GiveUp, JobInv
<1> QED
  BY <1>1, <1>2

(* A program that fails: test and retry, hang or give up.                  *)
LEMMA WriteFailsStep ==
  ASSUME StoreInv, WritePageFails
  PROVE  StoreInv'
<1>1. job \in Jobs /\ job.phase = "write" /\ job # NoJob /\ job.item \in Items
  BY Running DEF WritePageFails, StoreInv
<1>2. UNCHANGED <<arg_info, reserved, saves, acked>>
  BY DEF WritePageFails
<1>3. /\ job.blk \in AllBlocks /\ Only(flash, job.blk, job.item)
      /\ job.fresh => job.blk \notin reserved
      /\ job.boot => job.item \in FullBlk
      /\ job.item \in FullBlk => job.fresh
  BY <1>1 DEF StoreInv, JobInv
<1>4. CASE job.boot /\ job.tests < MaxTests
  <2>1. PICK h \in Tested(job.blk) : SetFlash([flash EXCEPT ![job.blk] = h])
    BY <1>4 DEF WritePageFails
  <2> DEFINE B == job.blk
             k == job.item
             g == WithBlock(flash, B, h)
  <2>2. SetFlash(g)
    BY <2>1 DEF WithBlock
  <2>3. /\ h \in [Pages -> Contents]
        /\ \A p \in Pages : \A j \in Items : Named(h[p], j) => Named(flash[B][p], j) \/ j = k
    BY <1>1, <1>3, <2>1, TestedFacts DEF StoreInv
  <2>4. B \in AllBlocks /\ k \in Items /\ Only(flash, B, k) /\ B \notin reserved
    BY <1>1, <1>3, <1>4
  <2> HIDE DEF B, k
  <2>5. FlashOK(g) /\ Writes(flash, g, B, k)
    BY <2>3, <2>4, BlockWritten DEF StoreInv, StoreTypes
  <2> HIDE DEF g
  <2>6. flash' = g /\ FlashOK(flash)' /\ found' \in [Items -> Nat]
    BY <2>2, <2>5, FlashSet
  <2>7. \A j \in Items : Valid(j) => Current(j) # B \/ j = k
    BY <2>4 DEF StoreInv, OwnInv, Owns
  <2>8. OwnInv'
    BY <1>2, <2>4, <2>5, <2>6, <2>7, ArgsWritten
  <2>9. /\ job' = [job EXCEPT !.phase = "alloc", !.from = StartBlk, !.tests = @ + 1]
        /\ repair' = repair
    BY <1>4 DEF WritePageFails
  <2>10. /\ job' \in Jobs /\ job'.item = job.item /\ job'.boot = job.boot
         /\ job'.fresh = job.fresh /\ job'.phase = "alloc"
    <3>1. PICK t \in Nat : t = job.tests + 1
      BY <1>1 DEF Jobs
    <3>2. job' = [job EXCEPT !.phase = "alloc", !.from = StartBlk, !.tests = t]
      BY <2>9, <3>1
    <3>3. StartBlk \in Nat
      BY StoreAssumption
    <3> QED
      BY <1>1, <3>2, <3>3 DEF Jobs
  <2>11. StoreTypes'
    BY <1>2, <2>6, <2>9, <2>10 DEF StoreInv, StoreTypes
  <2>12. JobInv'
    BY <1>3, <1>4, <2>10 DEF JobInv
  <2> QED
    BY <2>8, <2>11, <2>12 DEF StoreInv
<1>5. CASE ~(job.boot /\ job.tests < MaxTests)
  <2> DEFINE B == job.blk
             g == WithPage(flash, B, WritePos(job), Torn)
  <2>1. SetFlash(g) /\ (GiveUp \/ Hang)
    BY <1>5 DEF WritePageFails, WithPage
  <2>2. FlashOK(g) /\ Shrinks(flash, g)
    BY <1>3, PageTorn DEF StoreInv, StoreTypes
  <2> HIDE DEF g
  <2>3. flash' = g /\ FlashOK(flash)' /\ found' \in [Items -> Nat]
    BY <2>1, <2>2, FlashSet
  <2>4. OwnInv'
    BY <1>2, <2>2, <2>3, ArgsShrink
  <2>5. job' \in Jobs \cup {NoJob} /\ repair' \subseteq FullBlk /\ JobInv'
    BY <1>1, <2>1, AfterHang
  <2>6. StoreTypes'
    BY <1>2, <2>3, <2>5 DEF StoreInv, StoreTypes
  <2> QED
    BY <2>4, <2>5, <2>6 DEF StoreInv
<1> QED
  BY <1>4, <1>5

(* The commit hands the new block to the item, and the old one to the      *)
(* erase.                                                                  *)
LEMMA CommitStep ==
  ASSUME StoreInv, Commit
  PROVE  StoreInv'
<1>1. job \in Jobs /\ job.phase = "commit" /\ job # NoJob
  BY Running DEF Commit, StoreInv
<1>2. PICK i \in Items : i = job.item
  BY <1>1 DEF Jobs
<1>3. PICK B \in AllBlocks : B = job.blk
  BY <1>1 DEF StoreInv, JobInv
<1>4. /\ Only(flash, B, i)
      /\ job.fresh => B \notin reserved
      /\ ~job.fresh => /\ Valid(i) /\ B = Current(i)
                       /\ arg_info[i].valid_page_addr + 2 * arg_pages[i] <= pages_read
      /\ job.boot => i \in FullBlk
      /\ i \in FullBlk => job.fresh
  BY <1>1, <1>2, <1>3 DEF StoreInv, JobInv
<1> DEFINE a == arg_info[i]
           pg == IF job.fresh THEN 0 ELSE a.valid_page_addr + arg_pages[i]
           ph == IF job.fresh /\ a.arg_valid THEN "erase_old" ELSE "finish"
           n == [a EXCEPT !.valid_blk_addr = B, !.valid_page_addr = pg]
<1>5. a \in Args /\ a.valid_page_addr \in Slots(i)
  BY DEF StoreInv, StoreTypes
<1>6. /\ arg_info' = [arg_info EXCEPT ![i] = n]
      /\ reserved' = reserved \cup {B}
      /\ UNCHANGED <<flash, found, repair, saves, acked>>
  BY <1>2, <1>3, <1>5 DEF Commit, StoreInv, StoreTypes
<1>7. job' = [job EXCEPT !.phase = ph, !.old = a.valid_blk_addr]
  BY <1>2 DEF Commit
<1>8. pg \in Slots(i) /\ pg \in Nat
  BY <1>4, <1>5, SlotFacts, NextSlot, ConstFacts
<1> HIDE DEF pg
<1>9. n \in Args /\ n.valid_blk_addr = B /\ n.valid_page_addr = pg /\ n.arg_valid = a.arg_valid
  BY <1>5, <1>8 DEF Args
<1> HIDE DEF n
<1>10. arg_info' \in [Items -> Args]
       /\ \A j \in Items : arg_info'[j] = IF j = i THEN n ELSE arg_info[j]
  BY <1>6, <1>9 DEF StoreInv, StoreTypes
<1>11. /\ job' \in Jobs /\ job'.item = i /\ job'.boot = job.boot /\ job'.fresh = job.fresh
       /\ job'.phase = ph /\ job'.old = a.valid_blk_addr
  BY <1>1, <1>2, <1>5, <1>7 DEF Jobs, Args
<1>12. StoreTypes'
  BY <1>6, <1>8, <1>9, <1>10, <1>11 DEF StoreInv, StoreTypes, FlashOK
<1>13. /\ Current(i)' = B /\ Valid(i)' = Valid(i)
       /\ \A j \in Items \ {i} : Current(j)' = Current(j) /\ Valid(j)' = Valid(j)
  BY <1>9, <1>10 DEF Current, Valid
<1>14. \A j \in Items \ {i} : Valid(j) => Current(j) # B
  <2> SUFFICES ASSUME NEW j \in Items \ {i}, Valid(j) PROVE Current(j) # B
    OBVIOUS
  <2>1. CASE job.fresh
    BY <1>4, <2>1 DEF StoreInv, OwnInv, Owns
  <2>2. CASE ~job.fresh
    BY <1>4, <2>2 DEF StoreInv, OwnInv, Owns
  <2> QED
    BY <2>1, <2>2
<1>15. Owns(i)'
  BY <1>4, <1>6, <1>13, <1>14 DEF Owns
<1>16. OwnInv'
  <2> SUFFICES ASSUME NEW j \in Items, Valid(j)', j # i PROVE Owns(j)'
    BY <1>6, <1>15 DEF OwnInv, StoreInv
  <2>1. Valid(j) /\ Owns(j)
    BY <1>13 DEF StoreInv, OwnInv
  <2>2. Current(j)' \in reserved' /\ Only(flash', Current(j)', j)
    BY <1>6, <1>13, <2>1 DEF Owns
  <2>3. \A k \in Items \ {j} : Valid(k)' => Current(k)' # Current(j)'
    BY <1>13, <1>14, <2>1 DEF Owns
  <2> QED
    BY <2>2, <2>3 DEF Owns
<1>17. ph = "erase_old" =>
         /\ a.valid_blk_addr \in AllBlocks /\ Only(flash, a.valid_blk_addr, i)
         /\ \A j \in Items : Valid(j)' \/ j = i => Current(j)' # a.valid_blk_addr
  <2> HAVE ph = "erase_old"
  <2>1. job.fresh /\ Valid(i) /\ Current(i) = a.valid_blk_addr
    BY DEF Valid, Current
  <2>2. Owns(i)
    BY <2>1 DEF StoreInv, OwnInv
  <2>3. B # Current(i)
    BY <1>4, <2>1, <2>2 DEF Owns
  <2>4. Current(i) \in AllBlocks /\ Only(flash, Current(i), i)
    BY <2>2 DEF Owns, StoreInv, StoreTypes
  <2>5. \A j \in Items \ {i} : Valid(j) => Current(j) # Current(i)
    BY <2>2 DEF Owns
  <2> QED
    BY <1>13, <2>1, <2>3, <2>4, <2>5
<1>18. JobInv'
  <2>1. ph \in {"erase_old", "finish"}
    OBVIOUS
  <2> HIDE DEF ph
  <2>2. job'.phase = "erase_old" =>
         /\ job'.old \in AllBlocks /\ Only(flash', job'.old, job'.item)
         /\ \A j \in Items : Valid(j)' \/ j = job'.item => Current(j)' # job'.old
    BY <1>6, <1>11, <1>17
  <2>3. job'.phase \notin {"alloc", "write", "commit"}
    BY <1>11, <2>1
  <2>4. \A j \in Items : j = job'.item => Owns(j)'
    BY <1>11, <1>15
  <2>5. /\ job'.boot => job'.item \in FullBlk
        /\ job'.item \in FullBlk => job'.fresh
    BY <1>4, <1>11
  <2>6. job'.item \in Items /\ Owns(job.item)'
    <3>1. job'.item = i
      BY <1>11
    <3>2. Owns(job.item)' <=> Owns(i)'
      BY <3>1 DEF Owns, Current, Valid
    <3> QED
      BY <1>15, <3>1, <3>2
  <2> QED
    BY <2>2, <2>3, <2>5, <2>6 DEF JobInv
<1> QED
  BY <1>12, <1>16, <1>18 DEF StoreInv

-----------------------------------------------------------------------------
(* The end of a save, power failures and decay.                            *)

(* Erasing the old block.                                                  *)
LEMMA EraseOldStep ==
  ASSUME StoreInv, EraseOld
  PROVE  StoreInv'
<1>1. job \in Jobs /\ job.phase = "erase_old" /\ job # NoJob
  BY Running DEF EraseOld, StoreInv
<1>2. PICK i \in Items : i = job.item
  BY <1>1 DEF Jobs
<1>3. PICK b \in AllBlocks : b = job.old
  BY <1>1 DEF StoreInv, JobInv
<1>4. /\ Owns(i) /\ Only(flash, b, i)
      /\ \A j \in Items : Valid(j) \/ j = i => Current(j) # b
      /\ job.boot => i \in FullBlk
      /\ i \in FullBlk => job.fresh
  BY <1>1, <1>2, <1>3 DEF StoreInv, JobInv
<1> DEFINE h == [p \in Pages |-> Blank]
           g == WithBlock(flash, b, h)
<1>5. /\ SetFlash(g) /\ reserved' = reserved \ {b}
      /\ job' = [job EXCEPT !.phase = "finish"]
      /\ UNCHANGED <<arg_info, repair, saves, acked>>
  BY <1>3 DEF EraseOld, WithBlock
<1>6. h \in [Pages -> Contents] /\ \A p \in Pages : h[p] = Blank
  BY BlankNames
<1> HIDE DEF h
<1>7. FlashOK(g) /\ Shrinks(flash, g)
  BY <1>6, BlockShrinks, BlankNames DEF StoreInv, StoreTypes
<1> HIDE DEF g
<1>8. flash' = g /\ FlashOK(flash)' /\ found' \in [Items -> Nat]
  BY <1>5, <1>7, FlashSet
<1>9. /\ job' \in Jobs /\ job'.item = i /\ job'.boot = job.boot
      /\ job'.fresh = job.fresh /\ job'.phase = "finish"
  BY <1>1, <1>2, <1>5 DEF Jobs
<1>10. StoreTypes'
  BY <1>5, <1>8, <1>9 DEF StoreInv, StoreTypes
<1>11. ASSUME NEW j \in Items, Owns(j), Valid(j) \/ j = i PROVE Owns(j)'
  <2>1. Current(j) # b /\ Current(j) \in reserved /\ Current(j) \in AllBlocks
    BY <1>4, <1>11 DEF Owns, StoreInv, StoreTypes
  <2>2. Only(g, Current(j), j)
    BY <1>7, <1>11, <2>1, OnlyShrinks DEF Owns
  <2>3. Current(j)' = Current(j) /\ \A k \in Items : Current(k)' = Current(k) /\ Valid(k)' = Valid(k)
    BY <1>5 DEF Current, Valid
  <2> QED
    BY <1>5, <1>8, <1>11, <2>1, <2>2, <2>3 DEF Owns
<1>12. Owns(i)'
  BY <1>4, <1>11
<1>13. OwnInv'
  <2>1. Pure(flash')
    BY <1>7, <1>8, PureShrinks DEF StoreInv, OwnInv
  <2>2. ASSUME NEW j \in Items, Valid(j)' PROVE Owns(j)'
    <3>1. Valid(j) /\ Owns(j)
      BY <1>5, <2>2 DEF Valid, StoreInv, OwnInv
    <3> QED
      BY <1>11, <3>1
  <2> QED
    BY <2>1, <2>2 DEF OwnInv
<1>14. JobInv'
  <2>1. Owns(job.item)'
    <3>1. Owns(job.item)' <=> Owns(i)'
      BY <1>9 DEF Owns, Current, Valid
    <3> QED
      BY <1>12, <3>1
  <2>2. /\ job'.boot => job'.item \in FullBlk
        /\ job'.item \in FullBlk => job'.fresh
    BY <1>4, <1>9
  <2> QED
    BY <1>9, <2>1, <2>2 DEF JobInv
<1> QED
  BY <1>10, <1>13, <1>14 DEF StoreInv

(* The erase of the old block fails.                                       *)
LEMMA EraseOldFailsStep ==
  ASSUME StoreInv, EraseOldFails
  PROVE  StoreInv'
<1>1. job \in Jobs /\ job.phase = "erase_old" /\ job # NoJob
  BY Running DEF EraseOldFails, StoreInv
<1>2. PICK i \in Items : i = job.item
  BY <1>1 DEF Jobs
<1>3. PICK b \in AllBlocks : b = job.old
  BY <1>1 DEF StoreInv, JobInv
<1>4. /\ Only(flash, b, i)
      /\ \A j \in Items : Valid(j) \/ j = i => Current(j) # b
  BY <1>1, <1>2, <1>3 DEF StoreInv, JobInv
<1>5. UNCHANGED <<arg_info, reserved, saves, acked>> /\ (GiveUp \/ Hang)
  BY DEF EraseOldFails
<1>6. PICK h \in Tested(b) \cup HalfErased(b) : SetFlash([flash EXCEPT ![b] = h])
  BY <1>3 DEF EraseOldFails
<1> DEFINE g == WithBlock(flash, b, h)
<1>7. SetFlash(g)
  BY <1>6 DEF WithBlock
<1>8. /\ h \in [Pages -> Contents]
      /\ \A p \in Pages : \A j \in Items : Named(h[p], j) => Named(flash[b][p], j) \/ j = i
  <2>1. CASE h \in Tested(b)
    BY <1>1, <1>2, <2>1, TestedFacts DEF StoreInv
  <2>2. CASE h \in HalfErased(b)
    BY <2>2, HalfFacts DEF StoreInv, StoreTypes
  <2> QED
    BY <1>6, <2>1, <2>2
<1>9. FlashOK(g) /\ Writes(flash, g, b, i)
  BY <1>8, BlockWritten DEF StoreInv, StoreTypes
<1> HIDE DEF g
<1>10. flash' = g /\ FlashOK(flash)' /\ found' \in [Items -> Nat]
  BY <1>7, <1>9, FlashSet
<1>11. OwnInv'
  BY <1>4, <1>5, <1>9, <1>10, ArgsWritten
<1>12. job' \in Jobs \cup {NoJob} /\ repair' \subseteq FullBlk /\ JobInv'
  BY <1>1, <1>5, AfterHang
<1>13. StoreTypes'
  BY <1>5, <1>10, <1>12 DEF StoreInv, StoreTypes
<1> QED
  BY <1>11, <1>12, <1>13 DEF StoreInv

(* The end of a pass: the second copy, or the acknowledgement.             *)
LEMMA FinishStep ==
  ASSUME StoreInv, Finish
  PROVE  StoreInv'
<1>1. job \in Jobs /\ job.phase = "finish" /\ job # NoJob
  BY Running DEF Finish, StoreInv
<1>2. PICK i \in Items : i = job.item
  BY <1>1 DEF Jobs
<1>3. /\ Owns(i) /\ arg_info[i] \in Args /\ arg_info[i].valid_page_addr \in Slots(i)
      /\ job.boot => i \in FullBlk
  BY <1>1, <1>2 DEF StoreInv, JobInv, StoreTypes
<1> DEFINE a == [arg_info[i] EXCEPT !.arg_valid = TRUE,
                   !.update_flag = IF i \in FullBlk THEN @ ELSE FALSE]
           more == i \notin FullBlk /\ job.copy = 0
<1>4. /\ a \in Args /\ a.arg_valid /\ a.valid_blk_addr = arg_info[i].valid_blk_addr
      /\ a.valid_page_addr = arg_info[i].valid_page_addr
  BY <1>3 DEF Args
<1>5. UNCHANGED <<flash, found, reserved, repair, saves>>
  BY DEF Finish
<1>6. more => /\ job' = Copy(a, i, job.version, job.boot, 1, job.blk)
              /\ arg_info' = [arg_info EXCEPT ![i] = Stamp(a)]
              /\ acked' = acked
  BY <1>2 DEF Finish
<1>7. ~more => /\ job' = NoJob /\ arg_info' = [arg_info EXCEPT ![i] = a]
               /\ acked' = [acked EXCEPT ![i] = job.version]
  BY <1>2 DEF Finish
<1> HIDE DEF a
<1>8. PICK n \in Args : /\ arg_info' = [arg_info EXCEPT ![i] = n]
                        /\ n.arg_valid /\ n.valid_blk_addr = a.valid_blk_addr
                        /\ n.valid_page_addr = a.valid_page_addr
  <2>1. /\ Stamp(a) \in Args /\ Stamp(a).arg_valid = a.arg_valid
        /\ Stamp(a).valid_blk_addr = a.valid_blk_addr
        /\ Stamp(a).valid_page_addr = a.valid_page_addr
    BY <1>4, StampFacts
  <2> HIDE DEF more
  <2> QED
    BY <1>4, <1>6, <1>7, <2>1
<1>9. arg_info' \in [Items -> Args]
      /\ \A j \in Items : arg_info'[j] = IF j = i THEN n ELSE arg_info[j]
  BY <1>8 DEF StoreInv, StoreTypes
<1>10. /\ Valid(i)' /\ \A j \in Items : Current(j)' = Current(j)
       /\ \A j \in Items : arg_info'[j].valid_page_addr = arg_info[j].valid_page_addr
       /\ \A j \in Items \ {i} : Valid(j)' = Valid(j)
  BY <1>4, <1>8, <1>9 DEF Valid, Current
<1>11. OwnInv'
  <2>1. Pure(flash')
    BY <1>5 DEF StoreInv, OwnInv
  <2>2. Owns(i)'
    BY <1>3, <1>5, <1>10 DEF Owns
  <2>3. ASSUME NEW j \in Items \ {i}, Valid(j)' PROVE Owns(j)'
    <3>1. Valid(j) /\ Owns(j) /\ Current(i) # Current(j)
      BY <1>3, <1>10, <2>3 DEF StoreInv, OwnInv, Owns
    <3>2. \A k \in Items \ {j} : Valid(k)' => Current(k)' # Current(j)'
      BY <1>10, <3>1 DEF Owns
    <3> QED
      BY <1>5, <1>10, <3>1, <3>2 DEF Owns
  <2> QED
    BY <2>1, <2>2, <2>3 DEF OwnInv
<1>12. CASE more
  <2> DEFINE c == Copy(a, i, job.version, job.boot, 1, job.blk)
  <2>1. job.version \in Nat /\ job.boot \in BOOLEAN /\ ~job.boot
        /\ job.blk \in AllBlocks \cup {0}
    BY <1>1, <1>3, <1>12 DEF Jobs
  <2>2. /\ c \in Jobs /\ c.item = i /\ c.boot = job.boot /\ c.fresh = ~Appends(a, i)
        /\ c.phase = IF Appends(a, i) THEN "write" ELSE "alloc"
        /\ Appends(a, i) => c.blk = a.valid_blk_addr
    BY <1>4, <2>1, CopyFacts
  <2>3. job' = c /\ acked' = acked
    BY <1>6, <1>12
  <2> HIDE DEF c
  <2>4. StoreTypes'
    BY <1>5, <1>9, <1>10, <2>2, <2>3 DEF StoreInv, StoreTypes, FlashOK
  <2>5. CASE Appends(a, i)
    <3>1. /\ job'.item = i /\ ~job'.boot /\ ~job'.fresh /\ job'.phase = "write"
          /\ job'.blk = Current(i)
      BY <1>4, <2>1, <2>2, <2>3, <2>5 DEF Current
    <3>2. Only(flash', Current(i), i) /\ Current(i) \in AllBlocks
      BY <1>3, <1>5 DEF Owns, StoreInv, StoreTypes
    <3>3. /\ arg_info'[i].arg_valid /\ arg_info'[i].valid_blk_addr = Current(i)
          /\ arg_info'[i].valid_page_addr + 2 * arg_pages[i] <= pages_read
      BY <1>4, <1>10, <2>5 DEF Appends, Valid, Current
    <3> QED
      BY <1>11, <1>12, <2>4, <3>1, <3>2, <3>3 DEF StoreInv, JobInv, Valid, Current
  <2>6. CASE ~Appends(a, i)
    <3>1. /\ job'.item = i /\ ~job'.boot /\ job'.fresh /\ job'.phase = "alloc"
      BY <2>1, <2>2, <2>3, <2>6
    <3> QED
      BY <1>11, <2>4, <3>1 DEF StoreInv, JobInv
  <2> QED
    BY <2>5, <2>6
<1>13. CASE ~more
  <2>1. job.version \in Nat
    BY <1>1 DEF Jobs
  <2>2. job' = NoJob /\ acked' \in [Items -> Nat]
    BY <1>7, <1>13, <2>1 DEF StoreInv, StoreTypes
  <2>3. StoreTypes'
    BY <1>5, <1>9, <1>10, <2>2 DEF StoreInv, StoreTypes, FlashOK
  <2> QED
    BY <1>11, <2>2, <2>3 DEF StoreInv, JobInv
<1> QED
  BY <1>12, <1>13

(* Power that fails in any step adds no name to a block.                   *)
LEMMA PowerLoss ==
  ASSUME StoreInv, NEW f \in AfterPowerLoss
  PROVE  FlashOK(f) /\ Shrinks(flash, f)
<1>1. FlashOK(flash)
  BY DEF StoreInv, StoreTypes
<1>2. CASE f = flash
  BY <1>1, <1>2 DEF Shrinks
<1>3. CASE job.phase = "write" /\ f = [flash EXCEPT ![job.blk][WritePos(job)] = Torn]
  <2>1. job.blk \in AllBlocks
    BY <1>3, Running DEF StoreInv, JobInv
  <2>2. f = WithPage(flash, job.blk, WritePos(job), Torn)
    BY <1>3 DEF WithPage
  <2> QED
    BY <1>1, <2>1, <2>2, PageTorn
<1>4. ASSUME NEW b \in AllBlocks, NEW h \in HalfErased(b), f = [flash EXCEPT ![b] = h]
      PROVE  FlashOK(f) /\ Shrinks(flash, f)
  <2>1. f = WithBlock(flash, b, h)
    BY <1>4 DEF WithBlock
  <2> QED
    BY <1>1, <2>1, HalfFacts, BlockShrinks
<1>5. CASE job.phase = "alloc" /\ FreeBlock(job) # {}
           /\ f \in {[flash EXCEPT ![Min(FreeBlock(job))] = h] :
                       h \in HalfErased(Min(FreeBlock(job)))}
  <2>1. PICK b \in AllBlocks : b = Min(FreeBlock(job))
    BY <1>5, FreeBlockFacts
  <2>2. \E h \in HalfErased(b) : f = [flash EXCEPT ![b] = h]
    BY <1>5, <2>1
  <2> QED
    BY <1>4, <2>2
<1>6. CASE job.phase = "erase_old"
           /\ f \in {[flash EXCEPT ![job.old] = h] : h \in HalfErased(job.old)}
  <2>1. PICK b \in AllBlocks : b = job.old
    BY <1>6, Running DEF StoreInv, JobInv
  <2>2. \E h \in HalfErased(b) : f = [flash EXCEPT ![b] = h]
    BY <1>6, <2>1
  <2> QED
    BY <1>4, <2>2
<1> QED
  BY <1>2, <1>3, <1>5, <1>6 DEF AfterPowerLoss

(* A boot from a flash on which no block carries two names gives every     *)
(* item a block of its own.                                                *)
LEMMA BootOwns ==
  ASSUME NEW f, FlashOK(f), Pure(f), flash' = f,
         arg_info' = [i \in Items |-> CheckInfo(f, i)],
         \A i \in Items : CheckInfo(f, i).arg_valid
                            => CheckInfo(f, i).valid_blk_addr \in reserved'
  PROVE  OwnInv'
<1>1. \A i \in Items : Valid(i)' = CheckInfo(f, i).arg_valid
                       /\ Current(i)' = CheckInfo(f, i).valid_blk_addr
  BY DEF Valid, Current
<1>2. \A i \in Items : Valid(i)' => /\ Current(i)' \in AllBlocks
                                    /\ Has(f, Current(i)', i) /\ Only(f, Current(i)', i)
  BY <1>1, CheckFacts DEF Pure
<1>3. ASSUME NEW i \in Items, Valid(i)' PROVE Owns(i)'
  <2>1. \A j \in Items \ {i} : Valid(j)' => Current(j)' # Current(i)'
    BY <1>2, <1>3 DEF Only
  <2> QED
    BY <1>1, <1>2, <1>3, <2>1 DEF Owns
<1> QED
  BY <1>3 DEF OwnInv

(* A power failure and the boot after it.                                  *)
LEMMA CrashStep ==
  ASSUME StoreInv, Crash
  PROVE  StoreInv'
<1>1. PICK f \in AfterPowerLoss : SetFlash(f) /\ BootFrom(f)
  BY DEF Crash
<1>2. UNCHANGED <<saves, acked>>
  BY DEF Crash
<1>3. FlashOK(f) /\ Shrinks(flash, f)
  BY <1>1, PowerLoss
<1>4. flash' = f /\ FlashOK(flash)' /\ found' \in [Items -> Nat]
  BY <1>1, <1>3, FlashSet
<1>5. Pure(f)
  BY <1>3, PureShrinks DEF StoreInv, OwnInv
<1>6. /\ arg_info' = [i \in Items |-> CheckInfo(f, i)]
      /\ reserved' = {CheckInfo(f, i).valid_blk_addr :
                        i \in {j \in Items : CheckInfo(f, j).arg_valid}}
      /\ repair' = {i \in FullBlk : CheckInfo(f, i).update_flag}
      /\ job' = NoJob
  BY <1>1 DEF BootFrom
<1>7. \A i \in Items : CheckInfo(f, i) \in Args /\ CheckInfo(f, i).valid_page_addr \in Slots(i)
         /\ (CheckInfo(f, i).arg_valid => CheckInfo(f, i).valid_blk_addr \in AllBlocks)
  BY <1>3, CheckFacts
<1>8. reserved' \subseteq AllBlocks /\ repair' \subseteq FullBlk
  BY <1>6, <1>7
<1>9. arg_info' \in [Items -> Args] /\ \A i \in Items : arg_info'[i].valid_page_addr \in Slots(i)
  BY <1>6, <1>7
<1>10. StoreTypes'
  BY <1>2, <1>4, <1>6, <1>8, <1>9 DEF StoreInv, StoreTypes
<1>11. OwnInv'
  BY <1>3, <1>4, <1>5, <1>6, BootOwns
<1> QED
  BY <1>6, <1>10, <1>11 DEF StoreInv, JobInv

(* A page decays.                                                          *)
LEMMA RotStep ==
  ASSUME StoreInv, NEW b \in AllBlocks, NEW p \in Pages, Rot(b, p)
  PROVE  StoreInv'
<1> DEFINE g == WithPage(flash, b, p, Torn)
<1>1. SetFlash(g) /\ job = NoJob /\ UNCHANGED <<arg_info, reserved, job, repair, saves, acked>>
  BY DEF Rot, WithPage
<1>2. FlashOK(g) /\ Shrinks(flash, g)
  BY PageTorn DEF StoreInv, StoreTypes
<1> HIDE DEF g
<1>3. flash' = g /\ FlashOK(flash)' /\ found' \in [Items -> Nat]
  BY <1>1, <1>2, FlashSet
<1>4. OwnInv'
  BY <1>1, <1>2, <1>3, ArgsShrink
<1>5. StoreTypes'
  BY <1>1, <1>3 DEF StoreInv, StoreTypes
<1> QED
  BY <1>1, <1>4, <1>5 DEF StoreInv, JobInv

-----------------------------------------------------------------------------
(* The theorems.                                                           *)

(* Every step keeps the invariant.                                         *)
LEMMA StoreInvStep == StoreInv /\ [StoreNext]_vars => StoreInv'
<1> SUFFICES ASSUME StoreInv, [StoreNext]_vars PROVE StoreInv'
  OBVIOUS
<1>1. ASSUME NEW i \in Saved, Save(i) PROVE StoreInv'
  <2>1. i \in Items /\ saves[i] + 1 \in Nat
    BY StoreAssumption DEF StoreInv, StoreTypes
  <2>2. BeginSave(i, saves[i] + 1, FALSE) /\ UNCHANGED <<flash, found, reserved, acked>>
    BY <1>1 DEF Save
  <2>3. repair' \subseteq FullBlk /\ saves' \in [Items -> Nat]
    <3>1. repair' = repair /\ saves' = [saves EXCEPT ![i] = saves[i] + 1]
      BY <1>1 DEF Save
    <3> QED
      BY <2>1, <3>1 DEF StoreInv, StoreTypes
  <2>4. PICK v \in Nat : v = saves[i] + 1
    BY <2>1
  <2> QED
    BY <2>1, <2>2, <2>3, <2>4, FirstCopy
<1>2. ASSUME NEW i \in FullBlk, Repair(i) PROVE StoreInv'
  <2>1. i \in Items /\ found[i] \in Nat
    BY StoreAssumption DEF StoreInv, StoreTypes
  <2>2. BeginSave(i, found[i], TRUE) /\ UNCHANGED <<flash, found, reserved, acked>>
    BY <1>2 DEF Repair
  <2>3. repair' \subseteq FullBlk /\ saves' \in [Items -> Nat]
    BY <1>2 DEF Repair, StoreInv, StoreTypes
  <2>4. PICK v \in Nat : v = found[i]
    BY <2>1
  <2> QED
    BY <2>1, <2>2, <2>3, <2>4, FirstCopy
<1>3. ASSUME SaveStep PROVE StoreInv'
  BY <1>3, FreeStep, EraseFailsStep, NoFreeStep, WriteStep, WriteFailsStep, CommitStep,
     EraseOldStep, EraseOldFailsStep, FinishStep DEF SaveStep
<1>4. ASSUME NEW b \in AllBlocks, NEW p \in Pages, Rot(b, p) PROVE StoreInv'
  BY <1>4, RotStep
<1>5. CASE UNCHANGED vars
  <2>1. UNCHANGED <<flash, found, arg_info, reserved, job, repair, saves, acked>>
    BY <1>5 DEF vars
  <2>2. StoreTypes'
    BY <2>1 DEF StoreInv, StoreTypes, FlashOK
  <2>3. OwnInv'
    BY <2>1, QuietArgs
  <2>4. JobInv'
    BY <2>1 DEF StoreInv, JobInv, Owns, Valid, Current
  <2> QED
    BY <2>2, <2>3, <2>4 DEF StoreInv
<1> QED
  BY <1>1, <1>2, <1>3, <1>4, <1>5, CrashStep DEF StoreNext

(* A chip as U-Boot leaves it has one name in a block, and only FULL_BLK   *)
(* items.                                                                  *)
LEMMA FactoryFacts ==
  /\ FlashOK(Factory) /\ Pure(Factory)
  /\ \A i \in Items \ FullBlk : \A b \in AllBlocks : ~Has(Factory, b, i)
<1> DEFINE place == CHOOSE f \in [FullBlk -> ScanBlocks] :
                      /\ \A i, j \in FullBlk : i # j => f[i] # f[j]
                      /\ \A b \in ScanBlocks, i \in FullBlk :
                           b < f[i] => \E j \in FullBlk : f[j] = b
           keyblk == Min(ScanBlocks \ {place[i] : i \in FullBlk})
           At(b, p) == \E i \in FullBlk : place[i] = b /\ p < PassLength(i)
           who(b) == CHOOSE i \in FullBlk : place[i] = b
           E(b, p) == IF At(b, p) THEN Page(who(b), 1, 1)
                      ELSE IF Key # "none" /\ b = keyblk /\ p = 0 THEN Page(Key, 1, 1)
                      ELSE Blank
<1>1. Factory = [b \in AllBlocks |-> [p \in Pages |-> E(b, p)]]
  BY DEF Factory
<1>2. \A b, p : At(b, p) => who(b) \in FullBlk
  BY Zenon
<1> HIDE DEF who, place, keyblk, At
<1>3. \A b, p : E(b, p) \in Contents
  <2>1. 1 \in 0..TsMod - 1 /\ FullBlk \subseteq Items
    BY ConstFacts, StoreAssumption
  <2>2. \A n \in Names : Page(n, 1, 1) \in Contents
    BY <2>1 DEF Page, Contents
  <2>3. Key \in Names /\ \A b, p : At(b, p) => who(b) \in Names
    BY <1>2, <2>1 DEF Names
  <2> QED
    BY <2>2, <2>3, ConstFacts
<1>4. \A b, p : E(b, p).name \in FullBlk => E(b, p).name = who(b)
  BY ConstFacts, StoreAssumption DEF Page, Blank
<1>5. \A b, p : \A i \in Items : E(b, p).name = i => i \in FullBlk
  BY <1>2, ConstFacts DEF Page, Blank
<1> HIDE DEF E
<1>6. FlashOK(Factory)
  BY <1>1, <1>3 DEF FlashOK
<1>7. \A b \in AllBlocks : \A p \in Pages : Factory[b][p] = E(b, p)
  BY <1>1
<1>8. \A b \in AllBlocks : \A i \in Items : Has(Factory, b, i) => i \in FullBlk /\ i = who(b)
  BY <1>4, <1>5, <1>7 DEF Has, Named
<1> QED
  BY <1>6, <1>8 DEF Pure, Only

(* The invariant holds after the first boot.                               *)
LEMMA StoreInvInit == StoreInit => StoreInv
<1> SUFFICES ASSUME StoreInit PROVE StoreInv
  OBVIOUS
<1>1. FlashOK(flash) /\ Pure(flash)
  BY FactoryFacts DEF StoreInit
<1>2. /\ arg_info = [i \in Items |-> CheckInfo(flash, i)] /\ found = Found(flash)
      /\ reserved = {arg_info[i].valid_blk_addr :
                        i \in {j \in Items : arg_info[j].arg_valid}}
      /\ job = NoJob /\ repair = {} /\ acked = saves
      /\ saves = [i \in Items |-> IF i \in FullBlk THEN 1 ELSE 0]
  BY DEF StoreInit
<1>3. \A i \in Items : /\ CheckInfo(flash, i) \in Args
                       /\ CheckInfo(flash, i).valid_page_addr \in Slots(i)
                       /\ CheckInfo(flash, i).arg_valid =>
                            /\ CheckInfo(flash, i).valid_blk_addr \in AllBlocks
                            /\ Has(flash, CheckInfo(flash, i).valid_blk_addr, i)
  BY <1>1, CheckFacts
<1>4. \A i \in Items : Valid(i) => /\ Current(i) \in AllBlocks /\ Current(i) \in reserved
                                   /\ Has(flash, Current(i), i)
                                   /\ Only(flash, Current(i), i)
  BY <1>1, <1>2, <1>3 DEF Valid, Current, Pure
<1>5. OwnInv
  <2> SUFFICES ASSUME NEW i \in Items, Valid(i) PROVE Owns(i)
    BY <1>1 DEF OwnInv
  <2>1. \A j \in Items \ {i} : Valid(j) => Current(j) # Current(i)
    BY <1>4 DEF Only
  <2> QED
    BY <1>4, <2>1 DEF Owns
<1>6. reserved \subseteq AllBlocks
  BY <1>2, <1>3
<1>7. /\ found \in [Items -> Nat] /\ saves \in [Items -> Nat] /\ acked \in [Items -> Nat]
      /\ arg_info \in [Items -> Args]
      /\ \A i \in Items : arg_info[i].valid_page_addr \in Slots(i)
  BY <1>1, <1>2, <1>3, FoundFacts
<1>8. StoreTypes
  BY <1>1, <1>2, <1>6, <1>7 DEF StoreTypes
<1> QED
  BY <1>2, <1>5, <1>8 DEF StoreInv, JobInv

(* The history variables are sets of items.                                *)
HistoryOK == doubt \subseteq Items /\ faulted \subseteq Items /\ flawed \subseteq Items

(* They stay so.                                                           *)
LEMMA HistoryStep == StoreInv /\ HistoryOK /\ [StoreNext]_vars => HistoryOK'
<1> SUFFICES ASSUME StoreInv, HistoryOK, [StoreNext]_vars PROVE HistoryOK'
  OBVIOUS
<1>1. FullBlk \subseteq Items /\ Saved \subseteq Items
  BY StoreAssumption
<1>2. ASSUME NEW i \in Saved, Save(i) PROVE HistoryOK'
  BY <1>1, <1>2 DEF Save, BeginSave, HistoryOK
<1>3. ASSUME NEW i \in FullBlk, Repair(i) PROVE HistoryOK'
  BY <1>1, <1>3 DEF Repair, BeginSave, HistoryOK
<1>4. ASSUME NEW b \in AllBlocks, NEW p \in Pages, Rot(b, p) PROVE HistoryOK'
  BY <1>1, <1>4 DEF Rot, HistoryOK
<1>5. CASE UNCHANGED vars
  BY <1>5 DEF vars, HistoryOK
<1>6. CASE Crash
  BY <1>6 DEF Crash, HistoryOK
<1>7. ASSUME SaveStep PROVE HistoryOK'
  <2>1. CASE GetFreeBlock \/ NoFreeBlock \/ WritePage \/ Commit \/ EraseOld
    <3>1. UNCHANGED <<doubt, faulted, flawed>>
      <4>1. GetFreeBlock => UNCHANGED <<doubt, faulted, flawed>>
        BY DEF GetFreeBlock
      <4>2. NoFreeBlock => UNCHANGED <<doubt, faulted, flawed>>
        BY DEF NoFreeBlock
      <4>3. WritePage => UNCHANGED <<doubt, faulted, flawed>>
        BY DEF WritePage
      <4>4. Commit => UNCHANGED <<doubt, faulted, flawed>>
        BY DEF Commit
      <4>5. EraseOld => UNCHANGED <<doubt, faulted, flawed>>
        BY DEF EraseOld
      <4> QED
        BY <2>1, <4>1, <4>2, <4>3, <4>4, <4>5
    <3> QED
      BY <3>1 DEF HistoryOK
  <2>2. CASE FreeBlockEraseFails \/ WritePageFails \/ EraseOldFails
    <3>1. job.phase \in {"alloc", "write", "erase_old"}
      BY <2>2 DEF FreeBlockEraseFails, WritePageFails, EraseOldFails
    <3>2. job.item \in Items
      BY <3>1, Running DEF StoreInv
    <3>3. Flaw /\ UNCHANGED doubt
      BY <2>2 DEF FreeBlockEraseFails, WritePageFails, EraseOldFails
    <3> QED
      BY <3>2, <3>3 DEF Flaw, HistoryOK
  <2>3. CASE Finish
    <3>1. UNCHANGED flawed /\ doubt' \subseteq doubt /\ faulted' \subseteq faulted
      BY <2>3 DEF Finish
    <3> QED
      BY <3>1 DEF HistoryOK
  <2> QED
    BY <1>7, <2>1, <2>2, <2>3 DEF SaveStep
<1> QED
  BY <1>2, <1>3, <1>4, <1>5, <1>6, <1>7 DEF StoreNext

(* The type invariant: an arg_info always points to the first page of a    *)
(* copy, in a block of the reserved area.                                  *)
THEOREM StoreIsTyped == StoreSpec => []StoreTypeOK
<1>1. StoreInv /\ HistoryOK => StoreTypeOK
  <2> SUFFICES ASSUME StoreInv, HistoryOK PROVE StoreTypeOK
    OBVIOUS
  <2>1. \A b \in AllBlocks, p \in Pages : flash[b][p] \in Contents
    BY DEF StoreInv, StoreTypes, FlashOK
  <2>2. \A i \in Items : arg_info[i] \in Args /\ arg_info[i].valid_page_addr \in Slots(i)
    BY DEF StoreInv, StoreTypes
  <2>3. \A i \in Items : /\ arg_info[i].valid_blk_addr \in AllBlocks \cup {0}
                         /\ arg_info[i].timestamp \in 0..TsMod - 1
    BY <2>2 DEF Args
  <2> QED
    BY <2>1, <2>2, <2>3 DEF StoreInv, StoreTypes, HistoryOK, StoreTypeOK, Contents, Names
<1>2. StoreInit => HistoryOK
  BY DEF StoreInit, HistoryOK
<1> QED
  BY StoreInvInit, StoreInvStep, HistoryStep, <1>1, <1>2, PTL DEF StoreSpec

(* For any items, geometry and faults, whenever the power fails: the block *)
(* with the current copy of an item is listed in reserved_blk, so that     *)
(* amlnand_get_free_block never erases it, and it is no other item's.      *)
THEOREM CurrentCopyIsSpared == StoreSpec => []CurrentIsReserved
<1>1. StoreInv => CurrentIsReserved
  BY DEF StoreInv, OwnInv, Owns, Valid, Current, CurrentIsReserved
<1> QED
  BY StoreInvInit, StoreInvStep, <1>1, PTL DEF StoreSpec

(* A block that is not block B is as it was.                               *)
LEMMA ElsewhereSame ==
  ASSUME FlashOK(flash), NEW B, NEW h, NEW c \in AllBlocks, c # B
  PROVE  [flash EXCEPT ![B] = h][c] = flash[c]
BY DEF FlashOK

(* The same when one page is written.                                      *)
LEMMA ElsewherePage ==
  ASSUME FlashOK(flash), NEW B, NEW p, NEW x, NEW c \in AllBlocks, c # B
  PROVE  [flash EXCEPT ![B][p] = x][c] = flash[c]
BY DEF FlashOK

(* The blocks that a step of a save may write, and a power failure in it   *)
(* may tear, are not the current block of another item.                    *)
LEMMA WorkElsewhere ==
  ASSUME StoreInv, job # NoJob, NEW i \in Items \ {job.item}, Valid(i)
  PROVE  /\ Current(i) \in AllBlocks
         /\ job.phase = "alloc" /\ FreeBlock(job) # {} => Current(i) # Min(FreeBlock(job))
         /\ job.phase = "write" => Current(i) # job.blk
         /\ job.phase = "erase_old" => Current(i) # job.old
<1>1. Owns(i) /\ Current(i) \in reserved /\ Current(i) \in AllBlocks
  BY DEF StoreInv, StoreTypes, OwnInv, Owns
<1>2. job \in Jobs /\ job.item \in Items
  BY DEF StoreInv, StoreTypes, Jobs
<1>3. job.phase = "alloc" /\ FreeBlock(job) # {} => Current(i) # Min(FreeBlock(job))
  BY <1>1, FreeBlockFacts
<1>4. job.phase = "write" => Current(i) # job.blk
  <2>1. CASE job.phase = "write" /\ job.fresh
    BY <1>1, <2>1 DEF StoreInv, JobInv
  <2>2. CASE job.phase = "write" /\ ~job.fresh
    <3>1. Valid(job.item) /\ job.blk = Current(job.item)
      BY <2>2 DEF StoreInv, JobInv
    <3> QED
      BY <1>1, <1>2, <3>1 DEF Owns
  <2> QED
    BY <1>2, <2>1, <2>2 DEF Jobs
<1>5. job.phase = "erase_old" => Current(i) # job.old
  BY DEF StoreInv, JobInv
<1> QED
  BY <1>1, <1>3, <1>4, <1>5

(* For any items, sizes, bad blocks and faults: while an item is saved,    *)
(* whatever fails and wherever the power is lost, the block with the       *)
(* current copy of another item keeps every page.                          *)
THEOREM SavesAreIsolated == StoreSpec => OthersUntouched
<1> DEFINE Same == job # NoJob =>
             \A i \in Items \ {job.item} : arg_info[i].arg_valid =>
               flash'[arg_info[i].valid_blk_addr] = flash[arg_info[i].valid_blk_addr]
<1>1. StoreInv /\ [StoreNext]_vars => Same
  <2> SUFFICES ASSUME StoreInv, [StoreNext]_vars, job # NoJob,
                      NEW i \in Items \ {job.item}, Valid(i)
               PROVE  flash'[Current(i)] = flash[Current(i)]
    BY DEF Valid, Current
  <2> DEFINE c == Current(i)
  <2>1. /\ c \in AllBlocks /\ FlashOK(flash)
        /\ job.phase = "alloc" /\ FreeBlock(job) # {} => c # Min(FreeBlock(job))
        /\ job.phase = "write" => c # job.blk
        /\ job.phase = "erase_old" => c # job.old
    BY WorkElsewhere DEF StoreInv, StoreTypes
  <2> HIDE DEF c
  <2> SUFFICES flash'[c] = flash[c]
    BY DEF c
  <2>2. CASE GetFreeBlock
    BY <2>1, <2>2, ElsewhereSame DEF GetFreeBlock, SetFlash
  <2>3. CASE FreeBlockEraseFails
    BY <2>1, <2>3, ElsewhereSame DEF FreeBlockEraseFails, SetFlash
  <2>4. CASE WritePage
    BY <2>1, <2>4, ElsewherePage DEF WritePage, SetFlash
  <2>5. CASE WritePageFails
    <3>1. job.phase = "write"
          /\ \/ \E h \in Tested(job.blk) : flash' = [flash EXCEPT ![job.blk] = h]
             \/ flash' = [flash EXCEPT ![job.blk][WritePos(job)] = Torn]
      BY <2>5 DEF WritePageFails, SetFlash
    <3>2. CASE \E h \in Tested(job.blk) : flash' = [flash EXCEPT ![job.blk] = h]
      <4>1. PICK h \in Tested(job.blk) : flash' = [flash EXCEPT ![job.blk] = h]
        BY <3>2
      <4> QED
        BY <2>1, <3>1, <4>1, ElsewhereSame
    <3>3. CASE flash' = [flash EXCEPT ![job.blk][WritePos(job)] = Torn]
      BY <2>1, <3>1, <3>3, ElsewherePage
    <3> QED
      BY <3>1, <3>2, <3>3
  <2>6. CASE EraseOld
    BY <2>1, <2>6, ElsewhereSame DEF EraseOld, SetFlash
  <2>7. CASE EraseOldFails
    BY <2>1, <2>7, ElsewhereSame DEF EraseOldFails, SetFlash
  <2>8. CASE NoFreeBlock \/ Commit \/ Finish
    BY <2>8 DEF NoFreeBlock, Commit, Finish
  <2>9. CASE Crash
    <3>1. PICK f \in AfterPowerLoss : flash' = f
      BY <2>9 DEF Crash, SetFlash
    <3>2. CASE f = flash
      BY <3>1, <3>2
    <3>3. CASE job.phase = "write" /\ f = [flash EXCEPT ![job.blk][WritePos(job)] = Torn]
      BY <2>1, <3>1, <3>3, ElsewherePage
    <3>4. CASE job.phase = "alloc" /\ FreeBlock(job) # {}
               /\ f \in {[flash EXCEPT ![Min(FreeBlock(job))] = h] :
                           h \in HalfErased(Min(FreeBlock(job)))}
      <4>1. PICK h \in HalfErased(Min(FreeBlock(job))) :
              f = [flash EXCEPT ![Min(FreeBlock(job))] = h]
        BY <3>4
      <4> QED
        BY <2>1, <3>1, <3>4, <4>1, ElsewhereSame
    <3>5. CASE job.phase = "erase_old"
               /\ f \in {[flash EXCEPT ![job.old] = h] : h \in HalfErased(job.old)}
      <4>1. PICK h \in HalfErased(job.old) : f = [flash EXCEPT ![job.old] = h]
        BY <3>5
      <4> QED
        BY <2>1, <3>1, <3>5, <4>1, ElsewhereSame
    <3> QED
      BY <3>1, <3>2, <3>3, <3>4, <3>5 DEF AfterPowerLoss
  <2>10. CASE UNCHANGED vars
    BY <2>10 DEF vars
  <2>11. ~(\E k \in Saved : Save(k)) /\ ~(\E k \in FullBlk : Repair(k))
         /\ ~(\E b \in AllBlocks, p \in Pages : Rot(b, p))
    BY DEF Save, Repair, BeginSave, Rot
  <2> QED
    BY <2>2, <2>3, <2>4, <2>5, <2>6, <2>7, <2>8, <2>9, <2>10, <2>11 DEF StoreNext, SaveStep
<1>2. OthersUntouched <=> [][Same]_vars
  BY DEF OthersUntouched
<1> HIDE DEF Same
<1> QED
  BY <1>1, <1>2, StoreInvInit, StoreInvStep, PTL DEF StoreSpec

-----------------------------------------------------------------------------
(* Appending to a block.  A FULL_PAGE item writes its copies one behind    *)
(* the other; the scan finds the place of the next one from names and      *)
(* timestamps.  The items of type FULL_PAGE:                               *)
PageItems == Items \ FullBlk

(* A scan that ends in block b would append at page e: every copy before   *)
(* it is readable, it is not a copy, and there is room.                    *)
IsOpen(f, b, i, e) ==
  /\ e \in Slots(i) /\ e > 0 /\ e + arg_pages[i] <= pages_read
  /\ \A p \in Slots(i) : p < e => Named(f[b][p], i)
  /\ f[b][e] # Torn /\ ~Named(f[b][e], i)

(* There is such a page.                                                   *)
Open(f, b, i) == \E e \in Slots(i) : IsOpen(f, b, i, e)

(* The pages of block b are erased from e on.                              *)
BlankFrom(f, b, e) == \A p \in Pages : p >= e => f[b][p] = Blank

(* Before page e, block b has a copy of i at each place for one.           *)
NamedTo(f, b, i, e) == \A p \in Slots(i) : p < e => Named(f[b][p], i)

(* The copies in block b are older than those in c.                        *)
Before(f, b, c, i) ==
  \A p, q \in Slots(i) : Named(f[b][p], i) /\ Named(f[c][q], i) =>
    f[b][p].timestamp < f[c][q].timestamp

(* Copies in a block are in the order of their timestamps, with nothing    *)
(* but unreadable pages between them.                                      *)
InRow(f, b, i) ==
  \A p, q \in Slots(i) : p < q /\ Named(f[b][q], i) =>
    \/ f[b][p] = Torn
    \/ Named(f[b][p], i) /\ f[b][p].timestamp < f[b][q].timestamp

(* A block that is open is erased behind its copies.                       *)
Clean(f, b, i) == \A e \in Slots(i) : IsOpen(f, b, i, e) => BlankFrom(f, b, e)

(* The blocks of an item are in the order of their timestamps too, and     *)
(* only the newest one can be open.                                        *)
Log(f, i) ==
  \A b \in ScanBlocks :
    /\ InRow(f, b, i)
    /\ Clean(f, b, i)
    /\ \A c \in ScanBlocks \ {b} :
         /\ Before(f, b, c, i) \/ Before(f, c, b, i)
         /\ Open(f, b, i) => Before(f, c, b, i)

(* The copies on flash that a scan sees are older than t.                  *)
Older(f, i, t) ==
  \A b \in ScanBlocks : \A p \in Slots(i) :
    Named(f[b][p], i) => f[b][p].timestamp < t

(* A change of the flash that adds no copy of i and opens no block.        *)
Harmless(f, g, i) ==
  /\ Log(f, i) => Log(g, i)
  /\ \A t \in Nat : Older(f, i, t) => Older(g, i, t)
  /\ \A b \in ScanBlocks : Open(g, b, i) => Open(f, b, i)

(* A page of a slot and its timestamp.                                     *)
LEMMA PageFacts ==
  ASSUME NEW f, FlashOK(f), NEW b \in AllBlocks, NEW i \in Items, NEW p \in Slots(i)
  PROVE  /\ p \in Pages /\ p \in Nat /\ p < pages_read
         /\ f[b][p].timestamp \in Nat
         /\ Named(f[b][p], i) => f[b][p] # Torn /\ f[b][p] # Blank
<1>1. p \in Pages
  BY SlotFacts
<1>2. p \in Nat /\ p < pages_read
  BY <1>1, ConstFacts DEF Pages
<1>3. f[b][p] \in Contents
  BY <1>1 DEF FlashOK
<1>4. f[b][p].timestamp \in Nat
  BY <1>3, ConstFacts DEF Contents
<1> QED
  BY <1>1, <1>2, <1>4, BlankNames

(* Pages of block B become unreadable.                                     *)
Tears(f, g, B) ==
  /\ \A b \in AllBlocks \ {B} : g[b] = f[b]
  /\ \A p \in Pages : g[B][p] = f[B][p] \/ g[B][p] = Torn

(* What is named or open after it was so before.                           *)
LEMMA TornPages ==
  ASSUME NEW f, NEW g, NEW B \in AllBlocks, Tears(f, g, B), NEW i \in Items,
         NEW b \in AllBlocks
  PROVE  /\ \A p \in Slots(i) : g[b][p] # Torn => g[b][p] = f[b][p]
         /\ \A p \in Slots(i) : Named(g[b][p], i) => g[b][p] = f[b][p]
         /\ \A p \in Slots(i) : g[b][p] = f[b][p] \/ g[b][p] = Torn
         /\ \A e : IsOpen(g, b, i, e) => IsOpen(f, b, i, e)
         /\ Open(g, b, i) => Open(f, b, i)
<1>1. \A p \in Slots(i) : g[b][p] = f[b][p] \/ g[b][p] = Torn
  BY SlotFacts DEF Tears
<1>2. \A p \in Slots(i) : Named(g[b][p], i) => g[b][p] = f[b][p]
  BY <1>1, BlankNames
<1>3. ASSUME NEW e, IsOpen(g, b, i, e) PROVE IsOpen(f, b, i, e)
  <2>1. e \in Slots(i) /\ g[b][e] # Torn
    BY <1>3 DEF IsOpen
  <2>2. g[b][e] = f[b][e]
    BY <1>1, <2>1
  <2> QED
    BY <1>2, <1>3, <2>2 DEF IsOpen
<1> QED
  BY <1>1, <1>2, <1>3 DEF Open

(* Tearing pages does no harm where it does not reach behind an open       *)
(* block's copies.                                                         *)
LEMMA TearsHarmless ==
  ASSUME NEW f, NEW g, FlashOK(f), NEW B \in AllBlocks, Tears(f, g, B), NEW i \in Items,
         B \in ScanBlocks => Clean(g, B, i)
  PROVE  Harmless(f, g, i)
<1>0. \A b \in ScanBlocks : b \in AllBlocks
  BY ConstFacts
<1>1. \A b \in ScanBlocks :
        /\ \A p \in Slots(i) : Named(g[b][p], i) => g[b][p] = f[b][p]
        /\ \A p \in Slots(i) : g[b][p] = f[b][p] \/ g[b][p] = Torn
        /\ \A e : IsOpen(g, b, i, e) => IsOpen(f, b, i, e)
        /\ Open(g, b, i) => Open(f, b, i)
  BY <1>0, TornPages
<1>2. ASSUME Log(f, i) PROVE Log(g, i)
  <2> SUFFICES ASSUME NEW b \in ScanBlocks
               PROVE  /\ InRow(g, b, i)
                      /\ Clean(g, b, i)
                      /\ \A c \in ScanBlocks \ {b} :
                           /\ Before(g, b, c, i) \/ Before(g, c, b, i)
                           /\ Open(g, b, i) => Before(g, c, b, i)
    BY DEF Log
  <2>1. InRow(g, b, i)
    <3>1. InRow(f, b, i)
      BY <1>2 DEF Log
    <3> SUFFICES ASSUME NEW p \in Slots(i), NEW q \in Slots(i), p < q, Named(g[b][q], i),
                        g[b][p] # Torn
                 PROVE  Named(g[b][p], i) /\ g[b][p].timestamp < g[b][q].timestamp
      BY DEF InRow
    <3>2. g[b][q] = f[b][q] /\ g[b][p] = f[b][p]
      BY <1>1
    <3> QED
      BY <3>1, <3>2 DEF InRow
  <2>2. Clean(g, b, i)
    <3>1. CASE b = B
      BY <3>1
    <3>2. CASE b # B
      <4>1. g[b] = f[b]
        BY <1>0, <3>2 DEF Tears
      <4>2. Clean(f, b, i)
        BY <1>2 DEF Log
      <4> QED
        BY <1>1, <4>1, <4>2 DEF Clean, BlankFrom
    <3> QED
      BY <3>1, <3>2
  <2>3. ASSUME NEW c \in ScanBlocks, NEW d \in ScanBlocks, Before(f, c, d, i)
        PROVE  Before(g, c, d, i)
    BY <1>1, <2>3 DEF Before
  <2> QED
    BY <1>1, <1>2, <2>1, <2>2, <2>3 DEF Log
<1>3. ASSUME NEW t \in Nat, Older(f, i, t) PROVE Older(g, i, t)
  BY <1>1, <1>3 DEF Older
<1> QED
  BY <1>1, <1>2, <1>3 DEF Harmless

(* Nor does a change of a block that has no copy of i afterwards.          *)
LEMMA OtherHarmless ==
  ASSUME NEW f, NEW g, NEW B \in AllBlocks, NEW i \in Items,
         \A b \in AllBlocks \ {B} : g[b] = f[b],
         ~Has(g, B, i)
  PROVE  Harmless(f, g, i)
<1>0. \A b \in ScanBlocks : b \in AllBlocks /\ (b # B => g[b] = f[b])
  BY ConstFacts
<1>1. \A p \in Slots(i) : ~Named(g[B][p], i)
  BY SlotFacts DEF Has
<1>2. ~Open(g, B, i)
  <2>1. ASSUME NEW e \in Slots(i), IsOpen(g, B, i, e) PROVE FALSE
    <3>1. 0 \in Slots(i) /\ 0 < e
      BY <2>1, SlotFacts DEF IsOpen
    <3> QED
      BY <1>1, <2>1, <3>1 DEF IsOpen
  <2> QED
    BY <2>1 DEF Open
<1>3. \A b \in ScanBlocks \ {B} : \A e : IsOpen(g, b, i, e) => IsOpen(f, b, i, e)
  BY <1>0 DEF IsOpen
<1>4. \A b \in ScanBlocks : Open(g, b, i) => b # B /\ Open(f, b, i)
  BY <1>2, <1>3 DEF Open
<1>5. ASSUME Log(f, i) PROVE Log(g, i)
  <2> SUFFICES ASSUME NEW b \in ScanBlocks
               PROVE  /\ InRow(g, b, i)
                      /\ Clean(g, b, i)
                      /\ \A c \in ScanBlocks \ {b} :
                           /\ Before(g, b, c, i) \/ Before(g, c, b, i)
                           /\ Open(g, b, i) => Before(g, c, b, i)
    BY DEF Log
  <2>1. InRow(f, b, i) /\ Clean(f, b, i)
    BY <1>5 DEF Log
  <2>2. InRow(g, b, i)
    BY <1>0, <1>1, <2>1 DEF InRow
  <2>3. Clean(g, b, i)
    <3>1. CASE b = B
      BY <1>2, <3>1 DEF Clean, Open
    <3>2. CASE b # B
      BY <1>0, <1>3, <2>1, <3>2 DEF Clean, BlankFrom
    <3> QED
      BY <3>1, <3>2
  <2>4. ASSUME NEW c \in ScanBlocks, NEW d \in ScanBlocks, Before(f, c, d, i)
        PROVE  Before(g, c, d, i)
    BY <1>0, <1>1, <2>4 DEF Before
  <2> QED
    BY <1>4, <1>5, <2>2, <2>3, <2>4 DEF Log
<1>6. ASSUME NEW t \in Nat, Older(f, i, t) PROVE Older(g, i, t)
  BY <1>0, <1>1, <1>6 DEF Older
<1> QED
  BY <1>4, <1>5, <1>6 DEF Harmless

(* The page after the last copy is the only one at which a block can be    *)
(* open.                                                                   *)
LEMMA OpenUnique ==
  ASSUME NEW f, NEW b, NEW i \in Items, NEW n \in Nat, NamedTo(f, b, i, n),
         BlankFrom(f, b, n), n \in Slots(i) \/ n >= pages_read,
         NEW e, IsOpen(f, b, i, e)
  PROVE  e = n
<1>1. e \in Slots(i) /\ ~Named(f[b][e], i) /\ \A p \in Slots(i) : p < e => Named(f[b][p], i)
  BY DEF IsOpen
<1>2. e \in Nat /\ e < pages_read /\ pages_read \in Nat
  BY <1>1, SlotFacts, ConstFacts DEF Pages
<1>3. ~(e < n)
  BY <1>1 DEF NamedTo
<1>4. ~(n < e)
  <2> SUFFICES ASSUME n < e PROVE FALSE
    OBVIOUS
  <2>1. n \in Slots(i) /\ n \in Pages
    BY <1>2, SlotFacts
  <2>2. Named(f[b][n], i) /\ f[b][n] = Blank
    BY <1>1, <2>1 DEF BlankFrom
  <2> QED
    BY <2>2, BlankNames
<1> QED
  BY <1>2, <1>3, <1>4

(* It is open there if there is room.                                      *)
LEMMA OpenThere ==
  ASSUME NEW f, NEW b, NEW i \in Items, NEW n \in Slots(i), NamedTo(f, b, i, n),
         BlankFrom(f, b, n), n > 0, n + arg_pages[i] <= pages_read
  PROVE  IsOpen(f, b, i, n)
<1>1. n \in Pages /\ n \in Nat
  BY SlotFacts, ConstFacts
<1>2. f[b][n] = Blank
  BY <1>1 DEF BlankFrom
<1>3. Blank # Torn
  BY DEF Blank, Torn, Page
<1> QED
  BY <1>2, <1>3, BlankNames DEF IsOpen, NamedTo

-----------------------------------------------------------------------------
(* The places of the copies.                                               *)

(* Multiples of m are at least m apart.                                    *)
LEMMA MultipleGap ==
  ASSUME NEW m \in Nat \ {0}, NEW x \in Nat, NEW y \in Nat, x % m = 0, y % m = 0, x < y + m
  PROVE  x <= y
<1>1. x = m * (x \div m) /\ x \div m \in Nat /\ y = m * (y \div m) /\ y \div m \in Nat
  BY Z3
<1>2. PICK r \in Nat, s \in Nat : x = m * r /\ y = m * s
  BY <1>1
<1>3. m * r < m * s + m
  BY <1>2
<1>4. r < s + 1
  BY <1>3, Z3
<1>5. r <= s
  BY <1>4
<1>6. m * r <= m * s
  BY <1>5, Z3
<1> QED
  BY <1>2, <1>6

(* No copy starts in the middle of another.                                *)
LEMMA SlotGap ==
  ASSUME NEW i \in Items, NEW p \in Slots(i), NEW q \in Slots(i), p < q + arg_pages[i]
  PROVE  p <= q
<1>1. arg_pages[i] \in Nat \ {0} /\ p \in Nat /\ q \in Nat
      /\ p % arg_pages[i] = 0 /\ q % arg_pages[i] = 0
  BY SlotFacts, ConstFacts DEF Slots
<1> QED
  BY <1>1, MultipleGap

(* The place behind a copy, or the end of the block.                       *)
LEMMA NextPlace ==
  ASSUME NEW i \in Items, NEW p \in Slots(i)
  PROVE  p + arg_pages[i] \in Slots(i) \/ p + arg_pages[i] >= pages_read
<1>1. arg_pages[i] \in Nat \ {0} /\ p \in Nat /\ pages_read \in Nat /\ p % arg_pages[i] = 0
  BY SlotFacts, ConstFacts DEF Slots
<1>2. (p + arg_pages[i]) % arg_pages[i] = 0
  BY <1>1, NextMultiple
<1>3. p + arg_pages[i] < pages_read => p + arg_pages[i] \in 0..pages_read - 1
  BY <1>1
<1> QED
  BY <1>1, <1>2, <1>3 DEF Slots, Pages

(* The place before one that is not the first.                             *)
LEMMA PrevPlace ==
  ASSUME NEW i \in Items, NEW p \in Slots(i), p > 0
  PROVE  p - arg_pages[i] \in Slots(i) /\ p - arg_pages[i] < p
<1> DEFINE m == arg_pages[i]
<1>1. m \in Nat \ {0} /\ p \in Nat /\ pages_read \in Nat /\ p < pages_read /\ p % m = 0
  BY SlotFacts, ConstFacts DEF Slots, Pages
<1> HIDE DEF m
<1>2. p = m * (p \div m) /\ p \div m \in Nat
  BY <1>1, Z3
<1>3. PICK r \in Nat : p = m * r
  BY <1>2
<1>4. r > 0
  BY <1>1, <1>3, Z3
<1>5. PICK s \in Nat : r = s + 1
  <2>1. r - 1 \in Nat /\ r = (r - 1) + 1
    BY <1>4
  <2> QED
    BY <2>1
<1>6. p = m * s + m
  BY <1>1, <1>3, <1>5, Z3
<1>7. PICK x \in Nat : x = m * s
  BY <1>1
<1>8. x % m = 0
  BY <1>1, <1>7, Z3
<1>9. p - m = x /\ x \in 0..pages_read - 1 /\ x < p
  BY <1>1, <1>6, <1>7
<1> QED
  BY <1>8, <1>9 DEF Slots, Pages, m

(* Where a scan for copies stops: every place before it is a copy or       *)
(* unreadable.                                                             *)
LEMMA EndFacts ==
  ASSUME NEW f, NEW b, NEW i \in Items
  PROVE  /\ CopiesEnd(f, b, i) \in Nat /\ CopiesEnd(f, b, i) <= pages_read
         /\ \A p \in Slots(i) : p < CopiesEnd(f, b, i) => f[b][p] = Torn \/ Named(f[b][p], i)
         /\ CopiesEnd(f, b, i) # pages_read =>
              /\ CopiesEnd(f, b, i) \in Slots(i)
              /\ f[b][CopiesEnd(f, b, i)] # Torn /\ ~Named(f[b][CopiesEnd(f, b, i)], i)
<1> DEFINE T == {pages_read} \cup {q \in Slots(i) : f[b][q] # Torn /\ ~Named(f[b][q], i)}
           e == CopiesEnd(f, b, i)
<1>1. T \in SUBSET Nat /\ T # {} /\ pages_read \in T
  BY SlotFacts, ConstFacts
<1>2. e \in T /\ \A y \in T : e <= y
  BY <1>1, MinNat DEF CopiesEnd
<1> HIDE DEF e
<1>3. e \in Nat /\ e <= pages_read
  BY <1>1, <1>2
<1>4. ASSUME NEW p \in Slots(i), p < e PROVE f[b][p] = Torn \/ Named(f[b][p], i)
  <2>1. p \in Nat /\ (p \in T => e <= p)
    BY <1>2, SlotFacts, ConstFacts
  <2>2. p \notin T
    BY <1>3, <1>4, <2>1
  <2> QED
    BY <2>2
<1> QED
  BY <1>2, <1>3, <1>4 DEF e

(* A block with a copy anywhere is found by the scan, from its first       *)
(* readable page.                                                          *)
LEMMA CopyHolds ==
  ASSUME NEW f, FlashOK(f), NEW i \in Items, NEW b \in ScanBlocks, InRow(f, b, i),
         NEW p \in Slots(i), Named(f[b][p], i)
  PROVE  /\ b \in Holders(f, i)
         /\ \E q \in Slots(i) : Named(f[b][q], i) /\ FirstTimestamp(f, b, i) = f[b][q].timestamp
<1>0. b \in AllBlocks /\ f[b][p] # Torn
  BY ConstFacts, BlankNames
<1> DEFINE R == {q \in Slots(i) : f[b][q] # Torn}
<1>1. R \in SUBSET Nat /\ p \in R
  BY <1>0, SlotFacts, ConstFacts
<1>2. PICK q \in R : \A y \in R : q <= y
  BY <1>1, MinNat
<1>3. q \in Slots(i) /\ f[b][q] # Torn /\ q \in Nat /\ p \in Nat /\ q <= p
  BY <1>1, <1>2
<1>4. \A y \in Slots(i) : y < q => f[b][y] = Torn
  <2> SUFFICES ASSUME NEW y \in Slots(i), y < q, y \in R PROVE FALSE
    OBVIOUS
  <2>1. q <= y /\ y \in Nat
    BY <1>1, <1>2
  <2> QED
    BY <1>3, <2>1
<1>5. q \in FirstReadable(f, b, i)
  BY <1>3, <1>4 DEF FirstReadable
<1>6. Named(f[b][q], i)
  BY <1>3 DEF InRow
<1>7. \A x \in FirstReadable(f, b, i) : x = q
  <2> SUFFICES ASSUME NEW x \in FirstReadable(f, b, i) PROVE x = q
    OBVIOUS
  <2>1. x \in Slots(i) /\ f[b][x] # Torn /\ \A y \in Slots(i) : y < x => f[b][y] = Torn
    BY DEF FirstReadable
  <2>2. x \in Nat /\ ~(x < q) /\ ~(q < x)
    BY <1>1, <1>3, <1>4, <2>1
  <2> QED
    BY <1>3, <2>2
<1>8. FirstTimestamp(f, b, i) = f[b][q].timestamp
  <2>1. (CHOOSE x \in FirstReadable(f, b, i) : TRUE) = q
    BY <1>5, <1>7
  <2> QED
    BY <2>1 DEF FirstTimestamp
<1> QED
  BY <1>3, <1>5, <1>6, <1>8 DEF Holders

-----------------------------------------------------------------------------
(* What a boot learns of a FULL_PAGE item.                                 *)

(* An append by arg_info a goes behind the last copy, to erased pages; if  *)
(* a says that the next copy needs a new block, its block is not open.     *)
Accurate(f, a, i) ==
  a.arg_valid =>
    IF Appends(a, i)
    THEN /\ NamedTo(f, a.valid_blk_addr, i, a.valid_page_addr + arg_pages[i])
         /\ BlankFrom(f, a.valid_blk_addr, a.valid_page_addr + arg_pages[i])
    ELSE a.valid_blk_addr \in ScanBlocks => ~Open(f, a.valid_blk_addr, i)

(* No block but that of a is open.                                         *)
OneOpen(f, a, i) ==
  \A b \in ScanBlocks : Open(f, b, i) => a.arg_valid /\ a.valid_blk_addr = b

(* The scan ends at the newest copy.                                       *)
LEMMA NewestFound ==
  ASSUME NEW f, FlashOK(f), NEW i \in PageItems, Log(f, i), Holders(f, i) # {},
         NEW b, b = ScanBlock(f, i), NEW p, p = ScanPage(f, b, i)
  PROVE  /\ b \in ScanBlocks /\ p \in Slots(i) /\ p < CopiesEnd(f, b, i) /\ Named(f[b][p], i)
         /\ \A q \in Slots(i) : Named(f[b][q], i) => q <= p
         /\ \A c \in ScanBlocks : \A q \in Slots(i) :
              Named(f[c][q], i) => c = b \/ Before(f, c, b, i)
<1>1. i \in Items /\ i \notin FullBlk
  BY DEF PageItems
<1>2. /\ b \in Holders(f, i) /\ b \in ScanBlocks /\ b \in AllBlocks
      /\ \A c \in Holders(f, i) : FirstTimestamp(f, c, i) <= FirstTimestamp(f, b, i)
  BY <1>1, ScanBlockFacts, ConstFacts DEF Holders
<1>3. \A c \in ScanBlocks : InRow(f, c, i)
  BY DEF Log
<1>4. CopiesEnd(f, b, i) \in Nat /\ CopiesEnd(f, b, i) <= pages_read
      /\ (CopiesEnd(f, b, i) # pages_read =>
              /\ CopiesEnd(f, b, i) \in Slots(i)
              /\ f[b][CopiesEnd(f, b, i)] # Torn /\ ~Named(f[b][CopiesEnd(f, b, i)], i))
  BY <1>1, EndFacts
<1>5. \A q \in Slots(i) : q \in Nat /\ q < pages_read /\ pages_read \in Nat
  BY <1>1, SlotFacts, ConstFacts DEF Pages
<1>6. \A q \in Slots(i) : Named(f[b][q], i) => q \in Copies(f, b, i)
  <2> SUFFICES ASSUME NEW q \in Slots(i), Named(f[b][q], i), ~(q < CopiesEnd(f, b, i))
               PROVE  FALSE
    BY DEF Copies
  <2> DEFINE e == CopiesEnd(f, b, i)
  <2> HIDE DEF e
  <2>1. e \in Nat /\ e <= q /\ e # pages_read
    BY <1>4, <1>5 DEF e
  <2>2. e \in Slots(i) /\ f[b][e] # Torn /\ ~Named(f[b][e], i)
    BY <1>4, <2>1 DEF e
  <2>3. e < q
    <3>1. e # q
      BY <2>2
    <3> QED
      BY <1>5, <2>1, <3>1
  <2> QED
    BY <1>2, <1>3, <2>2, <2>3 DEF InRow
<1> DEFINE K == Copies(f, b, i)
<1>7. K # {} /\ K \subseteq Slots(i)
  BY <1>1, <1>2, HolderFacts
<1>8. K \in SUBSET Nat /\ \A q \in K : q <= pages_read
  BY <1>5, <1>7
<1>9. p = Max(K)
  BY <1>1 DEF ScanPage
<1>10. p \in K /\ \A q \in K : q <= p
  BY <1>7, <1>8, <1>9, MaxNat, ConstFacts
<1>11. p \in Slots(i) /\ p < CopiesEnd(f, b, i) /\ Named(f[b][p], i)
  BY <1>10 DEF Copies
<1> HIDE DEF K
<1>12. ASSUME NEW c \in ScanBlocks, NEW q \in Slots(i), Named(f[c][q], i), c # b
       PROVE  Before(f, c, b, i)
  <2>1. PICK x \in Slots(i) : Named(f[c][x], i) /\ FirstTimestamp(f, c, i) = f[c][x].timestamp
    BY <1>1, <1>3, <1>12, CopyHolds
  <2>2. c \in Holders(f, i)
    BY <1>1, <1>3, <1>12, CopyHolds
  <2>3. PICK y \in Slots(i) : Named(f[b][y], i) /\ FirstTimestamp(f, b, i) = f[b][y].timestamp
    BY <1>1, <1>2, <1>3, <1>11, CopyHolds
  <2>4. f[c][x].timestamp <= f[b][y].timestamp
    BY <1>2, <2>1, <2>2, <2>3
  <2>5. f[c][x].timestamp \in Nat /\ f[b][y].timestamp \in Nat
    BY <1>1, <1>2, <1>12, PageFacts, ConstFacts
  <2>6. ~Before(f, b, c, i)
    BY <2>1, <2>3, <2>4, <2>5 DEF Before
  <2> QED
    BY <1>2, <1>12, <2>6 DEF Log
<1> QED
  BY <1>2, <1>6, <1>10, <1>11, <1>12 DEF K

(* Every copy is older than one after the newest.                          *)
LEMMA NewestStamp ==
  ASSUME NEW f, FlashOK(f), NEW i \in PageItems, Log(f, i), NEW b \in ScanBlocks,
         NEW p \in Slots(i), Named(f[b][p], i),
         \A q \in Slots(i) : Named(f[b][q], i) => q <= p,
         \A c \in ScanBlocks : \A q \in Slots(i) :
           Named(f[c][q], i) => c = b \/ Before(f, c, b, i)
  PROVE  Older(f, i, f[b][p].timestamp + 1)
<1> SUFFICES ASSUME NEW c \in ScanBlocks, NEW q \in Slots(i), Named(f[c][q], i)
             PROVE  f[c][q].timestamp < f[b][p].timestamp + 1
  BY DEF Older
<1>1. i \in Items /\ b \in AllBlocks /\ c \in AllBlocks
  BY ConstFacts DEF PageItems
<1>2. /\ f[c][q].timestamp \in Nat /\ f[b][p].timestamp \in Nat /\ p \in Nat /\ q \in Nat
      /\ f[c][q] # Torn
  BY <1>1, PageFacts
<1>3. CASE c # b
  <2>1. f[c][q].timestamp < f[b][p].timestamp
    BY <1>3 DEF Before
  <2> QED
    BY <1>2, <2>1
<1>4. CASE c = b /\ q # p
  <2>1. q <= p
    BY <1>4
  <2>2. q < p
    BY <1>2, <1>4, <2>1
  <2>3. f[c][q].timestamp < f[b][p].timestamp
    BY <1>2, <1>4, <2>2 DEF Log, InRow
  <2> QED
    BY <1>2, <2>3
<1>5. CASE c = b /\ q = p
  BY <1>2, <1>5
<1> QED
  BY <1>3, <1>4, <1>5

(* If it says that there is room behind the newest copy, the pages there   *)
(* are erased; otherwise no append may go to that block.                   *)
LEMMA ScanAccurate ==
  ASSUME NEW f, FlashOK(f), NEW i \in PageItems, NEW b \in ScanBlocks, Clean(f, b, i),
         NEW p \in Slots(i), Named(f[b][p], i), p < CopiesEnd(f, b, i),
         \A q \in Slots(i) : Named(f[b][q], i) => q <= p,
         NEW a, a.arg_valid, a.valid_blk_addr = b, a.valid_page_addr = p,
         a.update_flag = UpdateFlag(f, b, i)
  PROVE  Accurate(f, a, i)
<1> DEFINE m == arg_pages[i]
           e == CopiesEnd(f, b, i)
<1>1. i \in Items /\ i \notin FullBlk /\ b \in AllBlocks
  BY ConstFacts DEF PageItems
<1>2. /\ m \in Nat \ {0} /\ pages_read \in Nat /\ p \in Nat
      /\ \A q \in Slots(i) : q \in Nat /\ q < pages_read
  BY <1>1, SlotFacts, ConstFacts DEF Pages
<1>3. /\ e \in Nat /\ e <= pages_read
      /\ \A q \in Slots(i) : q < e => f[b][q] = Torn \/ Named(f[b][q], i)
      /\ e # pages_read => e \in Slots(i) /\ f[b][e] # Torn /\ ~Named(f[b][e], i)
  BY <1>1, EndFacts
<1>4. a.update_flag <=> \E q \in Slots(i) : f[b][q] = Torn /\ q < e
  BY <1>1 DEF UpdateFlag
<1>5. Appends(a, i) <=> ~a.update_flag /\ p + 2 * m <= pages_read
  BY <1>1 DEF Appends
<1>6. p < e
  OBVIOUS
<1> HIDE DEF e
<1>7. CASE Appends(a, i)
  <2> DEFINE n == p + m
  <2>1. n \in Slots(i) /\ n < pages_read
    BY <1>1, <1>2, <1>5, <1>7, NextSlot
  <2>2. \A q \in Slots(i) : q < e => Named(f[b][q], i)
    BY <1>3, <1>4, <1>5, <1>7
  <2>3. e <= n
    <3> SUFFICES ASSUME n < e PROVE FALSE
      BY <1>2, <1>3
    <3>1. n <= p
      BY <2>1, <2>2
    <3> QED
      BY <1>2, <3>1
  <2>4. e \in Slots(i) /\ f[b][e] # Torn /\ ~Named(f[b][e], i)
    BY <1>2, <1>3, <2>1, <2>3
  <2>5. e = n
    <3>1. e < p + m => e <= p
      BY <1>1, <2>4, SlotGap
    <3> QED
      BY <1>2, <1>3, <1>6, <2>3, <3>1
  <2>6. e + m <= pages_read /\ e > 0
    BY <1>2, <1>3, <1>5, <1>6, <1>7, <2>5
  <2>7. IsOpen(f, b, i, e)
    BY <2>2, <2>4, <2>6 DEF IsOpen
  <2>8. BlankFrom(f, b, e) /\ NamedTo(f, b, i, e)
    BY <2>2, <2>4, <2>7 DEF Clean, NamedTo
  <2> QED
    BY <1>7, <2>5, <2>8 DEF Accurate
<1>8. CASE ~Appends(a, i)
  <2> SUFFICES ASSUME NEW d \in Slots(i), IsOpen(f, b, i, d) PROVE FALSE
    BY <1>8 DEF Accurate, Open
  <2>1. /\ d > 0 /\ d + m <= pages_read /\ f[b][d] # Torn /\ ~Named(f[b][d], i)
        /\ \A q \in Slots(i) : q < d => Named(f[b][q], i)
    BY DEF IsOpen
  <2>2. e <= d
    <3> SUFFICES ASSUME d < e PROVE FALSE
      BY <1>2, <1>3
    <3> QED
      BY <1>3, <2>1
  <2>3. \A q \in Slots(i) : q < e => Named(f[b][q], i)
    <3> SUFFICES ASSUME NEW q \in Slots(i), q < e PROVE q < d
      BY <2>1
    <3> QED
      BY <1>2, <1>3, <2>2
  <2>4. ~a.update_flag
    BY <1>1, <1>4, <2>3, BlankNames
  <2>5. d - m \in Slots(i) /\ d - m < d
    BY <1>1, <2>1, PrevPlace
  <2>6. d - m <= p
    BY <2>1, <2>5
  <2>7. p < d
    BY <1>2, <1>3, <1>6, <2>2
  <2>8. p <= d - m
    <3>1. p < (d - m) + m
      BY <1>2, <2>7
    <3> QED
      BY <1>1, <2>5, <3>1, SlotGap
  <2>9. p + 2 * m <= pages_read
    BY <1>2, <2>1, <2>6, <2>8
  <2> QED
    BY <1>5, <1>8, <2>4, <2>9
<1> QED
  BY <1>7, <1>8

(* The scan at boot finds the newest copy, the only block that is open and *)
(* the place to append to.                                                 *)
LEMMA BootLog ==
  ASSUME NEW f, FlashOK(f), NEW i \in PageItems, Log(f, i), NEW n \in Nat, Older(f, i, n + 1),
         NEW a, a = CheckInfo(f, i)
  PROVE  /\ a.timestamp \in Nat /\ a.timestamp <= n /\ Older(f, i, a.timestamp + 1)
         /\ Accurate(f, a, i) /\ OneOpen(f, a, i)
<1>1. i \in Items /\ ScanBlocks \subseteq AllBlocks
  BY ConstFacts DEF PageItems
<1>2. \A b \in ScanBlocks : \A p \in Slots(i) : Named(f[b][p], i) => b \in Holders(f, i)
  BY <1>1, CopyHolds DEF Log
<1>3. \A b \in ScanBlocks : Open(f, b, i) => 0 \in Slots(i) /\ Named(f[b][0], i)
  <2> SUFFICES ASSUME NEW b \in ScanBlocks, NEW e \in Slots(i), IsOpen(f, b, i, e)
               PROVE  0 \in Slots(i) /\ Named(f[b][0], i)
    BY DEF Open
  <2> QED
    BY <1>1, SlotFacts DEF IsOpen
<1>4. CASE Holders(f, i) = {}
  <2>1. a = Unknown /\ a.timestamp = 0 /\ ~a.arg_valid
    BY <1>4 DEF CheckInfo, Unknown
  <2>2. Older(f, i, 0 + 1) /\ OneOpen(f, a, i)
    BY <1>2, <1>3, <1>4 DEF Older, OneOpen
  <2> QED
    BY <2>1, <2>2 DEF Accurate
<1>5. CASE Holders(f, i) # {}
  <2>1. PICK b : b = ScanBlock(f, i)
    OBVIOUS
  <2>2. PICK p : p = ScanPage(f, b, i)
    OBVIOUS
  <2>3. a = [arg_valid |-> TRUE, valid_blk_addr |-> b, valid_page_addr |-> p,
             timestamp |-> f[b][p].timestamp, update_flag |-> UpdateFlag(f, b, i)]
    BY <1>5, <2>1, <2>2 DEF CheckInfo
  <2>4. /\ a.arg_valid /\ a.valid_blk_addr = b /\ a.valid_page_addr = p
        /\ a.timestamp = f[b][p].timestamp /\ a.update_flag = UpdateFlag(f, b, i)
    BY <2>3
  <2>5. /\ b \in ScanBlocks /\ p \in Slots(i) /\ p < CopiesEnd(f, b, i) /\ Named(f[b][p], i)
        /\ \A q \in Slots(i) : Named(f[b][q], i) => q <= p
        /\ \A c \in ScanBlocks : \A q \in Slots(i) :
              Named(f[c][q], i) => c = b \/ Before(f, c, b, i)
    BY <1>5, <2>1, <2>2, NewestFound
  <2>6. Older(f, i, a.timestamp + 1)
    BY <2>4, <2>5, NewestStamp
  <2>7. a.timestamp \in Nat /\ a.timestamp <= n
    <3>1. f[b][p].timestamp \in Nat /\ f[b][p].timestamp < n + 1
      BY <1>1, <2>5, PageFacts DEF Older
    <3> QED
      BY <2>4, <3>1
  <2>8. Accurate(f, a, i)
    <3>1. Clean(f, b, i)
      BY <2>5 DEF Log
    <3> QED
      BY <2>4, <2>5, <3>1, ScanAccurate
  <2>9. OneOpen(f, a, i)
    <3> SUFFICES ASSUME NEW c \in ScanBlocks, Open(f, c, i), c # b PROVE FALSE
      BY <2>4 DEF OneOpen
    <3>1. Named(f[c][0], i) /\ 0 \in Slots(i)
      BY <1>3
    <3>2. Before(f, c, b, i) /\ Before(f, b, c, i)
      BY <2>5, <3>1 DEF Log
    <3>3. f[c][0].timestamp < f[b][p].timestamp /\ f[b][p].timestamp < f[c][0].timestamp
      BY <2>5, <3>1, <3>2 DEF Before
    <3>4. f[c][0].timestamp \in Nat /\ f[b][p].timestamp \in Nat
      BY <1>1, <2>5, <3>1, PageFacts
    <3> QED
      BY <3>3, <3>4
  <2> QED
    BY <2>6, <2>7, <2>8, <2>9
<1> QED
  BY <1>4, <1>5

-----------------------------------------------------------------------------
(* Writing a copy.                                                         *)

(* No block but B is open.                                                 *)
OpenOnly(f, B, i) == \A b \in ScanBlocks : Open(f, b, i) => b = B

(* The copies in B up to the one at base, of which w pages are written.    *)
Started(f, B, i, base, w) ==
  NamedTo(f, B, i, IF w > 0 THEN base + arg_pages[i] ELSE base)

(* A program that fails or is interrupted spoils no more than the copy     *)
(* being written.                                                          *)
LEMMA TornCopy ==
  ASSUME NEW f, FlashOK(f), NEW i \in PageItems, NEW B \in AllBlocks, NEW base \in Slots(i),
         NEW w \in Nat, w < arg_pages[i], Started(f, B, i, base, w), Log(f, i),
         NEW g, g = WithPage(f, B, base + w, Torn)
  PROVE  Harmless(f, g, i)
<1> DEFINE m == arg_pages[i]
<1>1. i \in Items /\ m \in Nat \ {0} /\ base \in Nat /\ \A q \in Slots(i) : q \in Nat
  BY SlotFacts, ConstFacts DEF PageItems
<1>1a. Slots(i) \subseteq Pages /\ Pages \subseteq Nat
  BY <1>1, SlotFacts, ConstFacts
<1>2. /\ FlashOK(g)
      /\ \A d \in AllBlocks : \A q \in Pages :
           g[d][q] = IF d = B /\ q = base + w THEN Torn ELSE f[d][q]
  BY SetPage, ConstFacts
<1>3. \A b \in AllBlocks \ {B} : g[b] = f[b]
  <2> SUFFICES ASSUME NEW b \in AllBlocks \ {B} PROVE g[b] = f[b]
    OBVIOUS
  <2>1. g[b] \in [Pages -> Contents] /\ f[b] \in [Pages -> Contents]
    BY <1>2 DEF FlashOK
  <2>2. \A q \in Pages : g[b][q] = f[b][q]
    BY <1>2
  <2> QED
    BY <2>1, <2>2
<1>4. Tears(f, g, B)
  BY <1>2, <1>3 DEF Tears
<1>5. ASSUME B \in ScanBlocks, NEW e \in Slots(i), IsOpen(g, B, i, e) PROVE BlankFrom(g, B, e)
  <2>1. IsOpen(f, B, i, e)
    BY <1>1, <1>4, <1>5, TornPages
  <2>2. BlankFrom(f, B, e) /\ ~Named(f[B][e], i)
    BY <1>5, <2>1 DEF Log, Clean, IsOpen
  <2>3. /\ g[B][e] # Torn
        /\ \A q \in Slots(i) : q < e => Named(g[B][q], i)
    BY <1>5 DEF IsOpen
  <2>4. CASE w = 0
    <3>1. ~(e < base)
      BY <2>2, <2>4 DEF Started, NamedTo
    <3>2. base + w = base
      BY <1>1, <2>4
    <3>3. g[B][base] = Torn
      BY <1>1a, <1>2, <3>2
    <3>4. e # base /\ ~(base < e)
      BY <1>1, <2>3, <3>3, BlankNames
    <3> QED
      BY <1>1, <3>1, <3>4
  <2>5. CASE w > 0
    <3>1. ~(e < base + m)
      BY <2>2, <2>5 DEF Started, NamedTo
    <3>2. base + w < e
      BY <1>1, <3>1
    <3>3. \A q \in Pages : q >= e => g[B][q] = f[B][q]
      <4> SUFFICES ASSUME NEW q \in Pages, q >= e PROVE q # base + w
        BY <1>2
      <4>1. q \in Nat /\ base + w \in Nat /\ e \in Nat
        BY <1>1, <1>1a
      <4> QED
        BY <3>2, <4>1
    <3> QED
      BY <2>2, <3>3 DEF BlankFrom
  <2> QED
    BY <2>4, <2>5
<1>6. B \in ScanBlocks => Clean(g, B, i)
  BY <1>5 DEF Clean
<1> QED
  BY <1>1, <1>4, <1>6, TearsHarmless

(* The first page of a copy makes its block the newest.                    *)
LEMMA FirstPage ==
  ASSUME NEW f, FlashOK(f), NEW i \in PageItems, NEW B \in AllBlocks, NEW base \in Slots(i),
         base + arg_pages[i] <= pages_read, Log(f, i), BlankFrom(f, B, base),
         NamedTo(f, B, i, base), OpenOnly(f, B, i), NEW t \in Nat, Older(f, i, t),
         NEW c \in Contents, c.name = i, c.timestamp = t,
         NEW g, FlashOK(g),
         \A d \in AllBlocks : \A q \in Pages : g[d][q] = IF d = B /\ q = base THEN c ELSE f[d][q]
  PROVE  /\ Log(g, i) /\ Older(g, i, t + 1) /\ OpenOnly(g, B, i)
         /\ NamedTo(g, B, i, base + arg_pages[i]) /\ BlankFrom(g, B, base + 1)
<1> DEFINE m == arg_pages[i]
<1>1. /\ i \in Items /\ m \in Nat \ {0} /\ base \in Nat /\ pages_read \in Nat
      /\ \A q \in Slots(i) : q \in Nat /\ q < pages_read /\ q \in Pages
      /\ ScanBlocks \subseteq AllBlocks /\ Pages \subseteq Nat
  BY SlotFacts, ConstFacts DEF PageItems, Pages
<1>2. \A d \in AllBlocks : \A q \in Slots(i) :
         g[d][q] = IF d = B /\ q = base THEN c ELSE f[d][q]
  BY <1>1
<1>3. Named(c, i) /\ c # Torn
  BY <1>1, BlankNames DEF Named
<1>4. \A q \in Slots(i) : Named(f[B][q], i) => q < base
  <2> SUFFICES ASSUME NEW q \in Slots(i), Named(f[B][q], i), ~(q < base) PROVE FALSE
    OBVIOUS
  <2>1. q \in Pages /\ q \in Nat /\ base \in Nat
    BY <1>1
  <2>2. f[B][q] = Blank
    <3>1. q >= base
      BY <2>1
    <3> QED
      BY <2>1, <3>1 DEF BlankFrom
  <2> QED
    BY <1>1, <2>2, BlankNames
<1>5. \A q \in Slots(i) : q < base => Named(f[B][q], i)
  BY DEF NamedTo
<1>6. \A b \in ScanBlocks : \A q \in Slots(i) :
         Named(f[b][q], i) => f[b][q].timestamp < t /\ f[b][q].timestamp \in Nat
  BY <1>1, PageFacts DEF Older
<1>7. NamedTo(g, B, i, base + m)
  <2> SUFFICES ASSUME NEW q \in Slots(i), q < base + m PROVE Named(g[B][q], i)
    BY DEF NamedTo
  <2>1. q <= base /\ q \in Nat
    BY <1>1, SlotGap
  <2>2. CASE q = base
    BY <1>2, <1>3, <2>2
  <2>3. CASE q # base
    <3>1. q < base
      BY <1>1, <2>1, <2>3
    <3> QED
      BY <1>2, <1>5, <2>3, <3>1
  <2> QED
    BY <2>2, <2>3
<1>8. BlankFrom(g, B, base + 1)
  <2> SUFFICES ASSUME NEW q \in Pages, q >= base + 1 PROVE g[B][q] = Blank
    BY DEF BlankFrom
  <2>1. q # base /\ q >= base
    BY <1>1
  <2> QED
    BY <2>1 DEF BlankFrom
<1>9. Older(g, i, t + 1)
  <2> SUFFICES ASSUME NEW b \in ScanBlocks, NEW q \in Slots(i), Named(g[b][q], i)
               PROVE  g[b][q].timestamp < t + 1
    BY DEF Older
  <2>1. CASE b = B /\ q = base
    BY <1>1, <1>2, <2>1
  <2>2. CASE ~(b = B /\ q = base)
    <3>1. g[b][q] = f[b][q]
      BY <1>1, <1>2, <2>2
    <3>2. f[b][q].timestamp < t /\ f[b][q].timestamp \in Nat
      BY <1>6, <3>1
    <3> QED
      BY <3>1, <3>2
  <2> QED
    BY <2>1, <2>2
<1>10. \A b \in ScanBlocks \ {B} : \A q \in Slots(i) : g[b][q] = f[b][q]
  BY <1>1, <1>2
<1>11. \A b \in ScanBlocks \ {B} : g[b] = f[b]
  <2> SUFFICES ASSUME NEW b \in ScanBlocks \ {B} PROVE g[b] = f[b]
    OBVIOUS
  <2>1. g[b] \in [Pages -> Contents] /\ f[b] \in [Pages -> Contents]
    BY <1>1 DEF FlashOK
  <2>2. \A q \in Pages : g[b][q] = f[b][q]
    BY <1>1
  <2> QED
    BY <2>1, <2>2
<1>12. OpenOnly(g, B, i)
  <2> SUFFICES ASSUME NEW b \in ScanBlocks, Open(g, b, i), b # B PROVE FALSE
    BY DEF OpenOnly
  <2>1. Open(f, b, i)
    BY <1>11 DEF Open, IsOpen
  <2> QED
    BY <2>1 DEF OpenOnly
<1>13. ASSUME B \in ScanBlocks PROVE InRow(g, B, i)
  <2> SUFFICES ASSUME NEW p \in Slots(i), NEW q \in Slots(i), p < q, Named(g[B][q], i)
               PROVE  Named(g[B][p], i) /\ g[B][p].timestamp < g[B][q].timestamp
    BY DEF InRow
  <2>1. q <= base
    BY <1>1, <1>2, <1>4
  <2>2. p < base /\ p # base
    BY <1>1, <2>1
  <2>3. g[B][p] = f[B][p] /\ Named(f[B][p], i)
    BY <1>2, <1>5, <2>2
  <2>4. CASE q = base
    <3>1. g[B][q] = c
      BY <1>2, <2>4
    <3> QED
      BY <1>6, <1>13, <2>3, <3>1
  <2>5. CASE q # base
    <3>1. g[B][q] = f[B][q]
      BY <1>2, <2>5
    <3>2. f[B][p] # Torn
      BY <1>1, <2>3, BlankNames
    <3>3. InRow(f, B, i)
      BY <1>13 DEF Log
    <3> QED
      BY <2>3, <3>1, <3>2, <3>3 DEF InRow
  <2> QED
    BY <2>4, <2>5
<1>14. Clean(g, B, i)
  <2> SUFFICES ASSUME NEW e \in Slots(i), IsOpen(g, B, i, e) PROVE BlankFrom(g, B, e)
    BY DEF Clean
  <2>1. ~Named(g[B][e], i)
    BY DEF IsOpen
  <2>2. ~(e < base + m)
    BY <1>7, <2>1 DEF NamedTo
  <2>3. e >= base + 1 /\ e \in Nat
    <3>1. e \in Nat
      BY <1>1
    <3> HIDE DEF m
    <3> QED
      BY <1>1, <2>2, <3>1
  <2>4. \A q \in Pages : q >= e => q >= base + 1
    BY <1>1, <2>3
  <2> QED
    BY <1>8, <2>4 DEF BlankFrom
<1>15. ASSUME B \in ScanBlocks, NEW d \in ScanBlocks \ {B} PROVE Before(f, d, B, i)
  <2>1. CASE base = 0
    BY <1>1, <1>4, <2>1 DEF Before
  <2>2. CASE base # 0
    <3>1. base > 0
      BY <1>1, <2>2
    <3>2. IsOpen(f, B, i, base)
      BY <1>1, <3>1, OpenThere
    <3> QED
      BY <1>15, <3>2 DEF Open, Log
  <2> QED
    BY <2>1, <2>2
<1>16. ASSUME B \in ScanBlocks, NEW d \in ScanBlocks \ {B} PROVE Before(g, d, B, i)
  <2> SUFFICES ASSUME NEW p \in Slots(i), NEW q \in Slots(i), Named(g[d][p], i), Named(g[B][q], i)
               PROVE  g[d][p].timestamp < g[B][q].timestamp
    BY DEF Before
  <2>1. g[d][p] = f[d][p]
    BY <1>10
  <2>2. CASE q = base
    <3>1. g[B][q] = c
      BY <1>2, <2>2
    <3> QED
      BY <1>6, <2>1, <3>1
  <2>3. CASE q # base
    <3>1. g[B][q] = f[B][q]
      BY <1>2, <2>3
    <3> QED
      BY <1>15, <1>16, <2>1, <3>1 DEF Before
  <2> QED
    BY <2>2, <2>3
<1>17. Log(g, i)
  <2> SUFFICES ASSUME NEW b \in ScanBlocks
               PROVE  /\ InRow(g, b, i)
                      /\ Clean(g, b, i)
                      /\ \A d \in ScanBlocks \ {b} :
                           /\ Before(g, b, d, i) \/ Before(g, d, b, i)
                           /\ Open(g, b, i) => Before(g, d, b, i)
    BY DEF Log
  <2>1. CASE b = B
    BY <1>13, <1>14, <1>16, <2>1
  <2>2. CASE b # B
    <3>1. InRow(g, b, i) /\ Clean(g, b, i)
      BY <1>11, <2>2 DEF Log, InRow, Clean, IsOpen, BlankFrom
    <3>2. ~Open(g, b, i)
      BY <1>12, <2>2 DEF OpenOnly
    <3>3. ASSUME NEW d \in ScanBlocks \ {b} PROVE Before(g, b, d, i) \/ Before(g, d, b, i)
      <4>1. CASE d = B
        BY <1>16, <2>2, <4>1
      <4>2. CASE d # B
        <5>1. Before(f, b, d, i) \/ Before(f, d, b, i)
          BY <3>3 DEF Log
        <5> QED
          BY <1>11, <2>2, <3>3, <4>2, <5>1 DEF Before
      <4> QED
        BY <4>1, <4>2
    <3> QED
      BY <3>1, <3>2, <3>3
  <2> QED
    BY <2>1, <2>2
<1> QED
  BY <1>7, <1>8, <1>9, <1>12, <1>17

(* The other pages of a copy carry no timestamp a scan looks at.           *)
LEMMA LaterPage ==
  ASSUME NEW f, FlashOK(f), NEW i \in PageItems, NEW B \in AllBlocks, NEW base \in Slots(i),
         NEW w \in Nat, w > 0, w < arg_pages[i], Log(f, i), BlankFrom(f, B, base + w),
         NamedTo(f, B, i, base + arg_pages[i]), OpenOnly(f, B, i), NEW t \in Nat,
         Older(f, i, t), NEW c, NEW g,
         \A d \in AllBlocks : \A q \in Pages :
           g[d][q] = IF d = B /\ q = base + w THEN c ELSE f[d][q]
  PROVE  /\ Log(g, i) /\ Older(g, i, t) /\ OpenOnly(g, B, i)
         /\ NamedTo(g, B, i, base + arg_pages[i]) /\ BlankFrom(g, B, base + w + 1)
<1> DEFINE m == arg_pages[i]
           n == base + w
<1>1. /\ i \in Items /\ m \in Nat \ {0} /\ base \in Nat /\ n \in Nat
      /\ Slots(i) \subseteq Pages /\ ScanBlocks \subseteq AllBlocks /\ Pages \subseteq Nat
  <2>1. i \in Items
    BY DEF PageItems
  <2>2. /\ m \in Nat \ {0} /\ Slots(i) \subseteq Pages /\ ScanBlocks \subseteq AllBlocks
        /\ Pages \subseteq Nat
    BY <2>1, SlotFacts, ConstFacts
  <2>3. base \in Nat
    BY <2>2
  <2>4. n \in Nat
    BY <2>3
  <2> QED
    BY <2>1, <2>2, <2>3, <2>4
<1>2. n \notin Slots(i)
  <2> SUFFICES ASSUME n \in Slots(i) PROVE FALSE
    OBVIOUS
  <2>1. n < base + m
    BY <1>1
  <2>2. n <= base
    BY <1>1, <2>1, SlotGap
  <2> QED
    BY <1>1, <2>2
<1>3. \A d \in ScanBlocks \cup {B} : \A q \in Slots(i) : g[d][q] = f[d][q]
  BY <1>1, <1>2
<1>4. \A b \in ScanBlocks \cup {B} : \A e : IsOpen(g, b, i, e) <=> IsOpen(f, b, i, e)
  BY <1>3 DEF IsOpen
<1>5. BlankFrom(g, B, n + 1)
  <2> SUFFICES ASSUME NEW q \in Pages, q >= n + 1 PROVE g[B][q] = Blank
    BY DEF BlankFrom
  <2>1. q # n /\ q >= n
    BY <1>1
  <2> QED
    BY <2>1 DEF BlankFrom
<1>6. NamedTo(g, B, i, base + m)
  BY <1>3 DEF NamedTo
<1>7. Older(g, i, t)
  BY <1>3 DEF Older
<1>8. OpenOnly(g, B, i)
  BY <1>4 DEF OpenOnly, Open
<1>9. ASSUME NEW b \in ScanBlocks PROVE Clean(g, b, i)
  <2> SUFFICES ASSUME NEW e \in Slots(i), IsOpen(g, b, i, e) PROVE BlankFrom(g, b, e)
    BY DEF Clean
  <2>1. IsOpen(f, b, i, e)
    BY <1>4
  <2>2. BlankFrom(f, b, e) /\ ~Named(f[b][e], i)
    BY <2>1 DEF Log, Clean, IsOpen
  <2>3. b = B
    BY <2>1 DEF OpenOnly, Open
  <2>4. ~(e < base + m) /\ e \in Nat
    BY <1>1, <2>2, <2>3 DEF NamedTo
  <2>5. e > n
    BY <1>1, <2>4
  <2>6. \A q \in Pages : q >= e => q # n
    BY <1>1, <2>4, <2>5
  <2> QED
    BY <2>2, <2>3, <2>6 DEF BlankFrom
<1>10. Log(g, i)
  <2>1. \A b \in ScanBlocks : InRow(g, b, i)
    BY <1>3 DEF Log, InRow
  <2>2. \A b, d \in ScanBlocks : Before(f, b, d, i) <=> Before(g, b, d, i)
    BY <1>3 DEF Before
  <2>3. \A b \in ScanBlocks : Open(g, b, i) <=> Open(f, b, i)
    BY <1>4 DEF Open
  <2> QED
    BY <1>9, <2>1, <2>2, <2>3 DEF Log
<1> QED
  BY <1>5, <1>6, <1>7, <1>8, <1>10

(* A page of a copy is programmed.                                         *)
LEMMA CopyPage ==
  ASSUME NEW f, FlashOK(f), NEW i \in PageItems, NEW B \in AllBlocks, NEW base \in Slots(i),
         base + arg_pages[i] <= pages_read,
         NEW w \in Nat, w < arg_pages[i], Log(f, i), BlankFrom(f, B, base + w),
         Started(f, B, i, base, w), OpenOnly(f, B, i), NEW t \in Nat, Older(f, i, t + 1),
         w = 0 => Older(f, i, t), NEW c \in Contents, c.name = i, c.timestamp = t,
         NEW g, g = WithPage(f, B, base + w, c)
  PROVE  /\ Log(g, i) /\ Older(g, i, t + 1) /\ OpenOnly(g, B, i)
         /\ Started(g, B, i, base, w + 1) /\ BlankFrom(g, B, base + w + 1)
<1>1. /\ FlashOK(g)
      /\ \A d \in AllBlocks : \A q \in Pages :
           g[d][q] = IF d = B /\ q = base + w THEN c ELSE f[d][q]
  BY SetPage
<1>2. i \in Items /\ base \in Nat
  BY SlotFacts, ConstFacts DEF PageItems
<1>3. CASE w = 0
  <2>1. base + w = base /\ w + 1 > 0 /\ base + w + 1 = base + 1
    BY <1>2, <1>3
  <2>2. NamedTo(f, B, i, base) /\ BlankFrom(f, B, base)
    BY <1>3, <2>1 DEF Started
  <2>3. \A d \in AllBlocks : \A q \in Pages : g[d][q] = IF d = B /\ q = base THEN c ELSE f[d][q]
    BY <1>1, <2>1
  <2>4. /\ Log(g, i) /\ Older(g, i, t + 1) /\ OpenOnly(g, B, i)
        /\ NamedTo(g, B, i, base + arg_pages[i]) /\ BlankFrom(g, B, base + 1)
    BY <1>1, <1>3, <2>2, <2>3, FirstPage
  <2> QED
    BY <2>1, <2>4 DEF Started
<1>4. CASE w > 0
  <2>1. NamedTo(f, B, i, base + arg_pages[i])
    BY <1>4 DEF Started
  <2>2. /\ Log(g, i) /\ Older(g, i, t + 1) /\ OpenOnly(g, B, i)
        /\ NamedTo(g, B, i, base + arg_pages[i]) /\ BlankFrom(g, B, base + w + 1)
    <3>1. PICK u \in Nat : u = t + 1
      OBVIOUS
    <3>2. Older(f, i, u)
      BY <3>1
    <3>3. /\ Log(g, i) /\ Older(g, i, u) /\ OpenOnly(g, B, i)
          /\ NamedTo(g, B, i, base + arg_pages[i]) /\ BlankFrom(g, B, base + w + 1)
      BY <1>1, <1>4, <2>1, <3>2, LaterPage
    <3> QED
      BY <3>1, <3>3
  <2> QED
    BY <1>4, <2>2 DEF Started
<1> QED
  BY <1>3, <1>4

-----------------------------------------------------------------------------
(* The invariant of an item that is appended to.                           *)

(* The page at which the pass j of a save began; a is the item's arg_info. *)
Base(j, a) == IF j.fresh THEN 0 ELSE a.valid_page_addr + arg_pages[j.item]

(* A pass has erased pages before it and is as long as PassLength says.    *)
Pass(f, j, a) ==
  j.phase \in {"write", "commit"} =>
    /\ BlankFrom(f, j.blk, Base(j, a) + j.written)
    /\ j.phase = "write" => j.written < PassLength(j.item)
    /\ j.phase = "commit" => j.written = PassLength(j.item)

(* While a copy is written its timestamp is the newest, and at most its    *)
(* own block is open; n saves of the item have begun.                      *)
Work(f, j, a, n) ==
  /\ j.copy = 0 => a.timestamp < 2 * n
  /\ j.phase = "alloc" =>
       /\ ~Appends(a, j.item) /\ OpenOnly(f, 0, j.item)
       /\ Older(f, j.item, a.timestamp)
  /\ j.phase \in {"write", "commit"} =>
       /\ Started(f, j.blk, j.item, Base(j, a), j.written)
       /\ OpenOnly(f, j.blk, j.item)
       /\ j.written = 0 => Older(f, j.item, a.timestamp)
  /\ j.phase \in {"erase_old", "finish"} =>
       /\ NamedTo(f, a.valid_blk_addr, j.item, a.valid_page_addr + arg_pages[j.item])
       /\ BlankFrom(f, a.valid_blk_addr, a.valid_page_addr + arg_pages[j.item])
       /\ OpenOnly(f, a.valid_blk_addr, j.item)

(* The save j is not one of item i.                                        *)
Idle(j, i) == j = NoJob \/ j.item # i

(* Item i, with arg_info a and n saves begun, while save j is in progress: *)
(* no copy on flash is newer than a says, two timestamps are used up by a  *)
(* save, and a knows where to append.                                      *)
ItemInv(f, a, i, n, j) ==
  /\ Log(f, i)
  /\ Older(f, i, a.timestamp + 1)
  /\ n <= MaxSaves /\ a.timestamp <= 2 * n
  /\ Idle(j, i) => Accurate(f, a, i) /\ OneOpen(f, a, i)
  /\ ~Idle(j, i) => Work(f, j, a, n)

(* The inductive invariant behind NoOverprogram.                           *)
LogInv ==
  /\ \A i \in PageItems : ItemInv(flash, arg_info[i], i, saves[i], job)
  /\ job # NoJob => Pass(flash, job, arg_info[job.item])

(* A change elsewhere on the flash does not concern an item that is not    *)
(* being saved.                                                            *)
LEMMA BystanderKept ==
  ASSUME NEW f, NEW g, NEW a \in Args, NEW i \in PageItems, NEW n,
         NEW j, NEW k, Idle(j, i), Idle(k, i), ItemInv(f, a, i, n, j), Harmless(f, g, i),
         a.arg_valid => g[a.valid_blk_addr] = f[a.valid_blk_addr]
  PROVE  ItemInv(g, a, i, n, k)
<1>1. /\ Log(f, i) /\ Older(f, i, a.timestamp + 1) /\ n <= MaxSaves /\ a.timestamp <= 2 * n
      /\ Accurate(f, a, i) /\ OneOpen(f, a, i)
  BY DEF ItemInv
<1>2. a.timestamp + 1 \in Nat
  BY ConstFacts DEF Args
<1>3. /\ Log(g, i) /\ Older(g, i, a.timestamp + 1)
      /\ \A b \in ScanBlocks : Open(g, b, i) => Open(f, b, i)
  BY <1>1, <1>2 DEF Harmless
<1>4. OneOpen(g, a, i)
  BY <1>1, <1>3 DEF OneOpen
<1>5. Accurate(g, a, i)
  BY <1>1, <1>3 DEF Accurate, NamedTo, BlankFrom
<1> QED
  BY <1>1, <1>3, <1>4, <1>5 DEF ItemInv

(* The timestamp does not come round: a save uses two.                     *)
StampsSuffice == MaxSaves \in Nat /\ 2 * MaxSaves < TsMod

(* The parts of LogInv.                                                    *)
LEMMA LogInvNow ==
  ASSUME LogInv
  PROVE  /\ \A i \in PageItems : ItemInv(flash, arg_info[i], i, saves[i], job)
         /\ job # NoJob => Pass(flash, job, arg_info[job.item])
BY DEF LogInv

(* The other items, when the step changes one block that is not theirs.    *)
LEMMA Bystanders ==
  ASSUME StoreInv, LogInv, NEW g, NEW B \in AllBlocks, \A b \in AllBlocks \ {B} : g[b] = flash[b],
         NEW i \in PageItems, Idle(job, i), NEW k, Idle(k, i), Harmless(flash, g, i),
         Valid(i) => Current(i) # B
  PROVE  ItemInv(g, arg_info[i], i, saves[i], k)
<1>1. i \in Items /\ arg_info[i] \in Args
  BY DEF PageItems, StoreInv, StoreTypes
<1>2. ItemInv(flash, arg_info[i], i, saves[i], job)
  BY LogInvNow
<1>3. arg_info[i].arg_valid => g[arg_info[i].valid_blk_addr] = flash[arg_info[i].valid_blk_addr]
  <2> HAVE arg_info[i].arg_valid
  <2>1. Owns(i) /\ Current(i) # B
    BY <1>1 DEF StoreInv, OwnInv, Valid
  <2>2. Current(i) \in AllBlocks
    BY <2>1 DEF Owns, StoreInv, StoreTypes
  <2> QED
    BY <2>1, <2>2 DEF Current
<1> QED
  BY <1>1, <1>2, <1>3, BystanderKept

(* An item that is not being saved, when the flash stays as it is.         *)
LEMMA Onlookers ==
  ASSUME StoreInv, LogInv, NEW i \in PageItems, Idle(job, i), NEW k, Idle(k, i)
  PROVE  ItemInv(flash, arg_info[i], i, saves[i], k)
<1>1. ItemInv(flash, arg_info[i], i, saves[i], job)
  BY LogInvNow
<1> QED
  BY <1>1 DEF ItemInv

(* PassLength, and the room it has.                                        *)
LEMMA PassFacts ==
  ASSUME NEW i \in Items
  PROVE  /\ PassLength(i) \in Nat /\ PassLength(i) > 0 /\ PassLength(i) <= pages_read
         /\ i \in PageItems => PassLength(i) = arg_pages[i]
<1> DEFINE m == arg_pages[i]
<1>1. m \in Nat \ {0} /\ m <= pages_read /\ pages_read \in Nat
  BY SlotFacts, ConstFacts
<1>2. CASE i \in FullBlk
  <2>1. PassLength(i) = (pages_read \div m) * m
    BY <1>2 DEF PassLength
  <2> HIDE DEF m
  <2>2. PICK n \in Nat : n = pages_read
    BY <1>1
  <2>3. n = m * (n \div m) + (n % m) /\ n % m \in 0..m - 1 /\ n \div m \in Nat
    BY <1>1, Z3
  <2>4. PICK q \in Nat, r \in Nat : n \div m = q /\ n = m * q + r /\ r < m
    BY <1>1, <2>3
  <2>5. q > 0
    BY <1>1, <2>2, <2>4, Z3
  <2>6. q * m = m * q /\ m * q \in Nat
    BY <1>1, Z3
  <2>7. m * q > 0 /\ m * q <= n
    BY <1>1, <2>4, <2>5, Z3
  <2>8. PassLength(i) = m * q
    BY <2>1, <2>2, <2>4, <2>6
  <2> QED
    BY <1>2, <2>2, <2>6, <2>7, <2>8 DEF PageItems
<1>3. CASE i \notin FullBlk
  BY <1>1, <1>3 DEF PassLength
<1> QED
  BY <1>2, <1>3

(* The timestamp of a save that begins is the next one.                    *)
LEMMA NextStamp ==
  ASSUME NEW a \in Args, StampsSuffice, NEW n \in Nat, n <= MaxSaves, a.timestamp < 2 * n
  PROVE  Stamp(a).timestamp = a.timestamp + 1
<1>1. a.timestamp \in Nat /\ TsMod \in Nat \ {0}
  BY ConstFacts DEF Args
<1>2. a.timestamp + 1 < TsMod
  BY <1>1, ConstFacts DEF StampsSuffice
<1>3. \A x \in Nat, m \in Nat \ {0} : x < m => x % m = x
  BY Z3
<1>4. (a.timestamp + 1) % TsMod = a.timestamp + 1
  BY <1>1, <1>2, <1>3
<1> QED
  BY <1>4 DEF Stamp, Args

(* Older than t is older than t + 1.                                       *)
LEMMA OlderStill ==
  ASSUME NEW f, FlashOK(f), NEW i \in Items, NEW t \in Nat, Older(f, i, t)
  PROVE  Older(f, i, t + 1)
<1> SUFFICES ASSUME NEW b \in ScanBlocks, NEW p \in Slots(i), Named(f[b][p], i)
             PROVE  f[b][p].timestamp < t + 1
  BY DEF Older
<1>1. f[b][p].timestamp \in Nat /\ f[b][p].timestamp < t
  BY PageFacts, ConstFacts DEF Older
<1> QED
  BY <1>1

(* How a pass of item i begins in the flash as it is.  a is what the item  *)
(* knows before the timestamp is counted, b after it.                      *)
LEMMA PassBegins ==
  ASSUME NEW f, FlashOK(f), NEW i \in PageItems, NEW a \in Args, a.valid_page_addr \in Slots(i),
         NEW b \in Args,
         b.arg_valid = a.arg_valid, b.valid_blk_addr = a.valid_blk_addr,
         b.valid_page_addr = a.valid_page_addr, b.update_flag = a.update_flag,
         b.timestamp = a.timestamp + 1,
         Log(f, i), Older(f, i, a.timestamp + 1), Accurate(f, a, i), OneOpen(f, a, i),
         NEW n \in Nat, n <= MaxSaves, b.timestamp <= 2 * n,
         NEW v, NEW boot, NEW c \in {0, 1}, c = 0 => b.timestamp < 2 * n, NEW last,
         NEW j, j = Copy(a, i, v, boot, c, last)
  PROVE  ItemInv(f, b, i, n, j) /\ Pass(f, j, b)
<1> DEFINE m == arg_pages[i]
<1>1. /\ i \in Items /\ m \in Nat \ {0} /\ pages_read \in Nat /\ a.valid_page_addr \in Nat
      /\ 0 \notin ScanBlocks
  BY SlotFacts, ConstFacts DEF PageItems, Args
<1>2. /\ j.item = i /\ j.copy = c /\ j.written = 0 /\ j.fresh = ~Appends(a, i)
      /\ j.phase = IF Appends(a, i) THEN "write" ELSE "alloc"
      /\ Appends(a, i) => j.blk = a.valid_blk_addr
  BY DEF Copy
<1>3. j # NoJob
  <2>1. NoJob.phase = "none"
    BY DEF NoJob
  <2> QED
    BY <1>2, <2>1
<1>4. Appends(a, i) <=> Appends(b, i)
  BY DEF Appends
<1>5. Older(f, i, b.timestamp) /\ Older(f, i, b.timestamp + 1)
  <2>1. Older(f, i, b.timestamp)
    OBVIOUS
  <2>2. b.timestamp \in Nat
    BY ConstFacts DEF Args
  <2> QED
    BY <1>1, <2>1, <2>2, OlderStill
<1>6. CASE Appends(a, i)
  <2> DEFINE e == a.valid_page_addr + m
  <2>1. /\ a.arg_valid /\ j.phase = "write" /\ ~j.fresh /\ j.blk = a.valid_blk_addr
    BY <1>2, <1>6 DEF Appends
  <2>2. Base(j, b) = e /\ e \in Nat
    BY <1>1, <1>2, <2>1 DEF Base
  <2>3. NamedTo(f, j.blk, i, e) /\ BlankFrom(f, j.blk, e)
    BY <1>6, <2>1 DEF Accurate
  <2> HIDE DEF e
  <2>4. e + 0 = e
    BY <2>2
  <2>5. Pass(f, j, b)
    BY <1>1, <1>2, <2>1, <2>2, <2>3, <2>4, PassFacts DEF Pass
  <2>6. Started(f, j.blk, i, Base(j, b), 0)
    BY <2>2, <2>3 DEF Started
  <2>7. OpenOnly(f, j.blk, i)
    BY <2>1 DEF OpenOnly, OneOpen
  <2>8. Work(f, j, b, n)
    BY <1>2, <1>5, <2>1, <2>6, <2>7 DEF Work
  <2> QED
    BY <1>2, <1>3, <1>5, <2>5, <2>8 DEF ItemInv, Idle
<1>7. CASE ~Appends(a, i)
  <2>1. j.phase = "alloc"
    BY <1>2, <1>7
  <2>2. OpenOnly(f, 0, i)
    BY <1>7 DEF Accurate, OneOpen, OpenOnly
  <2>3. Work(f, j, b, n)
    BY <1>2, <1>4, <1>5, <1>7, <2>1, <2>2 DEF Work
  <2> QED
    BY <1>2, <1>3, <1>5, <2>1, <2>3 DEF ItemInv, Idle, Pass
<1> QED
  BY <1>6, <1>7

-----------------------------------------------------------------------------
(* The steps keep LogInv.                                                  *)

(* What LogInv needs after a step.                                         *)
LEMMA LogInvNext ==
  ASSUME NEW f, flash' = f, NEW j, job' = j,
         \A i \in PageItems : ItemInv(f, arg_info'[i], i, saves'[i], j),
         j # NoJob => Pass(f, j, arg_info'[j.item])
  PROVE  LogInv'
BY DEF LogInv

(* A FULL_BLK item is never appended to: the first thing its save does is  *)
(* to look for a block.                                                    *)
LEMMA FullBlkBegins ==
  ASSUME NEW i \in FullBlk, NEW a, NEW v, NEW boot, NEW c, NEW last, NEW b, NEW f,
         NEW j, j = Copy(a, i, v, boot, c, last)
  PROVE  Pass(f, j, b) /\ j.item = i
<1>1. ~Appends(a, i)
  BY DEF Appends
<1>2. j.phase = "alloc" /\ j.item = i
  BY <1>1 DEF Copy
<1> QED
  BY <1>2 DEF Pass

(* A save begins.                                                          *)
LEMMA BeginLog ==
  ASSUME StoreInv, LogInv, StampsSuffice, NEW i \in Items, NEW v \in Nat, NEW boot \in BOOLEAN,
         boot => i \in FullBlk, BeginSave(i, v, boot), flash' = flash,
         i \in PageItems => saves'[i] = saves[i] + 1 /\ saves[i] < MaxSaves,
         \A k \in PageItems \ {i} : saves'[k] = saves[k]
  PROVE  LogInv'
<1> DEFINE a == arg_info[i]
           b == [Stamp(a) EXCEPT !.update_flag = a.update_flag /\ ~boot]
           j == Copy(a, i, v, boot, 0, 0)
<1>1. a \in Args /\ a.valid_page_addr \in Slots(i) /\ saves[i] \in Nat /\ FlashOK(flash)
  BY DEF StoreInv, StoreTypes
<1>2. arg_info' = [arg_info EXCEPT ![i] = b] /\ job' = j /\ job = NoJob
  <2>1. job' = j /\ job = NoJob
    BY DEF BeginSave
  <2>2. arg_info' = [arg_info EXCEPT ![i] = b]
    BY DEF BeginSave
  <2> QED
    BY <2>1, <2>2
<1>3. \A k \in Items : arg_info'[k] = IF k = i THEN b ELSE arg_info[k]
  <2> HIDE DEF b
  <2> QED
    BY <1>2 DEF StoreInv, StoreTypes
<1>4. j.item = i
  BY DEF Copy
<1>5. ASSUME NEW k \in PageItems, k # i
      PROVE  ItemInv(flash, arg_info'[k], k, saves'[k], j)
  <2>1. Idle(job, k) /\ Idle(j, k)
    BY <1>2, <1>4, <1>5 DEF Idle
  <2>2. arg_info'[k] = arg_info[k] /\ saves'[k] = saves[k]
    BY <1>3, <1>5 DEF PageItems
  <2>3. ItemInv(flash, arg_info[k], k, saves[k], j)
    BY <2>1, Onlookers
  <2> QED
    BY <2>2, <2>3
<1>6. CASE i \in PageItems
  <2>1. ItemInv(flash, a, i, saves[i], job)
    BY <1>6, LogInvNow
  <2>2. /\ Log(flash, i) /\ Older(flash, i, a.timestamp + 1) /\ Accurate(flash, a, i)
        /\ OneOpen(flash, a, i) /\ a.timestamp <= 2 * saves[i]
    BY <1>2, <2>1 DEF ItemInv, Idle
  <2>3. PICK n \in Nat : n = saves[i] + 1 /\ saves'[i] = n /\ n <= MaxSaves
    BY <1>1, <1>6 DEF StampsSuffice
  <2>4. a.timestamp \in Nat /\ a.timestamp + 1 < 2 * n /\ a.timestamp < 2 * n
    <3>1. a.timestamp \in Nat
      BY <1>1, ConstFacts DEF Args
    <3> HIDE DEF a
    <3> QED
      BY <1>1, <2>2, <2>3, <3>1
  <2>5. /\ Stamp(a) \in Args /\ Stamp(a).arg_valid = a.arg_valid
        /\ Stamp(a).valid_blk_addr = a.valid_blk_addr
        /\ Stamp(a).valid_page_addr = a.valid_page_addr
        /\ Stamp(a).update_flag = a.update_flag
    BY <1>1, StampFacts
  <2>6. Stamp(a).timestamp = a.timestamp + 1
    BY <1>1, <2>3, <2>4, NextStamp
  <2>7. ~boot /\ a.update_flag \in BOOLEAN
    BY <1>1, <1>6 DEF PageItems, Args
  <2>8. /\ b \in Args /\ b.arg_valid = a.arg_valid /\ b.valid_blk_addr = a.valid_blk_addr
        /\ b.valid_page_addr = a.valid_page_addr /\ b.update_flag = a.update_flag
        /\ b.timestamp = a.timestamp + 1
    <3> HIDE DEF a
    <3> QED
      BY <2>5, <2>6, <2>7 DEF Args
  <2> HIDE DEF b
  <2>9. b.timestamp <= 2 * n /\ b.timestamp < 2 * n
    <3> HIDE DEF a
    <3> QED
      BY <2>3, <2>4, <2>8
  <2>10. ItemInv(flash, b, i, n, j) /\ Pass(flash, j, b)
    BY <1>1, <1>6, <2>2, <2>3, <2>8, <2>9, PassBegins
  <2> HIDE DEF j
  <2>11. \A k \in PageItems : ItemInv(flash, arg_info'[k], k, saves'[k], j)
    BY <1>3, <1>5, <2>3, <2>10
  <2>12. Pass(flash, j, arg_info'[j.item])
    BY <1>3, <1>4, <2>10
  <2> QED
    BY <1>2, <2>11, <2>12, LogInvNext
<1>7. CASE i \notin PageItems
  <2>1. i \in FullBlk
    BY <1>7 DEF PageItems
  <2>2. Pass(flash, j, arg_info'[j.item])
    BY <2>1, FullBlkBegins
  <2> HIDE DEF j
  <2> QED
    BY <1>2, <1>5, <1>7, <2>2, LogInvNext
<1> QED
  BY <1>6, <1>7

(* An erased block has no copies.                                          *)
LEMMA ErasedFacts ==
  ASSUME NEW f, FlashOK(f), NEW B \in AllBlocks, NEW g, g = WithBlock(f, B, [p \in Pages |-> Blank])
  PROVE  /\ FlashOK(g) /\ \A b \in AllBlocks \ {B} : g[b] = f[b]
         /\ BlankFrom(g, B, 0)
         /\ \A i \in Items : ~Has(g, B, i) /\ Harmless(f, g, i) /\ NamedTo(g, B, i, 0)
                             /\ ~Open(g, B, i)
<1> DEFINE h == [p \in Pages |-> Blank]
<1>1. h \in [Pages -> Contents] /\ \A p \in Pages : h[p] = Blank
  BY BlankNames
<1> HIDE DEF h
<1>2. FlashOK(g) /\ \A c \in AllBlocks : g[c] = IF c = B THEN h ELSE f[c]
  BY <1>1, SetBlock DEF h
<1>3. \A i \in Items : ~Has(g, B, i)
  BY <1>1, <1>2, BlankNames DEF Has
<1>4. \A i \in Items : Harmless(f, g, i)
  BY <1>2, <1>3, OtherHarmless
<1>5. \A i \in Items : NamedTo(g, B, i, 0)
  <2> SUFFICES ASSUME NEW i \in Items, NEW p \in Slots(i), p < 0 PROVE FALSE
    BY DEF NamedTo
  <2>1. p \in Nat
    BY SlotFacts, ConstFacts
  <2> QED
    BY <2>1
<1>6. \A i \in Items : ~Open(g, B, i)
  <2> SUFFICES ASSUME NEW i \in Items, NEW e \in Slots(i), IsOpen(g, B, i, e) PROVE FALSE
    BY DEF Open
  <2>1. 0 \in Slots(i) /\ 0 \in Pages /\ Named(g[B][0], i)
    BY SlotFacts DEF IsOpen
  <2> QED
    BY <1>3, <2>1 DEF Has
<1> QED
  BY <1>1, <1>2, <1>3, <1>4, <1>5, <1>6 DEF BlankFrom

(* A block is taken.                                                       *)
LEMMA FreeLog ==
  ASSUME StoreInv, LogInv, GetFreeBlock
  PROVE  LogInv'
<1>1. job \in Jobs /\ job.item \in Items /\ job.phase = "alloc" /\ job # NoJob
  BY Running DEF GetFreeBlock, StoreInv
<1>2. PICK b \in AllBlocks \ reserved : b = Min(FreeBlock(job))
  BY FreeBlockFacts DEF GetFreeBlock
<1>3. PICK g : g = WithBlock(flash, b, [p \in Pages |-> Blank])
  OBVIOUS
<1>4. /\ job' = [job EXCEPT !.phase = "write", !.blk = b, !.written = 0]
      /\ flash' = g /\ UNCHANGED <<arg_info, saves>>
  BY <1>2, <1>3 DEF GetFreeBlock, WithBlock, SetFlash
<1>5. /\ FlashOK(g) /\ \A c \in AllBlocks \ {b} : g[c] = flash[c]
      /\ BlankFrom(g, b, 0)
      /\ \A i \in Items : ~Has(g, b, i) /\ Harmless(flash, g, i) /\ NamedTo(g, b, i, 0)
                          /\ ~Open(g, b, i)
  BY <1>3, ErasedFacts DEF StoreInv, StoreTypes
<1>6. PICK j : j = job'
  OBVIOUS
<1>7. /\ j.item = job.item /\ j.fresh = job.fresh /\ j.phase = "write" /\ j.blk = b
      /\ j.written = 0 /\ j.copy = job.copy /\ job.fresh /\ j # NoJob
  <2>1. job.fresh
    BY <1>1 DEF StoreInv, JobInv
  <2>2. /\ j.item = job.item /\ j.fresh = job.fresh /\ j.phase = "write" /\ j.blk = b
        /\ j.written = 0 /\ j.copy = job.copy
    BY <1>1, <1>4, <1>6 DEF Jobs
  <2> QED
    BY <2>1, <2>2 DEF NoJob
<1>8. ASSUME NEW i \in PageItems, i # job.item PROVE ItemInv(g, arg_info[i], i, saves[i], j)
  <2>1. Idle(job, i) /\ Idle(j, i) /\ i \in Items
    BY <1>7, <1>8 DEF Idle, PageItems
  <2>2. Valid(i) => Current(i) # b
    BY <1>2, <2>1 DEF StoreInv, OwnInv, Owns
  <2> QED
    BY <1>5, <2>1, <2>2, Bystanders
<1>9. Base(j, arg_info[j.item]) = 0
  BY <1>7 DEF Base
<1>10. Pass(g, j, arg_info[j.item])
  <2>1. BlankFrom(g, b, 0 + 0)
    BY <1>5
  <2> QED
    BY <1>1, <1>7, <1>9, <2>1, PassFacts DEF Pass
<1>11. ASSUME NEW i \in PageItems, i = job.item PROVE ItemInv(g, arg_info[i], i, saves[i], j)
  <2>1. ItemInv(flash, arg_info[i], i, saves[i], job) /\ ~Idle(job, i) /\ i \in Items
    BY <1>1, <1>11, LogInvNow DEF Idle, PageItems
  <2>2. /\ Log(flash, i) /\ Older(flash, i, arg_info[i].timestamp + 1)
        /\ saves[i] <= MaxSaves /\ arg_info[i].timestamp <= 2 * saves[i]
        /\ Work(flash, job, arg_info[i], saves[i])
    BY <2>1 DEF ItemInv
  <2>3. /\ job.copy = 0 => arg_info[i].timestamp < 2 * saves[i]
        /\ OpenOnly(flash, 0, i) /\ Older(flash, i, arg_info[i].timestamp)
    BY <1>1, <1>11, <2>2 DEF Work
  <2>4. arg_info[i].timestamp \in Nat /\ arg_info[i].timestamp + 1 \in Nat
    <3>1. arg_info[i] \in Args
      BY <2>1 DEF StoreInv, StoreTypes
    <3> QED
      BY <3>1, ConstFacts DEF Args
  <2>5. /\ Log(g, i) /\ Older(g, i, arg_info[i].timestamp + 1)
        /\ Older(g, i, arg_info[i].timestamp)
        /\ \A c \in ScanBlocks : Open(g, c, i) => Open(flash, c, i)
    BY <1>5, <2>1, <2>2, <2>3, <2>4 DEF Harmless
  <2>6. OpenOnly(g, b, i)
    BY <2>3, <2>5, ConstFacts DEF OpenOnly
  <2>7. Started(g, b, i, 0, 0)
    BY <1>5, <2>1 DEF Started
  <2>8. Work(g, j, arg_info[i], saves[i])
    <3>1. Base(j, arg_info[i]) = 0
      BY <1>7 DEF Base
    <3> QED
      BY <1>7, <1>11, <2>3, <2>5, <2>6, <2>7, <3>1 DEF Work
  <2> QED
    BY <1>7, <1>11, <2>2, <2>5, <2>8 DEF ItemInv, Idle
<1> QED
  BY <1>4, <1>6, <1>8, <1>10, <1>11, LogInvNext

(* An open block carries the name.                                         *)
LEMMA OpenHas ==
  ASSUME NEW f, NEW b, NEW i \in Items, Open(f, b, i)
  PROVE  Has(f, b, i)
<1>1. PICK e \in Slots(i) : IsOpen(f, b, i, e)
  BY DEF Open
<1>2. 0 \in Slots(i) /\ 0 \in Pages /\ Named(f[b][0], i)
  BY <1>1, SlotFacts DEF IsOpen
<1> QED
  BY <1>2 DEF Has

(* An erase that fails or is interrupted does no harm in a block that is   *)
(* not open.                                                               *)
LEMMA HalfHarmless ==
  ASSUME FlashOK(flash), NEW b \in AllBlocks, NEW h \in HalfErased(b),
         NEW g, g = WithBlock(flash, b, h)
  PROVE  /\ FlashOK(g) /\ \A c \in AllBlocks \ {b} : g[c] = flash[c]
         /\ \A i \in Items : (b \in ScanBlocks => ~Open(flash, b, i)) => Harmless(flash, g, i)
<1>1. PICK T \in SUBSET Pages :
        h = [p \in Pages |-> IF p \in T THEN Torn ELSE flash[b][p]]
  BY DEF HalfErased
<1>2. h \in [Pages -> Contents]
  BY HalfFacts
<1>3. FlashOK(g) /\ \A c \in AllBlocks : g[c] = IF c = b THEN h ELSE flash[c]
  BY <1>2, SetBlock
<1>4. \A p \in Pages : h[p] = flash[b][p] \/ h[p] = Torn
  BY <1>1
<1>5. Tears(flash, g, b)
  BY <1>3, <1>4 DEF Tears
<1>6. ASSUME NEW i \in Items, b \in ScanBlocks => ~Open(flash, b, i)
      PROVE  Harmless(flash, g, i)
  <2>1. b \in ScanBlocks => ~Open(g, b, i)
    BY <1>5, <1>6, TornPages
  <2>2. b \in ScanBlocks => Clean(g, b, i)
    BY <2>1 DEF Clean, Open
  <2> QED
    BY <1>5, <2>2, TearsHarmless
<1> QED
  BY <1>3, <1>6

(* What amlnand_get_free_block takes is open for no item.                  *)
LEMMA FreeNotOpen ==
  ASSUME StoreInv, LogInv, job.phase = "alloc", NEW b \in AllBlocks, b \notin reserved,
         NEW i \in PageItems
  PROVE  /\ b \in ScanBlocks => ~Open(flash, b, i)
         /\ Valid(i) => Current(i) # b
<1>1. job # NoJob /\ i \in Items
  BY Running DEF StoreInv, PageItems
<1>2. ItemInv(flash, arg_info[i], i, saves[i], job)
  BY LogInvNow
<1>3. Valid(i) => Current(i) # b
  BY <1>1 DEF StoreInv, OwnInv, Owns
<1>4. CASE Idle(job, i)
  BY <1>2, <1>3, <1>4 DEF ItemInv, OneOpen, Valid, Current
<1>5. CASE ~Idle(job, i)
  <2>1. job.item = i
    BY <1>5 DEF Idle
  <2>2. OpenOnly(flash, 0, i)
    BY <1>2, <1>5, <2>1 DEF ItemInv, Work
  <2> QED
    BY <1>3, <2>2, ConstFacts DEF OpenOnly
<1> QED
  BY <1>4, <1>5

(* Nor is the block of the old copy.                                       *)
LEMMA OldNotOpen ==
  ASSUME StoreInv, LogInv, job.phase = "erase_old", NEW b, b = job.old, NEW i \in PageItems
  PROVE  /\ b \in AllBlocks
         /\ b \in ScanBlocks => ~Open(flash, b, i)
         /\ Valid(i) => Current(i) # b
<1>1. job # NoJob /\ i \in Items /\ job.item \in Items
  BY Running DEF StoreInv, PageItems
<1>2. /\ b \in AllBlocks /\ Only(flash, b, job.item)
      /\ \A k \in Items : Valid(k) \/ k = job.item => Current(k) # b
  BY <1>1 DEF StoreInv, JobInv
<1>3. CASE i # job.item
  <2>1. ~Open(flash, b, i)
    BY <1>1, <1>2, <1>3, OpenHas DEF Only
  <2> QED
    BY <1>1, <1>2, <2>1
<1>4. CASE i = job.item
  <2>1. ItemInv(flash, arg_info[i], i, saves[i], job)
    BY LogInvNow
  <2>2. OpenOnly(flash, Current(i), i)
    BY <1>1, <1>4, <2>1 DEF ItemInv, Idle, Work, Current
  <2> QED
    BY <1>1, <1>2, <1>4, <2>2 DEF OpenOnly
<1> QED
  BY <1>3, <1>4

(* The erase of a free block fails.                                        *)
LEMMA EraseFailsLog ==
  ASSUME StoreInv, LogInv, FreeBlockEraseFails
  PROVE  LogInv'
<1>1. job \in Jobs /\ job.item \in Items /\ job.phase = "alloc" /\ job # NoJob
  BY Running DEF FreeBlockEraseFails, StoreInv
<1>2. PICK b \in AllBlocks \ reserved : b = Min(FreeBlock(job))
  BY FreeBlockFacts DEF FreeBlockEraseFails
<1>3. PICK h \in HalfErased(b) : SetFlash([flash EXCEPT ![b] = h])
  BY <1>2 DEF FreeBlockEraseFails
<1>4. PICK g : g = WithBlock(flash, b, h)
  OBVIOUS
<1>5. /\ job' = [job EXCEPT !.from = b + 1]
      /\ flash' = g /\ UNCHANGED <<arg_info, saves>>
  BY <1>2, <1>3, <1>4 DEF FreeBlockEraseFails, WithBlock, SetFlash
<1>6. /\ FlashOK(g) /\ \A c \in AllBlocks \ {b} : g[c] = flash[c]
      /\ \A i \in Items : (b \in ScanBlocks => ~Open(flash, b, i)) => Harmless(flash, g, i)
  BY <1>4, HalfHarmless DEF StoreInv, StoreTypes
<1>7. \A i \in PageItems : Harmless(flash, g, i) /\ (Valid(i) => Current(i) # b)
  BY <1>1, <1>6, FreeNotOpen DEF PageItems
<1>8. PICK j : j = job'
  OBVIOUS
<1>9. j.item = job.item /\ j.phase = "alloc" /\ j.copy = job.copy /\ j # NoJob
  <2>1. j.item = job.item /\ j.phase = "alloc" /\ j.copy = job.copy
    BY <1>1, <1>5, <1>8 DEF Jobs
  <2> QED
    BY <2>1 DEF NoJob
<1>10. ASSUME NEW i \in PageItems, i # job.item PROVE ItemInv(g, arg_info[i], i, saves[i], j)
  <2>1. Idle(job, i) /\ Idle(j, i)
    BY <1>9, <1>10 DEF Idle
  <2> QED
    BY <1>6, <1>7, <2>1, Bystanders
<1>11. ASSUME NEW i \in PageItems, i = job.item PROVE ItemInv(g, arg_info[i], i, saves[i], j)
  <2>1. ItemInv(flash, arg_info[i], i, saves[i], job) /\ ~Idle(job, i) /\ i \in Items
    BY <1>1, <1>11, LogInvNow DEF Idle, PageItems
  <2>2. /\ Log(flash, i) /\ Older(flash, i, arg_info[i].timestamp + 1)
        /\ saves[i] <= MaxSaves /\ arg_info[i].timestamp <= 2 * saves[i]
        /\ Work(flash, job, arg_info[i], saves[i])
    BY <2>1 DEF ItemInv
  <2>3. /\ job.copy = 0 => arg_info[i].timestamp < 2 * saves[i]
        /\ ~Appends(arg_info[i], i)
        /\ OpenOnly(flash, 0, i) /\ Older(flash, i, arg_info[i].timestamp)
    BY <1>1, <1>11, <2>2 DEF Work
  <2>4. arg_info[i].timestamp \in Nat /\ arg_info[i].timestamp + 1 \in Nat
    <3>1. arg_info[i] \in Args
      BY <2>1 DEF StoreInv, StoreTypes
    <3> QED
      BY <3>1, ConstFacts DEF Args
  <2>5. /\ Log(g, i) /\ Older(g, i, arg_info[i].timestamp + 1)
        /\ Older(g, i, arg_info[i].timestamp)
        /\ \A c \in ScanBlocks : Open(g, c, i) => Open(flash, c, i)
    BY <1>7, <2>2, <2>3, <2>4 DEF Harmless
  <2>6. OpenOnly(g, 0, i)
    BY <2>3, <2>5 DEF OpenOnly
  <2>7. Work(g, j, arg_info[i], saves[i])
    BY <1>9, <1>11, <2>3, <2>5, <2>6 DEF Work
  <2> QED
    BY <1>9, <1>11, <2>2, <2>5, <2>7 DEF ItemInv, Idle
<1>12. Pass(g, j, arg_info[j.item])
  BY <1>9 DEF Pass
<1> QED
  BY <1>5, <1>8, <1>10, <1>11, <1>12, LogInvNext

(* There is no free block.                                                 *)
LEMMA NoFreeLog ==
  ASSUME StoreInv, LogInv, NoFreeBlock
  PROVE  LogInv'
<1>1. job \in Jobs /\ job.item \in Items /\ job.phase = "alloc" /\ job # NoJob
  BY Running DEF NoFreeBlock, StoreInv
<1>2. job' = NoJob /\ UNCHANGED <<flash, arg_info, saves>>
  BY DEF NoFreeBlock, GiveUp
<1>3. ASSUME NEW i \in PageItems PROVE ItemInv(flash, arg_info[i], i, saves[i], NoJob)
  <2>1. ItemInv(flash, arg_info[i], i, saves[i], job)
    BY LogInvNow
  <2>2. CASE Idle(job, i)
    BY <2>1, <2>2 DEF ItemInv, Idle
  <2>3. CASE ~Idle(job, i)
    <3>1. job.item = i
      BY <2>3 DEF Idle
    <3>2. ~Appends(arg_info[i], i) /\ OpenOnly(flash, 0, i)
      BY <1>1, <2>1, <2>3, <3>1 DEF ItemInv, Work
    <3>3. Accurate(flash, arg_info[i], i) /\ OneOpen(flash, arg_info[i], i)
      BY <3>2, ConstFacts DEF Accurate, OneOpen, OpenOnly
    <3> QED
      BY <2>1, <3>3 DEF ItemInv, Idle
  <2> QED
    BY <2>2, <2>3
<1> QED
  BY <1>2, <1>3, LogInvNext

(* Where a FULL_PAGE item writes: behind a copy with room for one more.    *)
LEMMA CopyPlace ==
  ASSUME StoreInv, LogInv, job.phase \in {"write", "commit"}, NEW i \in PageItems, i = job.item,
         NEW B, B = job.blk, NEW base, base = Base(job, arg_info[i]), NEW w, w = job.written
  PROVE  /\ base \in Slots(i) /\ base + arg_pages[i] <= pages_read
         /\ B \in AllBlocks /\ w \in Nat /\ w <= arg_pages[i]
         /\ job.phase = "write" => w < arg_pages[i]
         /\ job.phase = "commit" => w = arg_pages[i]
         /\ Log(flash, i) /\ BlankFrom(flash, B, base + w) /\ Started(flash, B, i, base, w)
         /\ OpenOnly(flash, B, i) /\ Older(flash, i, arg_info[i].timestamp + 1)
         /\ w = 0 => Older(flash, i, arg_info[i].timestamp)
         /\ job.copy = 0 => arg_info[i].timestamp < 2 * saves[i]
         /\ saves[i] <= MaxSaves /\ arg_info[i].timestamp <= 2 * saves[i]
<1> DEFINE a == arg_info[i]
           m == arg_pages[i]
<1>1. job \in Jobs /\ job # NoJob /\ i \in Items
  BY Running DEF StoreInv, PageItems
<1>2. /\ B \in AllBlocks /\ w \in Nat
      /\ ~job.fresh => a.valid_page_addr + 2 * m <= pages_read
  BY <1>1 DEF StoreInv, JobInv, Jobs
<1>3. a \in Args /\ a.valid_page_addr \in Slots(i)
  BY <1>1 DEF StoreInv, StoreTypes
<1>4. m \in Nat \ {0} /\ m <= pages_read /\ 0 \in Slots(i) /\ a.valid_page_addr \in Nat
      /\ pages_read \in Nat
  BY <1>1, <1>3, SlotFacts, ConstFacts DEF Args
<1>5. base \in Slots(i) /\ base + m <= pages_read
  <2>1. CASE job.fresh
    <3>1. base = 0
      BY <2>1 DEF Base
    <3> QED
      BY <1>4, <3>1
  <2>2. CASE ~job.fresh
    <3>1. base = a.valid_page_addr + m
      BY <2>2 DEF Base
    <3>2. base \in Slots(i)
      BY <1>1, <1>2, <1>3, <2>2, <3>1, NextSlot
    <3> HIDE DEF a, m
    <3> QED
      BY <1>2, <1>4, <2>2, <3>1, <3>2
  <2> QED
    BY <2>1, <2>2
<1>6. ItemInv(flash, a, i, saves[i], job) /\ ~Idle(job, i)
  BY <1>1, LogInvNow DEF Idle
<1>7. /\ Log(flash, i) /\ Older(flash, i, a.timestamp + 1)
      /\ saves[i] <= MaxSaves /\ a.timestamp <= 2 * saves[i] /\ Work(flash, job, a, saves[i])
  BY <1>6 DEF ItemInv
<1>8. /\ job.copy = 0 => a.timestamp < 2 * saves[i]
      /\ Started(flash, B, i, base, w) /\ OpenOnly(flash, B, i)
      /\ w = 0 => Older(flash, i, a.timestamp)
  BY <1>7 DEF Work
<1>9. Pass(flash, job, a)
  BY <1>1, LogInvNow
<1>10. PassLength(i) = m
  BY <1>1, PassFacts
<1>11. /\ BlankFrom(flash, B, base + w)
       /\ job.phase = "write" => w < m
       /\ job.phase = "commit" => w = m
  BY <1>9, <1>10 DEF Pass
<1>12. w <= m
  <2> HIDE DEF m
  <2> QED
    BY <1>2, <1>4, <1>11
<1> QED
  BY <1>2, <1>5, <1>7, <1>8, <1>11, <1>12

(* The page a save writes next is inside the block.                        *)
LEMMA WriteInside ==
  ASSUME StoreInv, LogInv, job.phase = "write", NEW a, a = arg_info[job.item]
  PROVE  /\ WritePos(job) = Base(job, a) + job.written
         /\ Base(job, a) \in Nat /\ job.written \in Nat
         /\ Base(job, a) + job.written \in Pages
         /\ BlankFrom(flash, job.blk, Base(job, a) + job.written)
<1>1. job \in Jobs /\ job # NoJob /\ job.item \in Items
  BY Running DEF StoreInv
<1>2. WritePos(job) = Base(job, a) + job.written
  BY DEF WritePos, Base
<1>3. Pass(flash, job, a)
  BY <1>1, LogInvNow
<1>4. BlankFrom(flash, job.blk, Base(job, a) + job.written) /\ job.written < PassLength(job.item)
  BY <1>3 DEF Pass
<1>5. job.written \in Nat
  BY <1>1 DEF Jobs
<1>6. PICK b, w \in Nat : b = Base(job, a) /\ w = job.written /\ b \in Nat /\ b + w < pages_read
  <2>1. CASE job.fresh
    <3>1. Base(job, a) = 0
      BY <2>1 DEF Base
    <3>2. PassLength(job.item) \in Nat /\ PassLength(job.item) <= pages_read /\ pages_read \in Nat
      BY <1>1, PassFacts, ConstFacts
    <3>3. 0 + job.written < pages_read
      BY <1>4, <1>5, <3>2
    <3> QED
      BY <1>5, <3>1, <3>3
  <2>2. CASE ~job.fresh
    <3>1. job.item \in PageItems
      BY <1>1, <2>2 DEF StoreInv, JobInv, PageItems
    <3>2. PICK i \in PageItems : i = job.item
      BY <3>1
    <3>3. PICK e, w : e = Base(job, a) /\ w = job.written
      OBVIOUS
    <3>4. e \in Slots(i) /\ e + arg_pages[i] <= pages_read /\ w \in Nat /\ w < arg_pages[i]
      BY <3>2, <3>3, CopyPlace
    <3>5. e \in Nat /\ arg_pages[i] \in Nat /\ pages_read \in Nat
      BY <1>1, <3>2, <3>4, SlotFacts, ConstFacts
    <3>6. e + w < pages_read
      BY <3>4, <3>5
    <3> QED
      BY <3>3, <3>4, <3>5, <3>6
  <2> QED
    BY <2>1, <2>2
<1>7. b + w \in Pages
  BY <1>6, ConstFacts DEF Pages
<1> QED
  BY <1>2, <1>4, <1>5, <1>6, <1>7

(* The block being written is no other item's.                             *)
LEMMA WritesOwn ==
  ASSUME StoreInv, job.phase = "write", NEW i \in Items, i # job.item
  PROVE  /\ job.blk \in AllBlocks /\ ~Has(flash, job.blk, i)
         /\ Valid(i) => Current(i) # job.blk
<1>1. job # NoJob /\ job.item \in Items
  BY Running DEF StoreInv
<1>2. /\ job.blk \in AllBlocks /\ Only(flash, job.blk, job.item)
      /\ job.fresh => job.blk \notin reserved
      /\ ~job.fresh => Valid(job.item) /\ job.blk = Current(job.item)
  BY <1>1 DEF StoreInv, JobInv
<1>3. ~Has(flash, job.blk, i)
  BY <1>2 DEF Only
<1>4. ASSUME Valid(i) PROVE Current(i) # job.blk
  <2>1. CASE job.fresh
    BY <1>2, <1>4, <2>1 DEF StoreInv, OwnInv, Owns
  <2>2. CASE ~job.fresh
    BY <1>1, <1>2, <1>4, <2>2 DEF StoreInv, OwnInv, Owns
  <2> QED
    BY <2>1, <2>2
<1> QED
  BY <1>2, <1>3, <1>4

(* A page is programmed.                                                   *)
LEMMA WriteLog ==
  ASSUME StoreInv, LogInv, WritePage
  PROVE  LogInv'
<1>1. job \in Jobs /\ job.phase = "write" /\ job # NoJob /\ job.item \in Items
  BY Running DEF WritePage, StoreInv
<1>2. PICK k \in Items, a \in Args, B \in AllBlocks, w \in Nat :
        k = job.item /\ a = arg_info[k] /\ B = job.blk /\ w = job.written
  <2>1. job.blk \in AllBlocks /\ job.written \in Nat /\ arg_info[job.item] \in Args
    BY <1>1 DEF StoreInv, StoreTypes, JobInv, Jobs
  <2> QED
    BY <1>1, <2>1
<1>3. PICK base \in Nat : base = Base(job, a) /\ base + w \in Pages /\ WritePos(job) = base + w
                          /\ BlankFrom(flash, B, base + w)
  BY <1>1, <1>2, WriteInside
<1>4. PICK c \in Contents : c = Page(k, a.timestamp, job.version)
  <2>1. job.version \in Nat /\ a.timestamp \in 0..TsMod - 1
    BY <1>1, <1>2 DEF Jobs, Args
  <2> QED
    BY <2>1 DEF Page, Contents, Names
<1>5. c.name = k /\ c.timestamp = a.timestamp
  BY <1>4 DEF Page
<1>6. PICK g : g = WithPage(flash, B, base + w, c)
  OBVIOUS
<1>7. /\ flash' = g /\ UNCHANGED <<arg_info, saves>>
      /\ job' = [job EXCEPT !.written = @ + 1,
                   !.phase = IF job.written + 1 = PassLength(job.item)
                             THEN "commit" ELSE "write"]
  BY <1>2, <1>3, <1>4, <1>6 DEF WritePage, WithPage, SetFlash
<1>8. PICK j : j = job'
  OBVIOUS
<1>9. /\ j.item = k /\ j.fresh = job.fresh /\ j.blk = B /\ j.written = w + 1
      /\ j.copy = job.copy /\ j # NoJob
      /\ j.phase = IF w + 1 = PassLength(k) THEN "commit" ELSE "write"
  <2>1. PICK ph \in {"write", "commit"} :
          ph = IF w + 1 = PassLength(k) THEN "commit" ELSE "write"
    OBVIOUS
  <2>2. j = [job EXCEPT !.written = w + 1, !.phase = ph]
    BY <1>2, <1>7, <1>8, <2>1
  <2>3. /\ j.item = k /\ j.fresh = job.fresh /\ j.blk = B /\ j.written = w + 1
        /\ j.copy = job.copy /\ j.phase = ph
    BY <1>1, <1>2, <2>2 DEF Jobs
  <2> QED
    BY <2>1, <2>3 DEF NoJob
<1>10. /\ FlashOK(g)
       /\ \A d \in AllBlocks : \A q \in Pages :
            g[d][q] = IF d = B /\ q = base + w THEN c ELSE flash[d][q]
  BY <1>6, SetPage DEF StoreInv, StoreTypes
<1>11. \A b \in AllBlocks \ {B} : g[b] = flash[b]
  <2> SUFFICES ASSUME NEW b \in AllBlocks \ {B} PROVE g[b] = flash[b]
    OBVIOUS
  <2>1. g[b] \in [Pages -> Contents] /\ flash[b] \in [Pages -> Contents]
    BY <1>10 DEF FlashOK, StoreInv, StoreTypes
  <2>2. \A q \in Pages : g[b][q] = flash[b][q]
    BY <1>10
  <2> QED
    BY <2>1, <2>2
<1>12. Base(j, a) = base /\ base + (w + 1) = base + w + 1
  BY <1>2, <1>3, <1>9 DEF Base
<1>13. BlankFrom(g, B, base + w + 1)
  <2> SUFFICES ASSUME NEW q \in Pages, q >= base + w + 1 PROVE g[B][q] = Blank
    BY DEF BlankFrom
  <2>1. q # base + w /\ q >= base + w
    BY ConstFacts
  <2> QED
    BY <1>3, <1>10, <2>1 DEF BlankFrom
<1>14. Pass(g, j, a)
  <2>1. w < PassLength(k) /\ PassLength(k) \in Nat
    <3>1. Pass(flash, job, a)
      BY <1>1, <1>2, LogInvNow
    <3> QED
      BY <1>1, <1>2, <3>1, PassFacts DEF Pass
  <2>2. w + 1 # PassLength(k) => w + 1 < PassLength(k)
    BY <2>1
  <2> QED
    BY <1>9, <1>12, <1>13, <2>2 DEF Pass
<1>15. ASSUME NEW i \in PageItems, i # k PROVE ItemInv(g, arg_info[i], i, saves[i], j)
  <2>1. Idle(job, i) /\ Idle(j, i) /\ i \in Items
    BY <1>2, <1>9, <1>15 DEF Idle, PageItems
  <2>2. ~Has(flash, B, i) /\ (Valid(i) => Current(i) # B)
    BY <1>1, <1>2, <1>15, <2>1, WritesOwn
  <2>3. ~Has(g, B, i)
    BY <1>5, <1>10, <1>15, <2>2 DEF Has, Named
  <2>4. Harmless(flash, g, i)
    BY <1>11, <2>1, <2>3, OtherHarmless
  <2> QED
    BY <1>11, <2>1, <2>2, <2>4, Bystanders
<1>16. ASSUME k \in PageItems PROVE ItemInv(g, a, k, saves[k], j)
  <2>1. /\ base \in Slots(k) /\ base + arg_pages[k] <= pages_read
        /\ w < arg_pages[k]
        /\ Log(flash, k) /\ BlankFrom(flash, B, base + w) /\ Started(flash, B, k, base, w)
        /\ OpenOnly(flash, B, k) /\ Older(flash, k, a.timestamp + 1)
        /\ w = 0 => Older(flash, k, a.timestamp)
        /\ job.copy = 0 => a.timestamp < 2 * saves[k]
        /\ saves[k] <= MaxSaves /\ a.timestamp <= 2 * saves[k]
    BY <1>1, <1>2, <1>3, <1>16, CopyPlace
  <2>2. a.timestamp \in Nat
    BY ConstFacts DEF Args
  <2>3. FlashOK(flash)
    BY DEF StoreInv, StoreTypes
  <2>4. /\ Log(g, k) /\ Older(g, k, a.timestamp + 1) /\ OpenOnly(g, B, k)
        /\ Started(g, B, k, base, w + 1)
    BY <1>5, <1>6, <1>16, <2>1, <2>2, <2>3, CopyPage
  <2>5. w + 1 # 0
    BY <1>2
  <2>6. Work(g, j, a, saves[k])
    BY <1>9, <1>12, <2>1, <2>4, <2>5 DEF Work
  <2> QED
    BY <1>9, <2>1, <2>4, <2>6 DEF ItemInv, Idle
<1>17. \A i \in PageItems : ItemInv(g, arg_info'[i], i, saves'[i], j)
  BY <1>2, <1>7, <1>15, <1>16
<1>18. Pass(g, j, arg_info'[j.item])
  BY <1>2, <1>7, <1>9, <1>14
<1> QED
  BY <1>7, <1>8, <1>17, <1>18, LogInvNext

(* A save that hangs, or gives up at boot, leaves the other items alone.   *)
LEMMA SpoiltLog ==
  ASSUME StoreInv, LogInv, job \in Jobs, NEW g, flash' = g, UNCHANGED <<arg_info, saves>>,
         NEW B \in AllBlocks, \A b \in AllBlocks \ {B} : g[b] = flash[b],
         \A i \in PageItems : Harmless(flash, g, i),
         \A i \in PageItems : i # job.item /\ Valid(i) => Current(i) # B,
         Hang \/ (GiveUp /\ job.item \in FullBlk)
  PROVE  LogInv'
<1>1. job # NoJob
  BY JobIsOne
<1>2. PICK j : j = job'
  OBVIOUS
<1>3. /\ j = NoJob \/ (j.item = job.item /\ j.phase = "hung" /\ j.copy = job.copy)
      /\ job.item \in PageItems => j.item = job.item /\ j.phase = "hung" /\ j.copy = job.copy
  <2>1. CASE Hang
    <3>1. j = [job EXCEPT !.phase = "hung"]
      BY <1>2, <2>1 DEF Hang
    <3>2. j.item = job.item /\ j.phase = "hung" /\ j.copy = job.copy
      BY <3>1 DEF Jobs
    <3> QED
      BY <3>2
  <2>2. CASE GiveUp /\ job.item \in FullBlk
    BY <1>2, <2>2 DEF GiveUp, PageItems
  <2> QED
    BY <2>1, <2>2
<1>4. ASSUME NEW i \in PageItems, i # job.item PROVE ItemInv(g, arg_info[i], i, saves[i], j)
  <2>1. Idle(job, i) /\ Idle(j, i)
    BY <1>3, <1>4 DEF Idle
  <2> QED
    BY <1>4, <2>1, Bystanders
<1>5. ASSUME NEW i \in PageItems, i = job.item PROVE ItemInv(g, arg_info[i], i, saves[i], j)
  <2>1. ItemInv(flash, arg_info[i], i, saves[i], job) /\ ~Idle(job, i) /\ i \in Items
    BY <1>1, <1>5, LogInvNow DEF Idle, PageItems
  <2>2. /\ Log(flash, i) /\ Older(flash, i, arg_info[i].timestamp + 1)
        /\ saves[i] <= MaxSaves /\ arg_info[i].timestamp <= 2 * saves[i]
        /\ Work(flash, job, arg_info[i], saves[i])
    BY <2>1 DEF ItemInv
  <2>3. arg_info[i].timestamp + 1 \in Nat
    <3>1. arg_info[i] \in Args
      BY <2>1 DEF StoreInv, StoreTypes
    <3> QED
      BY <3>1, ConstFacts DEF Args
  <2>4. Log(g, i) /\ Older(g, i, arg_info[i].timestamp + 1)
    BY <2>2, <2>3 DEF Harmless
  <2>5. j.item = i /\ j.phase = "hung" /\ j.copy = job.copy
    BY <1>3, <1>5
  <2>6. j # NoJob
    BY <2>5 DEF NoJob
  <2>7. Work(g, j, arg_info[i], saves[i])
    BY <2>2, <2>5 DEF Work
  <2> QED
    BY <2>2, <2>4, <2>5, <2>6, <2>7 DEF ItemInv, Idle
<1>6. j # NoJob => Pass(g, j, arg_info'[j.item])
  BY <1>3 DEF Pass
<1> QED
  BY <1>2, <1>4, <1>5, <1>6, LogInvNext

(* A program that fails or is interrupted.                                 *)
LEMMA TornWrite ==
  ASSUME StoreInv, LogInv, job.phase = "write",
         NEW g, g = WithPage(flash, job.blk, WritePos(job), Torn)
  PROVE  /\ job.blk \in AllBlocks /\ \A b \in AllBlocks \ {job.blk} : g[b] = flash[b]
         /\ FlashOK(g)
         /\ \A i \in PageItems : Harmless(flash, g, i)
<1>1. job \in Jobs /\ job # NoJob /\ job.item \in Items
  BY Running DEF StoreInv
<1>2. PICK B \in AllBlocks : B = job.blk
  BY <1>1 DEF StoreInv, JobInv
<1>3. PICK w : w = WritePos(job)
  OBVIOUS
<1>4. FlashOK(flash) /\ g = WithPage(flash, B, w, Torn)
  BY <1>2, <1>3 DEF StoreInv, StoreTypes
<1>5. /\ FlashOK(g)
      /\ \A d \in AllBlocks : \A q \in Pages :
           g[d][q] = IF d = B /\ q = w THEN Torn ELSE flash[d][q]
  BY <1>4, SetPage, ConstFacts
<1>6. \A b \in AllBlocks \ {B} : g[b] = flash[b]
  <2> SUFFICES ASSUME NEW b \in AllBlocks \ {B} PROVE g[b] = flash[b]
    OBVIOUS
  <2>1. g[b] \in [Pages -> Contents] /\ flash[b] \in [Pages -> Contents]
    BY <1>4, <1>5 DEF FlashOK
  <2>2. \A q \in Pages : g[b][q] = flash[b][q]
    BY <1>5
  <2> QED
    BY <2>1, <2>2
<1>7. ASSUME NEW i \in PageItems, i # job.item PROVE Harmless(flash, g, i)
  <2>1. i \in Items
    BY DEF PageItems
  <2>2. ~Has(flash, B, i)
    BY <1>2, <1>7, <2>1, WritesOwn
  <2>3. ~Has(g, B, i)
    BY <1>5, <2>1, <2>2, BlankNames DEF Has
  <2> QED
    BY <1>6, <2>1, <2>3, OtherHarmless
<1>8. ASSUME NEW i \in PageItems, i = job.item PROVE Harmless(flash, g, i)
  <2>1. PICK base : base = Base(job, arg_info[i])
    OBVIOUS
  <2>2. PICK v : v = job.written
    OBVIOUS
  <2>3. /\ base \in Slots(i) /\ v \in Nat /\ v < arg_pages[i]
        /\ Started(flash, B, i, base, v) /\ Log(flash, i)
    BY <1>2, <1>8, <2>1, <2>2, CopyPlace
  <2>4. w = base + v
    BY <1>3, <1>8, <2>1, <2>2 DEF WritePos, Base
  <2> QED
    BY <1>4, <2>3, <2>4, TornCopy
<1> QED
  BY <1>2, <1>5, <1>6, <1>7, <1>8

(* A program fails.                                                        *)
LEMMA WriteFailsLog ==
  ASSUME StoreInv, LogInv, WritePageFails
  PROVE  LogInv'
<1>1. job \in Jobs /\ job.phase = "write" /\ job # NoJob /\ job.item \in Items
  BY Running DEF WritePageFails, StoreInv
<1>2. UNCHANGED <<arg_info, saves>>
  BY DEF WritePageFails
<1>3. PICK B \in AllBlocks : B = job.blk
  BY <1>1 DEF StoreInv, JobInv
<1>4. \A i \in PageItems : i # job.item => ~Has(flash, B, i) /\ (Valid(i) => Current(i) # B)
  BY <1>1, <1>3, WritesOwn DEF PageItems
<1>5. job.boot => job.item \in FullBlk
  BY <1>1 DEF StoreInv, JobInv
<1>6. CASE job.boot /\ job.tests < MaxTests
  <2>1. PICK h \in Tested(B) : SetFlash([flash EXCEPT ![B] = h])
    BY <1>3, <1>6 DEF WritePageFails
  <2>2. PICK g : g = WithBlock(flash, B, h)
    OBVIOUS
  <2>3. flash' = g
    BY <2>1, <2>2 DEF WithBlock, SetFlash
  <2>4. /\ h \in [Pages -> Contents]
        /\ \A p \in Pages : \A k \in Items :
             Named(h[p], k) => Named(flash[B][p], k) \/ k = job.item
    BY <1>1, <2>1, TestedFacts DEF StoreInv
  <2>5. \A c \in AllBlocks : g[c] = IF c = B THEN h ELSE flash[c]
    BY <2>2, <2>4, SetBlock DEF StoreInv, StoreTypes
  <2>6. PICK j : j = job'
    OBVIOUS
  <2>7. j.item = job.item /\ j.phase = "alloc"
    <3>1. job' = [job EXCEPT !.phase = "alloc", !.from = StartBlk, !.tests = @ + 1]
      BY <1>6 DEF WritePageFails
    <3> QED
      BY <1>1, <2>6, <3>1 DEF Jobs
  <2>8. ASSUME NEW i \in PageItems PROVE ItemInv(g, arg_info[i], i, saves[i], j)
    <3>1. i # job.item /\ i \in Items
      BY <1>5, <1>6 DEF PageItems
    <3>2. Idle(job, i) /\ Idle(j, i)
      BY <2>7, <3>1 DEF Idle
    <3>3. ~Has(g, B, i)
      BY <1>4, <2>4, <2>5, <3>1 DEF Has
    <3>4. Harmless(flash, g, i)
      BY <2>5, <3>1, <3>3, OtherHarmless
    <3> QED
      BY <1>4, <2>5, <3>1, <3>2, <3>4, Bystanders
  <2>9. Pass(g, j, arg_info'[j.item])
    BY <2>7 DEF Pass
  <2> QED
    BY <1>2, <2>3, <2>6, <2>8, <2>9, LogInvNext
<1>7. CASE ~(job.boot /\ job.tests < MaxTests)
  <2>1. PICK g : g = WithPage(flash, job.blk, WritePos(job), Torn)
    OBVIOUS
  <2>2. flash' = g /\ (Hang \/ (GiveUp /\ job.boot))
    BY <1>7, <2>1 DEF WritePageFails, WithPage, SetFlash
  <2>3. /\ \A b \in AllBlocks \ {B} : g[b] = flash[b]
        /\ \A i \in PageItems : Harmless(flash, g, i)
    BY <1>1, <1>3, <2>1, TornWrite
  <2> QED
    BY <1>1, <1>2, <1>4, <1>5, <2>2, <2>3, SpoiltLog
<1> QED
  BY <1>6, <1>7

(* The commit.                                                             *)
LEMMA CommitLog ==
  ASSUME StoreInv, LogInv, Commit
  PROVE  LogInv'
<1>1. job \in Jobs /\ job.phase = "commit" /\ job # NoJob
  BY Running DEF Commit, StoreInv
<1>2. PICK k \in Items, a \in Args, B \in AllBlocks, w \in Nat :
        k = job.item /\ a = arg_info[k] /\ B = job.blk /\ w = job.written
  <2>1. job.item \in Items /\ job.blk \in AllBlocks /\ job.written \in Nat
    BY <1>1 DEF StoreInv, JobInv, Jobs
  <2>2. arg_info[job.item] \in Args
    BY <2>1 DEF StoreInv, StoreTypes
  <2> QED
    BY <2>1, <2>2
<1>3. PICK pg : pg = IF job.fresh THEN 0 ELSE a.valid_page_addr + arg_pages[k]
  OBVIOUS
<1>4. PICK n : n = [a EXCEPT !.valid_blk_addr = B, !.valid_page_addr = pg]
  OBVIOUS
<1>5. /\ arg_info' = [arg_info EXCEPT ![k] = n]
      /\ UNCHANGED <<flash, saves>>
  BY <1>2, <1>3, <1>4 DEF Commit, StoreInv, StoreTypes
<1>6. PICK ph \in {"erase_old", "finish"} :
        job' = [job EXCEPT !.phase = ph, !.old = a.valid_blk_addr]
  BY <1>2 DEF Commit
<1>7. PICK j : j = job'
  OBVIOUS
<1>8. j.item = k /\ j.copy = job.copy /\ j.phase = ph /\ j # NoJob
  <2>1. j.item = k /\ j.copy = job.copy /\ j.phase = ph
    BY <1>1, <1>2, <1>6, <1>7 DEF Jobs
  <2> QED
    BY <2>1 DEF NoJob
<1>9. n.valid_blk_addr = B /\ n.valid_page_addr = pg /\ n.timestamp = a.timestamp
  BY <1>2, <1>4 DEF Args
<1>10. \A i \in Items : arg_info'[i] = IF i = k THEN n ELSE arg_info[i]
  BY <1>5 DEF StoreInv, StoreTypes
<1>11. ASSUME NEW i \in PageItems, i # k PROVE ItemInv(flash, arg_info'[i], i, saves[i], j)
  <2>1. Idle(job, i) /\ Idle(j, i) /\ i \in Items
    BY <1>2, <1>8, <1>11 DEF Idle, PageItems
  <2>2. ItemInv(flash, arg_info[i], i, saves[i], j)
    BY <2>1, Onlookers
  <2> QED
    BY <1>10, <1>11, <2>1, <2>2
<1>12. ASSUME k \in PageItems PROVE ItemInv(flash, n, k, saves[k], j)
  <2>1. PICK base : base = Base(job, a)
    OBVIOUS
  <2>2. /\ base \in Slots(k) /\ w = arg_pages[k]
        /\ Log(flash, k) /\ BlankFrom(flash, B, base + w) /\ Started(flash, B, k, base, w)
        /\ OpenOnly(flash, B, k) /\ Older(flash, k, a.timestamp + 1)
        /\ job.copy = 0 => a.timestamp < 2 * saves[k]
        /\ saves[k] <= MaxSaves /\ a.timestamp <= 2 * saves[k]
    BY <1>1, <1>2, <1>12, <2>1, CopyPlace
  <2>3. base = pg /\ w > 0
    BY <1>2, <1>3, <2>1, <2>2, SlotFacts DEF Base
  <2>4. NamedTo(flash, B, k, pg + arg_pages[k]) /\ BlankFrom(flash, B, pg + arg_pages[k])
    BY <2>2, <2>3 DEF Started
  <2>5. Work(flash, j, n, saves[k])
    BY <1>8, <1>9, <2>2, <2>4 DEF Work
  <2> QED
    BY <1>8, <1>9, <2>2, <2>5 DEF ItemInv, Idle
<1>13. Pass(flash, j, arg_info'[j.item])
  BY <1>8 DEF Pass
<1>14. \A i \in PageItems : ItemInv(flash, arg_info'[i], i, saves'[i], j)
  BY <1>5, <1>10, <1>11, <1>12
<1> QED
  BY <1>5, <1>7, <1>13, <1>14, LogInvNext

(* The old block is erased.                                                *)
LEMMA EraseOldLog ==
  ASSUME StoreInv, LogInv, EraseOld
  PROVE  LogInv'
<1>1. job \in Jobs /\ job.phase = "erase_old" /\ job # NoJob /\ job.item \in Items
  BY Running DEF EraseOld, StoreInv
<1>2. PICK b \in AllBlocks : b = job.old
  BY <1>1 DEF StoreInv, JobInv
<1>3. PICK g : g = WithBlock(flash, b, [p \in Pages |-> Blank])
  OBVIOUS
<1>4. /\ flash' = g /\ UNCHANGED <<arg_info, saves>> /\ job' = [job EXCEPT !.phase = "finish"]
  BY <1>2, <1>3 DEF EraseOld, WithBlock, SetFlash
<1>5. /\ \A c \in AllBlocks \ {b} : g[c] = flash[c]
      /\ \A i \in Items : Harmless(flash, g, i)
  BY <1>3, ErasedFacts DEF StoreInv, StoreTypes
<1>6. \A i \in PageItems : Valid(i) => Current(i) # b
  BY <1>1, <1>2, OldNotOpen
<1>7. PICK j : j = job'
  OBVIOUS
<1>8. j.item = job.item /\ j.phase = "finish" /\ j.copy = job.copy /\ j # NoJob
  <2>1. j.item = job.item /\ j.phase = "finish" /\ j.copy = job.copy
    BY <1>1, <1>4, <1>7 DEF Jobs
  <2> QED
    BY <2>1 DEF NoJob
<1>9. ASSUME NEW i \in PageItems, i # job.item PROVE ItemInv(g, arg_info[i], i, saves[i], j)
  <2>1. Idle(job, i) /\ Idle(j, i) /\ i \in Items
    BY <1>8, <1>9 DEF Idle, PageItems
  <2> QED
    BY <1>5, <1>6, <2>1, Bystanders
<1>10. ASSUME NEW i \in PageItems, i = job.item PROVE ItemInv(g, arg_info[i], i, saves[i], j)
  <2>1. ItemInv(flash, arg_info[i], i, saves[i], job) /\ ~Idle(job, i) /\ i \in Items
    BY <1>1, <1>10, LogInvNow DEF Idle, PageItems
  <2>2. PICK a \in Args : a = arg_info[i]
    BY <2>1 DEF StoreInv, StoreTypes
  <2>3. /\ Log(flash, i) /\ Older(flash, i, a.timestamp + 1)
        /\ saves[i] <= MaxSaves /\ a.timestamp <= 2 * saves[i]
        /\ Work(flash, job, a, saves[i])
    BY <2>1, <2>2 DEF ItemInv
  <2>4. /\ job.copy = 0 => a.timestamp < 2 * saves[i]
        /\ NamedTo(flash, a.valid_blk_addr, i, a.valid_page_addr + arg_pages[i])
        /\ BlankFrom(flash, a.valid_blk_addr, a.valid_page_addr + arg_pages[i])
        /\ OpenOnly(flash, a.valid_blk_addr, i)
    BY <1>1, <1>10, <2>3 DEF Work
  <2>5. a.timestamp + 1 \in Nat
    BY ConstFacts DEF Args
  <2>6. /\ Log(g, i) /\ Older(g, i, a.timestamp + 1)
        /\ \A c \in ScanBlocks : Open(g, c, i) => Open(flash, c, i)
    BY <1>5, <2>1, <2>3, <2>5 DEF Harmless
  <2>7. g[a.valid_blk_addr] = flash[a.valid_blk_addr]
    <3>1. Owns(i) /\ Current(i) # b
      BY <1>1, <1>2, <1>10, <2>1 DEF StoreInv, JobInv
    <3>2. Current(i) \in AllBlocks
      BY <3>1 DEF Owns, StoreInv, StoreTypes
    <3> QED
      BY <1>5, <2>2, <3>1, <3>2 DEF Current
  <2>8. /\ NamedTo(g, a.valid_blk_addr, i, a.valid_page_addr + arg_pages[i])
        /\ BlankFrom(g, a.valid_blk_addr, a.valid_page_addr + arg_pages[i])
    BY <2>4, <2>7 DEF NamedTo, BlankFrom
  <2>9. OpenOnly(g, a.valid_blk_addr, i)
    BY <2>4, <2>6 DEF OpenOnly
  <2>10. Work(g, j, a, saves[i])
    BY <1>8, <1>10, <2>4, <2>8, <2>9 DEF Work
  <2> QED
    BY <1>8, <1>10, <2>2, <2>3, <2>6, <2>10 DEF ItemInv, Idle
<1>11. Pass(g, j, arg_info'[j.item])
  BY <1>8 DEF Pass
<1> QED
  BY <1>4, <1>7, <1>9, <1>10, <1>11, LogInvNext

(* The erase of the old block fails.                                       *)
LEMMA EraseOldFailsLog ==
  ASSUME StoreInv, LogInv, EraseOldFails
  PROVE  LogInv'
<1>1. job \in Jobs /\ job.phase = "erase_old" /\ job # NoJob /\ job.item \in Items
  BY Running DEF EraseOldFails, StoreInv
<1>2. PICK b \in AllBlocks : b = job.old
  BY <1>1 DEF StoreInv, JobInv
<1>3. UNCHANGED <<arg_info, saves>> /\ (Hang \/ (GiveUp /\ job.boot))
  BY DEF EraseOldFails
<1>4. job.boot => job.item \in FullBlk
  BY <1>1 DEF StoreInv, JobInv
<1>5. \A i \in PageItems : /\ b \in ScanBlocks => ~Open(flash, b, i)
                           /\ Valid(i) => Current(i) # b
  BY <1>1, <1>2, OldNotOpen
<1>6. PICK h \in IF job.boot THEN Tested(b) ELSE HalfErased(b) : SetFlash([flash EXCEPT ![b] = h])
  BY <1>2 DEF EraseOldFails
<1>7. PICK g : g = WithBlock(flash, b, h)
  OBVIOUS
<1>8. flash' = g
  BY <1>6, <1>7 DEF WithBlock, SetFlash
<1>9. /\ \A c \in AllBlocks \ {b} : g[c] = flash[c]
      /\ \A i \in PageItems : Harmless(flash, g, i)
  <2>1. CASE ~job.boot
    <3>1. h \in HalfErased(b)
      BY <1>6, <2>1
    <3> QED
      BY <1>5, <1>7, <3>1, HalfHarmless DEF StoreInv, StoreTypes, PageItems
  <2>2. CASE job.boot
    <3>1. /\ h \in [Pages -> Contents]
          /\ \A p \in Pages : \A k \in Items :
               Named(h[p], k) => Named(flash[b][p], k) \/ k = job.item
      BY <1>1, <1>6, <2>2, TestedFacts DEF StoreInv
    <3>2. \A c \in AllBlocks : g[c] = IF c = b THEN h ELSE flash[c]
      BY <1>7, <3>1, SetBlock DEF StoreInv, StoreTypes
    <3>3. Only(flash, b, job.item)
      BY <1>1, <1>2 DEF StoreInv, JobInv
    <3>4. \A i \in PageItems : i \in Items /\ ~Has(g, b, i)
      BY <1>4, <2>2, <3>1, <3>2, <3>3 DEF Has, Only, PageItems
    <3> QED
      BY <3>2, <3>4, OtherHarmless
  <2> QED
    BY <2>1, <2>2
<1> QED
  BY <1>1, <1>3, <1>4, <1>5, <1>8, <1>9, SpoiltLog

(* The end of a pass.                                                      *)
LEMMA FinishLog ==
  ASSUME StoreInv, LogInv, StampsSuffice, Finish
  PROVE  LogInv'
<1>1. job \in Jobs /\ job.phase = "finish" /\ job # NoJob
  BY Running DEF Finish, StoreInv
<1>2. PICK k \in Items : k = job.item
  BY <1>1 DEF Jobs
<1>3. PICK o \in Args : o = arg_info[k]
  BY DEF StoreInv, StoreTypes
<1>4. PICK a : a = [o EXCEPT !.arg_valid = TRUE,
                      !.update_flag = IF k \in FullBlk THEN @ ELSE FALSE]
  OBVIOUS
<1>5. /\ a \in Args /\ a.arg_valid /\ a.valid_blk_addr = o.valid_blk_addr
      /\ a.valid_page_addr = o.valid_page_addr /\ a.timestamp = o.timestamp
      /\ k \notin FullBlk => ~a.update_flag
  BY <1>3, <1>4 DEF Args
<1>6. flash' = flash /\ saves' = saves /\ FlashOK(flash) /\ saves[k] \in Nat
      /\ o.valid_page_addr \in Slots(k)
  BY <1>3 DEF Finish, StoreInv, StoreTypes
<1> DEFINE more == k \notin FullBlk /\ job.copy = 0
           c == Copy(a, k, job.version, job.boot, 1, job.blk)
<1>7. more => job' = c /\ arg_info' = [arg_info EXCEPT ![k] = Stamp(a)]
  BY <1>2, <1>3, <1>4 DEF Finish
<1>8. ~more => job' = NoJob /\ arg_info' = [arg_info EXCEPT ![k] = a]
  BY <1>2, <1>3, <1>4 DEF Finish
<1>9. c.item = k
  BY DEF Copy
<1> HIDE DEF c
<1>10. \A i \in Items \ {k} : arg_info'[i] = arg_info[i]
  BY <1>7, <1>8 DEF StoreInv, StoreTypes
<1>11. ASSUME NEW i \in PageItems, i # k, NEW j, Idle(j, i)
       PROVE  ItemInv(flash, arg_info'[i], i, saves'[i], j)
  <2>1. Idle(job, i) /\ i \in Items
    BY <1>2, <1>11 DEF Idle, PageItems
  <2>2. ItemInv(flash, arg_info[i], i, saves[i], j)
    BY <1>11, <2>1, Onlookers
  <2> QED
    BY <1>6, <1>10, <1>11, <2>1, <2>2
<1>12. CASE k \in FullBlk
  <2>1. job' = NoJob
    BY <1>8, <1>12
  <2>2. \A i \in PageItems : ItemInv(flash, arg_info'[i], i, saves'[i], NoJob)
    BY <1>11, <1>12 DEF PageItems, Idle
  <2> QED
    BY <1>6, <2>1, <2>2, LogInvNext
<1>13. CASE k \notin FullBlk
  <2>0. k \in PageItems
    BY <1>13 DEF PageItems
  <2> DEFINE e == o.valid_page_addr + arg_pages[k]
             B == o.valid_blk_addr
  <2>1. ItemInv(flash, o, k, saves[k], job) /\ ~Idle(job, k)
    BY <1>1, <1>2, <1>3, <2>0, LogInvNow DEF Idle
  <2>2. /\ Log(flash, k) /\ Older(flash, k, o.timestamp + 1)
        /\ saves[k] <= MaxSaves /\ o.timestamp <= 2 * saves[k] /\ Work(flash, job, o, saves[k])
    BY <2>1 DEF ItemInv
  <2>3. /\ job.copy = 0 => o.timestamp < 2 * saves[k]
        /\ NamedTo(flash, B, k, e) /\ BlankFrom(flash, B, e) /\ OpenOnly(flash, B, k)
    BY <1>1, <1>2, <2>2 DEF Work
  <2>4. arg_pages[k] \in Nat \ {0} /\ o.valid_page_addr \in Nat /\ pages_read \in Nat
    BY <1>3, SlotFacts, ConstFacts DEF Args
  <2>5. e \in Nat /\ (e \in Slots(k) \/ e >= pages_read)
    BY <1>6, <2>4, NextPlace
  <2>6. Appends(a, k) <=> o.valid_page_addr + 2 * arg_pages[k] <= pages_read
    BY <1>5, <1>13 DEF Appends
  <2>7. Accurate(flash, a, k)
    <3>1. CASE Appends(a, k)
      BY <1>5, <2>3, <3>1 DEF Accurate
    <3>2. CASE ~Appends(a, k)
      <4> SUFFICES ASSUME NEW x \in Slots(k), IsOpen(flash, B, k, x) PROVE FALSE
        BY <1>5, <3>2 DEF Accurate, Open
      <4>1. x = e
        BY <2>3, <2>5, OpenUnique
      <4>2. x + arg_pages[k] <= pages_read
        BY DEF IsOpen
      <4>3. o.valid_page_addr + 2 * arg_pages[k] <= pages_read
        BY <2>4, <4>1, <4>2
      <4> QED
        BY <2>6, <3>2, <4>3
    <3> QED
      BY <3>1, <3>2
  <2>8. OneOpen(flash, a, k)
    BY <1>5, <2>3 DEF OneOpen, OpenOnly
  <2>9. CASE more
    <3>1. PICK s \in Args : s = Stamp(a) /\ s.timestamp = a.timestamp + 1
      BY <1>5, <1>6, <2>2, <2>3, <2>9, StampFacts, NextStamp
    <3>2. /\ s.arg_valid = a.arg_valid /\ s.valid_blk_addr = a.valid_blk_addr
          /\ s.valid_page_addr = a.valid_page_addr /\ s.update_flag = a.update_flag
      BY <1>5, <3>1, StampFacts
    <3>3. s.timestamp <= 2 * saves[k]
      <4>1. a.timestamp \in Nat /\ a.timestamp < 2 * saves[k]
        BY <1>5, <2>3, <2>9, ConstFacts DEF Args
      <4> QED
        BY <1>6, <3>1, <4>1
    <3>4. a.valid_page_addr \in Slots(k) /\ Older(flash, k, a.timestamp + 1)
      BY <1>5, <1>6, <2>2
    <3>5. ItemInv(flash, s, k, saves[k], c) /\ Pass(flash, c, s)
      <4>1. PICK n \in Nat : n = saves[k]
        BY <1>6
      <4>2. n <= MaxSaves /\ s.timestamp <= 2 * n /\ Log(flash, k)
        BY <2>2, <3>3, <4>1
      <4>3. PICK y \in {0, 1} : y = 1
        OBVIOUS
      <4>4. PICK v, boot, last : c = Copy(a, k, v, boot, y, last)
        BY <4>3 DEF c
      <4>5. s.timestamp = a.timestamp + 1 /\ (y = 0 => s.timestamp < 2 * n)
        BY <3>1, <4>3
      <4>6. ItemInv(flash, s, k, n, c) /\ Pass(flash, c, s)
        <5> HIDE DEF more, e, B
        <5> QED
          BY <1>5, <1>6, <2>0, <2>7, <2>8, <3>2, <3>4, <4>2, <4>4, <4>5, PassBegins
      <4> QED
        BY <4>1, <4>6
    <3>6. job' = c /\ arg_info'[k] = s
      BY <1>7, <2>9, <3>1 DEF StoreInv, StoreTypes
    <3>7. \A i \in PageItems : ItemInv(flash, arg_info'[i], i, saves'[i], c)
      BY <1>6, <1>9, <1>11, <3>5, <3>6 DEF Idle
    <3>8. Pass(flash, c, arg_info'[c.item])
      BY <1>9, <3>5, <3>6
    <3> QED
      BY <1>6, <3>6, <3>7, <3>8, LogInvNext
  <2>10. CASE ~more
    <3>1. job' = NoJob /\ arg_info'[k] = a
      BY <1>8, <2>10 DEF StoreInv, StoreTypes
    <3>2. ItemInv(flash, a, k, saves[k], NoJob)
      BY <1>5, <2>2, <2>7, <2>8 DEF ItemInv, Idle
    <3>3. \A i \in PageItems : ItemInv(flash, arg_info'[i], i, saves'[i], NoJob)
      BY <1>6, <1>11, <3>1, <3>2 DEF Idle
    <3> QED
      BY <1>6, <3>1, <3>3, LogInvNext
  <2> QED
    BY <2>9, <2>10
<1> QED
  BY <1>12, <1>13

(* Power that fails in any step does no harm to the copies of an item.     *)
LEMMA PowerLossLog ==
  ASSUME StoreInv, LogInv, NEW f \in AfterPowerLoss, NEW i \in PageItems
  PROVE  Harmless(flash, f, i)
<1>1. FlashOK(flash) /\ i \in Items
  BY DEF StoreInv, StoreTypes, PageItems
<1>2. CASE f = flash
  BY <1>2 DEF Harmless
<1>3. CASE job.phase = "write" /\ f = [flash EXCEPT ![job.blk][WritePos(job)] = Torn]
  <2>1. f = WithPage(flash, job.blk, WritePos(job), Torn)
    BY <1>3 DEF WithPage
  <2> QED
    BY <1>3, <2>1, TornWrite
<1>4. CASE job.phase = "alloc" /\ FreeBlock(job) # {}
           /\ f \in {[flash EXCEPT ![Min(FreeBlock(job))] = h] :
                       h \in HalfErased(Min(FreeBlock(job)))}
  <2>1. PICK b \in AllBlocks \ reserved : b = Min(FreeBlock(job))
    BY <1>4, FreeBlockFacts
  <2>2. PICK h \in HalfErased(b) : f = WithBlock(flash, b, h)
    BY <1>4, <2>1 DEF WithBlock
  <2>3. b \in ScanBlocks => ~Open(flash, b, i)
    BY <1>4, FreeNotOpen
  <2> QED
    BY <1>1, <2>2, <2>3, HalfHarmless
<1>5. CASE job.phase = "erase_old"
           /\ f \in {[flash EXCEPT ![job.old] = h] : h \in HalfErased(job.old)}
  <2>1. PICK b : b = job.old
    OBVIOUS
  <2>2. b \in AllBlocks /\ (b \in ScanBlocks => ~Open(flash, b, i))
    BY <1>5, <2>1, OldNotOpen
  <2>3. PICK h \in HalfErased(b) : f = WithBlock(flash, b, h)
    BY <1>5, <2>1 DEF WithBlock
  <2> QED
    BY <1>1, <2>2, <2>3, HalfHarmless
<1> QED
  BY <1>2, <1>3, <1>4, <1>5 DEF AfterPowerLoss

(* A power failure and the boot after it.                                  *)
LEMMA CrashLog ==
  ASSUME StoreInv, LogInv, Crash
  PROVE  LogInv'
<1>1. PICK f \in AfterPowerLoss : SetFlash(f) /\ BootFrom(f)
  BY DEF Crash
<1>2. flash' = f /\ saves' = saves /\ job' = NoJob
      /\ arg_info' = [i \in Items |-> CheckInfo(f, i)]
  BY <1>1 DEF Crash, SetFlash, BootFrom
<1>3. FlashOK(f)
  BY PowerLoss
<1>4. ASSUME NEW i \in PageItems PROVE ItemInv(f, arg_info'[i], i, saves'[i], NoJob)
  <2>1. i \in Items
    BY DEF PageItems
  <2>2. PICK a \in Args, s \in Nat : a = arg_info[i] /\ s = saves[i]
    BY <2>1 DEF StoreInv, StoreTypes
  <2>3. ItemInv(flash, a, i, s, job)
    BY <2>2, LogInvNow
  <2>4. /\ Log(flash, i) /\ Older(flash, i, a.timestamp + 1)
        /\ s <= MaxSaves /\ a.timestamp <= 2 * s
    BY <2>3 DEF ItemInv
  <2>5. PICK n \in Nat : n = a.timestamp
    BY ConstFacts DEF Args
  <2>6. Log(f, i) /\ Older(f, i, n + 1)
    BY <2>4, <2>5, PowerLossLog DEF Harmless
  <2>7. PICK x : x = CheckInfo(f, i)
    OBVIOUS
  <2>8. /\ x.timestamp \in Nat /\ x.timestamp <= n /\ Older(f, i, x.timestamp + 1)
        /\ Accurate(f, x, i) /\ OneOpen(f, x, i)
    BY <1>3, <2>6, <2>7, BootLog
  <2>9. x.timestamp <= 2 * s
    BY <2>2, <2>4, <2>5, <2>8
  <2>10. ItemInv(f, x, i, s, NoJob)
    BY <2>4, <2>6, <2>8, <2>9 DEF ItemInv, Idle
  <2> QED
    BY <1>2, <2>1, <2>2, <2>7, <2>10
<1> QED
  BY <1>2, <1>4, LogInvNext

(* A copy of a FULL_BLK item decays.                                       *)
LEMMA RotLog ==
  ASSUME StoreInv, LogInv, NEW b \in AllBlocks, NEW p \in Pages, Rot(b, p)
  PROVE  LogInv'
<1>1. PICK g : g = WithPage(flash, b, p, Torn)
  OBVIOUS
<1>2. flash' = g /\ job = NoJob /\ UNCHANGED <<arg_info, job, saves>>
  BY <1>1 DEF Rot, WithPage, SetFlash
<1>3. PICK k \in FullBlk : Named(flash[b][p], k)
  BY DEF Rot
<1>4. k \in Items /\ Has(flash, b, k)
  BY <1>3, StoreAssumption DEF Has
<1>5. Only(flash, b, k)
  BY <1>4 DEF StoreInv, OwnInv, Pure
<1>6. /\ FlashOK(g)
      /\ \A d \in AllBlocks : \A q \in Pages :
           g[d][q] = IF d = b /\ q = p THEN Torn ELSE flash[d][q]
  BY <1>1, SetPage, ConstFacts DEF StoreInv, StoreTypes
<1>7. \A c \in AllBlocks \ {b} : g[c] = flash[c]
  <2> SUFFICES ASSUME NEW c \in AllBlocks \ {b} PROVE g[c] = flash[c]
    OBVIOUS
  <2>1. g[c] \in [Pages -> Contents] /\ flash[c] \in [Pages -> Contents]
    BY <1>6 DEF FlashOK, StoreInv, StoreTypes
  <2>2. \A q \in Pages : g[c][q] = flash[c][q]
    BY <1>6
  <2> QED
    BY <2>1, <2>2
<1>8. ASSUME NEW i \in PageItems PROVE ItemInv(g, arg_info[i], i, saves[i], NoJob)
  <2>1. i \in Items /\ i # k
    BY <1>3 DEF PageItems
  <2>2. ~Has(flash, b, i)
    BY <1>5, <2>1 DEF Only
  <2>3. ~Has(g, b, i)
    BY <1>6, <2>1, <2>2, BlankNames DEF Has
  <2>4. Harmless(flash, g, i)
    BY <1>7, <2>1, <2>3, OtherHarmless
  <2>5. Valid(i) => Current(i) # b
    BY <1>4, <2>1 DEF StoreInv, OwnInv, Owns, Only
  <2> QED
    BY <1>2, <1>7, <2>4, <2>5, Bystanders DEF Idle
<1> QED
  BY <1>2, <1>8, LogInvNext

(* Every step keeps LogInv.                                                *)
LEMMA LogInvStep ==
  ASSUME StampsSuffice
  PROVE  StoreInv /\ LogInv /\ [StoreNext]_vars => LogInv'
<1> SUFFICES ASSUME StoreInv, LogInv, [StoreNext]_vars PROVE LogInv'
  OBVIOUS
<1>1. ASSUME NEW i \in Saved, Save(i) PROVE LogInv'
  <2>1. i \in Items /\ saves \in [Items -> Nat]
    BY StoreAssumption DEF StoreInv, StoreTypes
  <2>2. /\ BeginSave(i, saves[i] + 1, FALSE) /\ flash' = flash /\ saves[i] < MaxSaves
        /\ saves' = [saves EXCEPT ![i] = saves[i] + 1]
    BY <1>1 DEF Save
  <2>3. PICK v \in Nat : v = saves[i] + 1
    BY <2>1
  <2>4. saves'[i] = saves[i] + 1 /\ \A k \in PageItems \ {i} : saves'[k] = saves[k]
    BY <2>1, <2>2 DEF PageItems
  <2> QED
    BY <2>1, <2>2, <2>3, <2>4, BeginLog
<1>2. ASSUME NEW i \in FullBlk, Repair(i) PROVE LogInv'
  <2>1. i \in Items /\ found[i] \in Nat /\ i \notin PageItems
    BY StoreAssumption DEF StoreInv, StoreTypes, PageItems
  <2>2. BeginSave(i, found[i], TRUE) /\ flash' = flash /\ saves' = saves
    BY <1>2 DEF Repair
  <2>3. PICK v \in Nat : v = found[i]
    BY <2>1
  <2> QED
    BY <2>1, <2>2, <2>3, BeginLog
<1>3. ASSUME SaveStep PROVE LogInv'
  BY <1>3, FreeLog, EraseFailsLog, NoFreeLog, WriteLog, WriteFailsLog, CommitLog,
     EraseOldLog, EraseOldFailsLog, FinishLog DEF SaveStep
<1>4. ASSUME NEW b \in AllBlocks, NEW p \in Pages, Rot(b, p) PROVE LogInv'
  BY <1>4, RotLog
<1>5. CASE UNCHANGED vars
  <2>1. UNCHANGED <<flash, arg_info, job, saves>>
    BY <1>5 DEF vars
  <2> QED
    BY <2>1 DEF LogInv
<1> QED
  BY <1>1, <1>2, <1>3, <1>4, <1>5, CrashLog DEF StoreNext

(* A chip as U-Boot leaves it has no FULL_PAGE item.                       *)
LEMMA LogInvInit ==
  ASSUME StampsSuffice
  PROVE  StoreInit => LogInv
<1> SUFFICES ASSUME StoreInit PROVE LogInv
  OBVIOUS
<1>1. FlashOK(flash) /\ \A i \in PageItems : \A b \in AllBlocks : ~Has(flash, b, i)
  BY FactoryFacts DEF StoreInit, PageItems
<1>2. /\ arg_info = [i \in Items |-> CheckInfo(flash, i)] /\ job = NoJob
      /\ saves = [i \in Items |-> IF i \in FullBlk THEN 1 ELSE 0]
  BY DEF StoreInit
<1>3. ASSUME NEW i \in PageItems PROVE ItemInv(flash, arg_info[i], i, saves[i], job)
  <2>1. i \in Items /\ saves[i] = 0 /\ arg_info[i] = CheckInfo(flash, i)
    BY <1>2 DEF PageItems
  <2>2. \A b \in ScanBlocks : \A p \in Slots(i) : ~Named(flash[b][p], i)
    BY <1>1, <2>1, SlotFacts, ConstFacts DEF Has
  <2>3. \A b \in ScanBlocks : ~Open(flash, b, i)
    BY <1>1, <2>1, OpenHas, ConstFacts
  <2>4. Holders(flash, i) = {}
    BY <2>2 DEF Holders, FirstReadable
  <2>5. arg_info[i] = Unknown
    BY <2>1, <2>4 DEF CheckInfo
  <2>6. ~arg_info[i].arg_valid /\ arg_info[i].timestamp = 0
    BY <2>5 DEF Unknown
  <2>7. Older(flash, i, arg_info[i].timestamp + 1)
    BY <2>2 DEF Older
  <2>8. Log(flash, i)
    BY <2>2, <2>3 DEF Log, InRow, Clean, Open, Before
  <2>9. Accurate(flash, arg_info[i], i) /\ OneOpen(flash, arg_info[i], i)
    BY <2>3, <2>6 DEF Accurate, OneOpen
  <2>10. saves[i] <= MaxSaves /\ arg_info[i].timestamp <= 2 * saves[i]
    BY <2>1, <2>6 DEF StampsSuffice
  <2> QED
    BY <1>2, <2>7, <2>8, <2>9, <2>10 DEF ItemInv, Idle
<1> QED
  BY <1>2, <1>3 DEF LogInv

(* The page a save programs is erased, whatever the scan at boot had to    *)
(* skip to find it, for any items, geometry and faults, as long as the     *)
(* saves do not use up the timestamps: where a timestamp has come round, a *)
(* boot may take a block half erased since for the newest and append to    *)
(* it.                                                                     *)
THEOREM PagesAreWrittenOnce ==
  ASSUME StampsSuffice
  PROVE  StoreSpec => []NoOverprogram
<1>1. StoreInv /\ LogInv => NoOverprogram
  <2> SUFFICES ASSUME StoreInv, LogInv, job.phase = "write"
               PROVE  flash[job.blk][WritePos(job)] = Blank
    BY DEF NoOverprogram
  <2>1. PICK w \in Pages : w = WritePos(job) /\ BlankFrom(flash, job.blk, w)
    BY WriteInside
  <2>2. w >= w
    BY <2>1, ConstFacts
  <2> QED
    BY <2>1, <2>2 DEF BlankFrom
<1>2. StoreInit => StoreInv /\ LogInv
  BY StoreInvInit, LogInvInit
<1>3. StoreInv /\ LogInv /\ [StoreNext]_vars => (StoreInv /\ LogInv)'
  BY StoreInvStep, LogInvStep
<1> QED
  BY <1>1, <1>2, <1>3, PTL DEF StoreSpec
=============================================================================
