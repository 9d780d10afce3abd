--------------------------- MODULE BlockOpsProofs ---------------------------
(***************************************************************************)
(* Proofs about Layout and BlockOps, for any geometry the assumptions      *)
(* allow, any factory bad blocks and any history of marks, repairs and     *)
(* restarts.                                                               *)
(*                                                                         *)
(* AreaInv is about the layout and the table: PlacedInv (devices lie       *)
(* behind each other in whole units), TableInv (RAM and flash agree on the *)
(* factory bad blocks) and RoomInv (the scan that sized a device found     *)
(* what was asked for). It gives DevicesHaveRoom and AreasAreDisjoint.     *)
(*                                                                         *)
(* StableInv is about restarts: while no row of the devices has both a     *)
(* reserved and a factory bad block (Unmixed), no step changes whether a   *)
(* row counts as factory bad (RowInv), so the table gives the same layout  *)
(* at every start (Built). MarkedInv adds that the marks stay.             *)
(***************************************************************************)
EXTENDS BlockOps, SequenceTheorems, FiniteSetTheorems, WellFoundedInduction,
        TLAPS

-----------------------------------------------------------------------------
(* The geometry: units, the reserved area and the scan for a device.       *)

(* What a division with remainder is.                                      *)
LEMMA DivFacts ==
  ASSUME NEW a \in Int, NEW m \in Nat \ {0}
  PROVE  a \div m \in Int /\ m * (a \div m) <= a /\ a < m * (a \div m) + m
BY Z3

(* The next multiple.                                                      *)
LEMMA NextMultiple ==
  ASSUME NEW m \in Nat, NEW n \in Nat
  PROVE  m * n \in Nat /\ m * (n + 1) = m * n + m
BY Z3

(* Comparing multiples.                                                    *)
LEMMA Cancel ==
  ASSUME NEW a \in Int, NEW b \in Int, NEW m \in Nat \ {0}, m * a < m * b + m
  PROVE  a <= b
<1> SUFFICES ASSUME a >= b + 1 PROVE FALSE
  OBVIOUS
<1>1. PICK d \in Nat : a = b + 1 + d
  <2>1. a - b - 1 \in Nat /\ a = b + 1 + (a - b - 1)
    OBVIOUS
  <2> QED
    BY <2>1
<1>2. m * a = m * b + m + m * d /\ m * d >= 0 /\ m * b \in Int /\ m * d \in Int
  BY <1>1, Z3
<1> QED
  BY <1>2, Z3

(* The quotient is the only number with its property.                      *)
LEMMA DivUnique ==
  ASSUME NEW a \in Int, NEW m \in Nat \ {0}, NEW q \in Int, m * q <= a, a < m * q + m
  PROVE  a \div m = q
<1>1. a \div m \in Int /\ m * (a \div m) <= a /\ a < m * (a \div m) + m
  BY DivFacts
<1> DEFINE p == a \div m
<1> HIDE DEF p
<1>2. m * p \in Int /\ m * q \in Int /\ p \in Int
  BY <1>1, Z3 DEF p
<1>3. m * p < m * q + m /\ m * q < m * p + m
  BY <1>1, <1>2 DEF p
<1>4. p <= q /\ q <= p
  BY <1>2, <1>3, Cancel
<1> QED
  BY <1>2, <1>4 DEF p

(* A set of natural numbers that is not empty has its minimum.             *)
LEMMA MinNat ==
  ASSUME NEW T \in SUBSET Nat, T # {}
  PROVE  Min(T) \in T /\ \A y \in T : Min(T) <= y
<1>1. PICK x \in T : \A y \in T : ~(<<y, x>> \in OpToRel(<, Nat))
  BY NatLessThanWellFounded, WFMin
<1>2. \A y \in T : x <= y
  <2> SUFFICES ASSUME NEW y \in T PROVE x <= y
    OBVIOUS
  <2>1. x \in Nat /\ y \in Nat
    OBVIOUS
  <2> DEFINE R == OpToRel(<, Nat)
  <2>2. y < x => <<y, x>> \in R
    BY <2>1 DEF OpToRel
  <2>3. ~(<<y, x>> \in R)
    BY <1>1
  <2> HIDE DEF R
  <2> QED
    BY <2>1, <2>2, <2>3
<1>3. \E z \in T : \A y \in T : z <= y
  BY <1>2
<1> QED
  BY <1>3 DEF Min

(* The blocks a scan has passed are finitely many.                         *)
LEMMA PassedFinite ==
  ASSUME NEW bad, NEW from \in Int, NEW m \in Int
  PROVE  IsFiniteSet((from..m - 1) \ bad) /\ Cardinality((from..m - 1) \ bad) \in Nat
BY FS_Interval, FS_Difference, FS_CardinalityType, m - 1 \in Int

(* A part of an interval is finite.                                        *)
LEMMA SubInterval ==
  ASSUME NEW a \in Int, NEW b \in Int, NEW S, S \subseteq a..b
  PROVE  IsFiniteSet(S)
<1>1. IsFiniteSet(a..b)
  BY FS_Interval
<1> QED
  BY <1>1, FS_Subset

(* The size of an interval.                                                *)
LEMMA IntervalSize ==
  ASSUME NEW a \in Nat, NEW b \in Nat, a <= b
  PROVE  IsFiniteSet(a..b - 1) /\ Cardinality(a..b - 1) = b - a
<1>1. b - 1 \in Int /\ a \in Int
  OBVIOUS
<1>2. /\ IsFiniteSet(a..b - 1)
      /\ Cardinality(a..b - 1) = IF a > b - 1 THEN 0 ELSE (b - 1) - a + 1
  BY <1>1, FS_Interval
<1>3. (IF a > b - 1 THEN 0 ELSE (b - 1) - a + 1) = b - a
  OBVIOUS
<1> QED
  BY <1>2, <1>3

(* A scan for count blocks that are not in bad ends behind the first place *)
(* that has them, and exactly them, behind its start.                      *)
LEMMA ScanEndFacts ==
  ASSUME NEW bad, IsFiniteSet(bad), NEW from \in Nat, NEW count \in Nat
  PROVE  /\ ScanEnd(bad, from, count) \in Nat
         /\ ScanEnd(bad, from, count) >= from + count
         /\ Cardinality((from..ScanEnd(bad, from, count) - 1) \ bad) = count
         /\ \A m \in Nat : m >= from /\ Cardinality((from..m - 1) \ bad) = count
              => ScanEnd(bad, from, count) <= m
<1> DEFINE C(m) == Cardinality((from..m - 1) \ bad)
           N == from + count + Cardinality(bad)
           T == {m \in from..N : C(m) >= count}
           S == {m \in from..N : C(m) = count}
           x == Min(T)
<1>1. Cardinality(bad) \in Nat /\ N \in Nat /\ N >= from
  BY FS_CardinalityType
<1>2. \A m \in Int : C(m) \in Nat /\ IsFiniteSet((from..m - 1) \ bad)
  <2> SUFFICES ASSUME NEW m \in Int
               PROVE  C(m) \in Nat /\ IsFiniteSet((from..m - 1) \ bad)
    OBVIOUS
  <2> QED
    BY PassedFinite, from \in Int
<1>3. N \in T
  <2>1. /\ IsFiniteSet(from..N - 1)
        /\ Cardinality(from..N - 1) = count + Cardinality(bad)
    <3>1. N - from = count + Cardinality(bad)
      BY <1>1
    <3> QED
      BY <1>1, <3>1, IntervalSize
  <2>2. /\ C(N) = Cardinality(from..N - 1) - Cardinality((from..N - 1) \cap bad)
        /\ Cardinality((from..N - 1) \cap bad) <= Cardinality(bad)
        /\ Cardinality((from..N - 1) \cap bad) \in Nat
    BY <2>1, FS_Difference, FS_Intersection, FS_CardinalityType
  <2> HIDE DEF C, N
  <2>3. C(N) >= count
    BY <1>1, <2>1, <2>2
  <2> QED
    BY <1>1, <2>3
<1> HIDE DEF N
<1>4. T \in SUBSET Nat /\ S \in SUBSET Nat
  BY <1>1
<1>5. x \in T /\ \A y \in T : x <= y
  BY <1>3, <1>4, MinNat
<1>6. x \in Nat /\ x >= from /\ x <= N /\ C(x) >= count /\ C(x) \in Nat
  <2>1. x \in from..N /\ C(x) >= count
    BY <1>5
  <2> HIDE DEF C, x
  <2>2. x \in Int
    BY <2>1
  <2>3. C(x) \in Nat
    BY <1>2, <2>2
  <2> QED
    BY <1>1, <2>1, <2>2, <2>3
<1> HIDE DEF x
<1>7. C(x) <= count
  <2>1. CASE x = from
    <3>1. from..x - 1 = {}
      BY <2>1
    <3>2. C(x) = 0
      BY <3>1, FS_EmptySet, Zenon
    <3> QED
      BY <3>2
  <2>2. CASE x # from
    <3>1. x - 1 \in from..N /\ x - 1 \in Int /\ ~(x <= x - 1)
      BY <1>1, <1>6, <2>2
    <3>2. C(x - 1) < count
      <4>1. x - 1 \notin T
        BY <1>5, <3>1
      <4>2. ~(C(x - 1) >= count) /\ C(x - 1) \in Nat
        BY <1>2, <3>1, <4>1
      <4> HIDE DEF C
      <4> QED
        BY <4>2
    <3> DEFINE A == (from..(x - 1) - 1) \ bad
    <3>3. (from..x - 1) \ bad \subseteq A \cup {x - 1}
      BY <1>6
    <3>4. IsFiniteSet(A) /\ Cardinality(A) = C(x - 1) /\ C(x - 1) \in Nat
      BY <1>2, <3>1
    <3> HIDE DEF A
    <3>5. IsFiniteSet(A \cup {x - 1}) /\ Cardinality(A \cup {x - 1}) \in Nat
          /\ Cardinality(A \cup {x - 1}) <= Cardinality(A) + 1
      BY <3>4, FS_AddElement, FS_CardinalityType
    <3>6. C(x) <= Cardinality(A \cup {x - 1})
      BY <3>3, <3>5, FS_Subset
    <3> HIDE DEF C
    <3> QED
      BY <1>6, <3>2, <3>4, <3>5, <3>6
  <2> QED
    BY <2>1, <2>2
<1>8. x \in S
  <2> HIDE DEF C
  <2>1. C(x) = count /\ x \in from..N
    BY <1>1, <1>6, <1>7
  <2> QED
    BY <2>1
<1>9. Min(S) \in S /\ \A y \in S : Min(S) <= y
  BY <1>4, <1>8, MinNat
<1> DEFINE e == ScanEnd(bad, from, count)
<1>10. e = Min(S)
  BY DEF ScanEnd, N
<1> HIDE DEF e
<1>11. e \in from..N /\ C(e) = count /\ \A y \in S : e <= y
  BY <1>9, <1>10
<1> HIDE DEF C
<1>12. e \in Nat /\ e >= from /\ e <= N
  BY <1>1, <1>11
<1>13. ASSUME NEW m \in Nat, m >= from, C(m) = count PROVE e <= m
  <2>1. CASE m <= N
    BY <1>1, <1>11, <1>13, <2>1
  <2>2. CASE ~(m <= N)
    BY <1>1, <1>12, <2>2
  <2> QED
    BY <2>1, <2>2
<1>14. e >= from + count
  <2>1. IsFiniteSet(from..e - 1) /\ Cardinality(from..e - 1) = e - from
    BY <1>12, IntervalSize
  <2>2. C(e) <= Cardinality(from..e - 1)
    BY <2>1, FS_Subset, (from..e - 1) \ bad \in SUBSET (from..e - 1) DEF C
  <2> QED
    BY <1>11, <1>12, <2>1, <2>2
<1> QED
  BY <1>11, <1>12, <1>13, <1>14 DEF C, e

(* Rounding up to a multiple.                                              *)
LEMMA RoundUpFacts ==
  ASSUME NEW n \in Nat, NEW m \in Nat \ {0}
  PROVE  \E r \in Nat : /\ RoundUp(n, m) = m * r
                        /\ n <= m * r /\ m * r < n + m
<1> DEFINE q == (n - 1) \div m
<1>1. n - 1 \in Int
  OBVIOUS
<1>2. q \in Int /\ m * q <= n - 1 /\ n - 1 < m * q + m
  BY <1>1, DivFacts
<1>3. RoundUp(n, m) = (q + 1) * m
  BY DEF RoundUp
<1> HIDE DEF q
<1>4. (q + 1) * m = m * (q + 1) /\ m * (q + 1) = m * q + m /\ m * q \in Int
  BY <1>2, Z3
<1>5. q + 1 \in Nat
  <2>1. m * (-1) = -m
    BY Z3
  <2>2. m * (-1) < m * q + m
    BY <1>2, <1>4, <2>1
  <2>3. -1 <= q
    BY <1>2, <2>2, Cancel
  <2> QED
    BY <1>2, <2>3
<1> QED
  BY <1>2, <1>3, <1>4, <1>5

(* Rounding up keeps the order.                                            *)
LEMMA RoundUpMono ==
  ASSUME NEW a \in Nat, NEW b \in Nat, a <= b, NEW m \in Nat \ {0}
  PROVE  RoundUp(a, m) <= RoundUp(b, m)
<1>1. PICK r \in Nat : RoundUp(a, m) = m * r /\ m * r < a + m
  BY RoundUpFacts
<1>2. PICK s \in Nat : RoundUp(b, m) = m * s /\ b <= m * s
  BY RoundUpFacts
<1>3. m * r \in Int /\ m * s \in Int
  BY Z3
<1>4. m * r < m * s + m
  BY <1>1, <1>2, <1>3
<1>5. r <= s
  BY <1>4, Cancel
<1>6. m * r <= m * s
  BY <1>5, Z3
<1> QED
  BY <1>1, <1>2, <1>6

(* n is a number of whole units.                                           *)
Whole(n) == \E r \in Nat : n = Unit * r

(* The units for a number of chips the constants allow; the boot area is a *)
(* number of whole units.                                                  *)
LEMMA UnitType ==
  ASSUME chip_num \in ChipNums
  PROVE  /\ chip_num \in Nat \ {0} /\ PlaneNum \in {1, 2} /\ Unit \in Nat \ {0}
         /\ BlkNum \in Nat \ {0} /\ BootBlks \in Nat \ {0}
         /\ ReservedCnt \in Nat \ {0} /\ ChipSize \in Nat
         /\ \E q \in Nat : BootBlks = Unit * q
<1>1. /\ chip_num \in Nat \ {0} /\ PlaneNum \in {1, 2} /\ BlkNum \in Nat \ {0}
      /\ BootBlks \in Nat \ {0} /\ ReservedCnt \in Nat \ {0}
      /\ BootBlks % (chip_num * PlaneNum) = 0
  BY LayoutAssumption
<1>2. Unit \in Nat \ {0}
  BY <1>1, Z3 DEF Unit
<1>3. ChipSize \in Nat
  BY <1>1, Z3 DEF ChipSize
<1>4. BootBlks % Unit = 0
  BY <1>1 DEF Unit
<1> DEFINE q == BootBlks \div Unit
<1>5. q \in Nat /\ BootBlks = Unit * q
  BY <1>1, <1>2, <1>4, Z3
<1> QED
  BY <1>1, <1>2, <1>3, <1>5

(* Sums of whole units are whole units.                                    *)
LEMMA WholeSum ==
  ASSUME chip_num \in ChipNums, NEW a, NEW b, Whole(a), Whole(b)
  PROVE  Whole(a + b) /\ a \in Nat
<1>1. PICK r \in Nat : a = Unit * r
  BY DEF Whole
<1>2. PICK s \in Nat : b = Unit * s
  BY DEF Whole
<1>3. Unit \in Nat
  BY UnitType
<1>4. Unit * r + Unit * s = Unit * (r + s) /\ r + s \in Nat /\ Unit * r \in Nat
  BY <1>3, Z3
<1> QED
  BY <1>1, <1>2, <1>4 DEF Whole

(* The first device starts at a whole unit behind the boot blocks of every *)
(* chip; this is where BootAssumption is used.                             *)
LEMMA FirstOffsetFacts ==
  ASSUME chip_num \in ChipNums
  PROVE  /\ FirstOffset \in Nat /\ Whole(FirstOffset)
         /\ FirstOffset > BootBlks
         /\ BootBlks * chip_num <= FirstOffset
<1> DEFINE bad == {n \in 0..ChipSize : GetBlockStatus(ScanAddr(n)) = "factory_bad"}
           e == ScanEnd(bad, 0, ReservedCnt)
<1>1. /\ chip_num \in Nat \ {0} /\ Unit \in Nat \ {0} /\ BootBlks \in Nat \ {0}
      /\ ReservedCnt \in Nat \ {0} /\ ChipSize \in Nat /\ Whole(BootBlks)
  BY UnitType DEF Whole
<1>2. IsFiniteSet(bad)
  BY <1>1, SubInterval, bad \subseteq 0..ChipSize
<1>3. FirstOffset = RoundUp(e, Unit) + BootBlks
  BY DEF FirstOffset
<1> HIDE DEF bad
<1>4. e \in Nat /\ e >= ReservedCnt
  <2>1. e \in Nat /\ e >= 0 + ReservedCnt
    BY <1>1, <1>2, ScanEndFacts, 0 \in Nat, ReservedCnt \in Nat
  <2> QED
    BY <1>1, <2>1
<1> HIDE DEF e
<1>5. /\ Whole(RoundUp(e, Unit)) /\ e <= RoundUp(e, Unit)
      /\ Whole(RoundUp(ReservedCnt, Unit))
  <2>1. PICK r \in Nat : RoundUp(e, Unit) = Unit * r /\ e <= Unit * r
    BY <1>1, <1>4, RoundUpFacts
  <2>2. PICK s \in Nat : RoundUp(ReservedCnt, Unit) = Unit * s
    BY <1>1, RoundUpFacts
  <2> QED
    BY <2>1, <2>2 DEF Whole
<1>6. /\ RoundUp(e, Unit) \in Nat /\ RoundUp(ReservedCnt, Unit) \in Nat
      /\ Whole(RoundUp(e, Unit) + BootBlks)
  BY <1>1, <1>5, WholeSum
<1>7. RoundUp(ReservedCnt, Unit) <= RoundUp(e, Unit)
  BY <1>1, <1>4, RoundUpMono
<1>8. BootBlks * (chip_num - 1) <= RoundUp(ReservedCnt, Unit)
  BY BootAssumption DEF Unit
<1>9. BootBlks * chip_num = BootBlks * (chip_num - 1) + BootBlks
      /\ BootBlks * (chip_num - 1) \in Nat
  BY <1>1, Z3
<1> QED
  BY <1>1, <1>3, <1>4, <1>5, <1>6, <1>7, <1>8, <1>9

(* A device asks for a number of units.                                    *)
LEMMA AskedType ==
  ASSUME chip_num \in ChipNums, NEW size \in Nat
  PROVE  Asked(size) \in Nat
<1>1. Unit \in Nat \ {0} /\ AdjustPart \in Nat \ {0} /\ AdjustNum \in Nat \ {0}
  BY UnitType, LayoutAssumption
<1> DEFINE t == size \div Unit
           p == (t + AdjustPart - 1) \div AdjustPart
<1>2. t \in Nat
  BY <1>1, Z3
<1> HIDE DEF t
<1>3. p \in Nat
  <2>1. t + AdjustPart - 1 \in Nat
    BY <1>1, <1>2
  <2> QED
    BY <1>1, <2>1, Z3
<1>4. Asked(size) = t + p + AdjustNum
  BY DEF Asked, t
<1> HIDE DEF p
<1> QED
  BY <1>1, <1>2, <1>3, <1>4

(* The size calculated for a device (phydev's scan over the table) is      *)
(* whole units, as many as the scan passed, and the scan passed as many    *)
(* good ones as were asked for.                                            *)
LEMMA SizeForFacts ==
  ASSUME chip_num \in ChipNums, NEW from \in Nat, NEW size \in Nat
  PROVE  \E w \in Nat, end \in Nat :
           /\ SizeFor(Unit * from, size) = Unit * w
           /\ end >= from /\ w >= end - from
           /\ Cardinality((from..end - 1) \ FactoryBadRows) = Asked(size)
<1> DEFINE o == Unit * from
           bad == FactoryBadRows \ (0..from - 1)
           e == ScanEnd(bad, from, Asked(size))
           x == (o - (o % Wrap)) \div Unit
           n == e - from + x
<1>1. Unit \in Nat \ {0} /\ BlkNum \in Nat \ {0} /\ Wrap \in Nat \ {0}
  BY UnitType, LayoutAssumption
<1>2. o \in Nat
  BY <1>1, Z3
<1>3. o \div Unit = from
  <2>1. o \in Int /\ o = Unit * from /\ Unit * from < Unit * from + Unit
    BY <1>1, <1>2
  <2> HIDE DEF o
  <2> QED
    BY <1>1, <2>1, DivUnique
<1>4. x \in Nat
  <2> HIDE DEF o
  <2>1. o % Wrap \in Nat /\ o % Wrap <= o
    BY <1>1, <1>2, Z3
  <2>2. o - (o % Wrap) \in Nat
    BY <1>2, <2>1
  <2> QED
    BY <1>1, <2>2, Z3
<1>5. SizeFor(o, size) = RoundUp(n, Unit) * Unit
  BY <1>3 DEF SizeFor
<1>6. IsFiniteSet(bad)
  BY <1>1, SubInterval, bad \subseteq 0..BlkNum DEF FactoryBadRows
<1>7. (from..e - 1) \ bad = (from..e - 1) \ FactoryBadRows
  OBVIOUS
<1> HIDE DEF bad
<1>8. e \in Nat /\ e >= from + Asked(size)
      /\ Cardinality((from..e - 1) \ bad) = Asked(size)
  BY <1>6, AskedType, ScanEndFacts
<1>9. Asked(size) \in Nat
  BY AskedType
<1> HIDE DEF o, e, x
<1>10. n \in Nat /\ n >= e - from /\ e >= from
  BY <1>4, <1>8, <1>9
<1> HIDE DEF n
<1>11. PICK r \in Nat : RoundUp(n, Unit) = Unit * r /\ n <= Unit * r
  BY <1>1, <1>10, RoundUpFacts
<1> DEFINE w == Unit * r
<1>12. w \in Nat /\ w * Unit = Unit * w
  BY <1>1, Z3
<1>13. SizeFor(o, size) = Unit * w /\ w >= n
  BY <1>5, <1>11, <1>12
<1> HIDE DEF w
<1>14. w >= e - from
  BY <1>8, <1>10, <1>12, <1>13
<1> QED
  BY <1>7, <1>8, <1>10, <1>12, <1>13, <1>14 DEF o

(* The blocks of a row, chip by chip.                                      *)
LEMMA RowBlocks ==
  ASSUME chip_num \in ChipNums, NEW row \in Nat, NEW a \in SetOf(UnitBlocks(row))
  PROVE  \E c \in 0..chip_num - 1, b \in Nat :
           a = <<c, b>> /\ PlaneNum * row <= b /\ b < PlaneNum * row + PlaneNum
<1>1. chip_num \in Nat \ {0} /\ PlaneNum \in {1, 2} /\ Unit \in Nat \ {0}
  BY UnitType
<1>2. PICK k \in 1..Unit : a = <<(k - 1) \div PlaneNum,
                                PlaneNum * row + ((k - 1) % PlaneNum)>>
  BY DEF SetOf, UnitBlocks
<1> DEFINE c == (k - 1) \div PlaneNum
           b == PlaneNum * row + ((k - 1) % PlaneNum)
<1>3. c \in 0..chip_num - 1 /\ b \in Nat /\ PlaneNum * row <= b
      /\ b < PlaneNum * row + PlaneNum
  <2>1. CASE PlaneNum = 1
    BY <1>1, <2>1, Z3 DEF Unit
  <2>2. CASE PlaneNum = 2
    BY <1>1, <2>2, Z3 DEF Unit
  <2> QED
    BY <1>1, <2>1, <2>2
<1> QED
  BY <1>2, <1>3

(* The row of a unit: the row its device starts at plus its number.        *)
LEMMA RowOf ==
  ASSUME chip_num \in ChipNums, NEW d, NEW r \in Nat, NEW u \in Nat,
         devs[d].offset = Unit * r
  PROVE  Row(d, u) = r + u
<1>1. Unit \in Nat \ {0}
  BY UnitType
<1>2. /\ Unit * (r + u) = Unit * r + u * Unit /\ Unit * (r + u) \in Int
      /\ Unit * (r + u) < Unit * (r + u) + Unit
  BY <1>1, Z3
<1>3. (Unit * (r + u)) \div Unit = r + u
  BY <1>1, <1>2, DivUnique, r + u \in Int
<1> QED
  BY <1>2, <1>3 DEF Row

(* The units of a device fit in its size.                                  *)
LEMMA UnitsOf ==
  ASSUME chip_num \in ChipNums, NEW d, devs[d].size \in Nat
  PROVE  Units(d) \in Nat /\ Unit * Units(d) <= devs[d].size
<1>1. Unit \in Nat \ {0}
  BY UnitType
<1> DEFINE s == devs[d].size
<1> HIDE DEF s
<1>2. s \in Nat => s \div Unit \in Nat /\ Unit * (s \div Unit) <= s
  BY <1>1, Z3
<1> QED
  BY <1>2 DEF Units, s

(* The layout as far as it is built: devices start at whole units, follow  *)
(* each other without overlap, lie behind the boot area and end on the     *)
(* chip; the boot area is the first of them.                               *)
PlacedInv ==
  /\ chip_num \in ChipNums
  /\ config \in Configs
  /\ phase \in {"repair", "unread", "layout", "up", "failed"}
  /\ phase \in {"repair", "unread"} => devs = <<BootDevice>>
  /\ devs \in Seq([offset : Nat, size : Nat])
  /\ Len(devs) >= 1 /\ devs[1] = BootDevice
  /\ phase # "up" => Len(devs) <= Len(config) + 1
  /\ phase = "up" => Len(devs) = Len(config) + 2
  /\ \A d \in 2..Len(devs) :
       /\ Whole(devs[d].offset)
       /\ devs[d].offset + devs[d].size <= ChipSize
       /\ BootBlks * chip_num <= devs[d].offset
       /\ phase # "up" => Whole(devs[d].size)
  /\ \A d, e \in 2..Len(devs) :
       d < e => devs[d].offset + devs[d].size <= devs[e].offset

(* Offset and size of a device are numbers.                                *)
LEMMA DeviceType ==
  ASSUME PlacedInv, NEW d \in 1..Len(devs)
  PROVE  devs[d].offset \in Nat /\ devs[d].size \in Nat
<1>1. devs \in Seq([offset : Nat, size : Nat])
  BY DEF PlacedInv
<1>2. devs[d] \in [offset : Nat, size : Nat]
  BY <1>1, ElementOfSeq
<1> QED
  BY <1>2

(* What the invariant says of one device.                                  *)
LEMMA DevicePlaced ==
  ASSUME PlacedInv, NEW d \in 2..Len(devs)
  PROVE  /\ chip_num \in ChipNums /\ Whole(devs[d].offset)
         /\ devs[d].offset \in Nat /\ devs[d].size \in Nat
         /\ devs[d].offset + devs[d].size <= ChipSize
         /\ BootBlks * chip_num <= devs[d].offset
<1>1. d \in 1..Len(devs)
  OBVIOUS
<1>2. devs[d].offset \in Nat /\ devs[d].size \in Nat
  BY <1>1, DeviceType
<1> QED
  BY <1>2 DEF PlacedInv

(* The row of a unit of a device lies within the device.                   *)
LEMMA RowInDevice ==
  ASSUME PlacedInv, NEW d \in 2..Len(devs), NEW u \in 0..Units(d) - 1
  PROVE  /\ Row(d, u) \in Nat
         /\ devs[d].offset <= Unit * Row(d, u)
         /\ Unit * Row(d, u) + Unit <= devs[d].offset + devs[d].size
<1>1. /\ chip_num \in ChipNums /\ Whole(devs[d].offset) /\ devs[d].size \in Nat
      /\ devs[d].offset \in Nat
  BY DevicePlaced
<1>2. Unit \in Nat \ {0}
  BY <1>1, UnitType
<1>3. PICK r \in Nat : devs[d].offset = Unit * r
  BY <1>1 DEF Whole
<1>4. Units(d) \in Nat /\ Unit * Units(d) <= devs[d].size
  BY <1>1, UnitsOf
<1>5. u \in Nat /\ u + 1 <= Units(d)
  BY <1>4
<1>6. Row(d, u) = r + u
  BY <1>1, <1>3, <1>5, RowOf
<1> DEFINE n == Units(d)
<1> HIDE DEF n
<1>7. Unit * (u + 1) <= Unit * n
  BY <1>2, <1>4, <1>5, Z3 DEF n
<1>8. Unit * (r + u) + Unit = Unit * r + Unit * (u + 1) /\ Unit * r <= Unit * (r + u)
      /\ Unit * (u + 1) \in Nat /\ Unit * r \in Nat /\ Unit * n \in Nat
  BY <1>2, <1>4, <1>5, Z3 DEF n
<1>9. Unit * (r + u) + Unit <= devs[d].offset + devs[d].size
  BY <1>1, <1>3, <1>4, <1>7, <1>8 DEF n
<1> QED
  BY <1>3, <1>5, <1>6, <1>8, <1>9

(* Its blocks are on the chips, outside the boot area.                     *)
LEMMA AreaOnChip ==
  ASSUME PlacedInv, NEW d \in 2..Len(devs), NEW u \in 0..Units(d) - 1,
         NEW a \in SetOf(UnitBlocks(Row(d, u)))
  PROVE  a \in Addresses /\ a \notin BootArea
<1> DEFINE row == Row(d, u)
<1>1. /\ chip_num \in Nat \ {0} /\ PlaneNum \in {1, 2} /\ BlkNum \in Nat \ {0}
      /\ BootBlks \in Nat \ {0} /\ chip_num \in ChipNums
  BY UnitType DEF PlacedInv
<1>2. /\ row \in Nat /\ BootBlks * chip_num <= Unit * row
      /\ Unit * row + Unit <= ChipSize
  <2>1. /\ devs[d].offset \in Nat /\ devs[d].size \in Nat
        /\ devs[d].offset + devs[d].size <= ChipSize
        /\ BootBlks * chip_num <= devs[d].offset
    BY DevicePlaced
  <2>2. /\ row \in Nat /\ devs[d].offset <= Unit * row
        /\ Unit * row + Unit <= devs[d].offset + devs[d].size
    BY RowInDevice
  <2> HIDE DEF row
  <2>3. Unit * row \in Nat /\ ChipSize \in Nat /\ BootBlks * chip_num \in Nat
        /\ Unit \in Nat
    BY <1>1, <2>2, UnitType, Z3
  <2> QED
    BY <2>1, <2>2, <2>3
<1>3. PICK c \in 0..chip_num - 1, b \in Nat :
        a = <<c, b>> /\ PlaneNum * row <= b /\ b < PlaneNum * row + PlaneNum
  BY <1>1, <1>2, RowBlocks
<1> HIDE DEF row
<1>4. BootBlks <= PlaneNum * row
  <2>1. chip_num * BootBlks < chip_num * (PlaneNum * row) + chip_num
    BY <1>1, <1>2, Z3 DEF Unit
  <2> QED
    BY <1>1, <1>2, <2>1, Cancel, PlaneNum * row \in Int
<1>5. PlaneNum * row + PlaneNum <= BlkNum
  <2>1. chip_num * (PlaneNum * row + PlaneNum) < chip_num * BlkNum + chip_num
    BY <1>1, <1>2, Z3 DEF Unit, ChipSize
  <2> QED
    BY <1>1, <1>2, <2>1, Cancel, PlaneNum * row + PlaneNum \in Int
<1>6. PlaneNum * row \in Nat
  BY <1>1, <1>2
<1>7. b \in 0..BlkNum - 1 /\ ~(b <= BootBlks - 1)
  BY <1>1, <1>3, <1>4, <1>5, <1>6
<1>8. a \in Addresses
  BY <1>3, <1>7 DEF Addresses, Chips
<1>9. a \notin BootArea
  BY <1>3, <1>7 DEF BootArea
<1> QED
  BY <1>8, <1>9

(* Devices with different places have different blocks.                    *)
LEMMA AreasApart ==
  ASSUME PlacedInv, NEW d \in 2..Len(devs), NEW e \in 2..Len(devs), d < e
  PROVE  DevArea(d) \intersect DevArea(e) = {}
<1> SUFFICES ASSUME NEW u \in 0..Units(d) - 1, NEW v \in 0..Units(e) - 1,
                    NEW a, a \in SetOf(UnitBlocks(Row(d, u))),
                    a \in SetOf(UnitBlocks(Row(e, v)))
             PROVE  FALSE
  BY DEF DevArea
<1>1. /\ chip_num \in ChipNums /\ devs[d].offset + devs[d].size <= devs[e].offset
      /\ devs[d].offset \in Nat /\ devs[d].size \in Nat /\ devs[e].offset \in Nat
  BY DevicePlaced DEF PlacedInv
<1>2. PlaneNum \in {1, 2} /\ Unit \in Nat \ {0}
  BY <1>1, UnitType
<1> DEFINE r == Row(d, u)
           s == Row(e, v)
<1>3. /\ r \in Nat /\ s \in Nat /\ devs[e].offset <= Unit * s
      /\ Unit * r + Unit <= devs[d].offset + devs[d].size
  BY RowInDevice
<1>4. PICK b \in Nat : b < PlaneNum * r + PlaneNum /\ a[2] = b
  BY <1>1, <1>3, RowBlocks
<1>5. PICK c \in Nat : PlaneNum * s <= c /\ a[2] = c
  BY <1>1, <1>3, RowBlocks
<1> HIDE DEF r, s
<1>6. Unit * r \in Nat /\ Unit * s \in Nat /\ Unit * (r + 1) = Unit * r + Unit
  BY <1>2, <1>3, NextMultiple
<1>7. Unit * (r + 1) < Unit * s + Unit
  <2> DEFINE x == Unit * r
             y == Unit * s
             o == devs[d].offset
             z == devs[d].size
             p == devs[e].offset
  <2>1. /\ x \in Nat /\ y \in Nat /\ o \in Nat /\ z \in Nat /\ p \in Nat
        /\ o + z <= p /\ p <= y /\ x + Unit <= o + z /\ Unit * (r + 1) = x + Unit
    BY <1>1, <1>3, <1>6
  <2> HIDE DEF x, y, o, z, p
  <2>2. x + Unit < y + Unit
    BY <1>2, <2>1
  <2> QED
    BY <2>1, <2>2 DEF y
<1>8. r + 1 <= s
  <2>1. r + 1 \in Int /\ s \in Int
    BY <1>3
  <2> QED
    BY <1>2, <1>7, <2>1, Cancel
<1>9. PlaneNum * r + PlaneNum <= PlaneNum * s
  BY <1>2, <1>3, <1>8
<1> QED
  BY <1>2, <1>3, <1>4, <1>5, <1>9

-----------------------------------------------------------------------------
(* A device placed by the build of the layout.                             *)

(* Appending one element.                                                  *)
LEMMA Appended ==
  ASSUME NEW S, NEW s \in Seq(S), NEW x \in S
  PROVE  /\ Append(s, x) \in Seq(S) /\ Len(Append(s, x)) = Len(s) + 1
         /\ Append(s, x)[Len(s) + 1] = x
         /\ \A i \in 1..Len(s) : Append(s, x)[i] = s[i]
<1>1. Len(s) \in Nat
  OBVIOUS
<1> QED
  BY <1>1, AppendProperties

(* A device behind the first one.                                          *)
LEMMA PastFirst ==
  ASSUME NEW n \in Nat, n >= 1, n # 1
  PROVE  n \in 2..n
OBVIOUS

(* The next device starts at a whole unit behind the ones that exist.      *)
LEMMA NextOffsetFacts ==
  ASSUME PlacedInv, phase # "up"
  PROVE  /\ NextOffset \in Nat /\ Whole(NextOffset)
         /\ BootBlks * chip_num <= NextOffset
         /\ \A d \in 2..Len(devs) : devs[d].offset + devs[d].size <= NextOffset
         /\ Len(devs) = 1 => NextOffset > BootBlks
<1>1. Len(devs) \in Nat /\ Len(devs) >= 1 /\ chip_num \in ChipNums
  BY DEF PlacedInv
<1>2. CASE Len(devs) = 1
  <2>1. NextOffset = FirstOffset /\ 2..Len(devs) = {}
    BY <1>2 DEF NextOffset
  <2> QED
    BY <1>1, <2>1, FirstOffsetFacts
<1>3. CASE Len(devs) # 1
  <2> DEFINE n == Len(devs)
  <2>1. n \in 2..Len(devs) /\ n \in Nat
    BY <1>1, <1>3, PastFirst
  <2>2. NextOffset = devs[n].offset + devs[n].size
    BY <1>3 DEF NextOffset, Last
  <2>3. /\ devs[n].offset \in Nat /\ devs[n].size \in Nat
        /\ Whole(devs[n].offset) /\ Whole(devs[n].size)
        /\ BootBlks * chip_num <= devs[n].offset
    BY <2>1, DevicePlaced DEF PlacedInv
  <2>4. Whole(NextOffset)
    BY <1>1, <2>2, <2>3, WholeSum
  <2>5. ASSUME NEW d \in 2..Len(devs)
        PROVE  devs[d].offset + devs[d].size <= NextOffset
    <3>1. CASE d = n
      BY <2>2, <2>3, <3>1
    <3>2. CASE d # n
      <4>1. d < n
        BY <1>1, <3>2
      <4>2. devs[d].offset + devs[d].size <= devs[n].offset
        BY <2>1, <4>1 DEF PlacedInv
      <4>3. devs[d].offset + devs[d].size \in Nat
        BY DevicePlaced
      <4> QED
        BY <2>2, <2>3, <4>2, <4>3
    <3> QED
      BY <3>1, <3>2
  <2>6. BootBlks * chip_num \in Nat
    BY <1>1, UnitType, Z3
  <2> HIDE DEF n
  <2> QED
    BY <1>3, <2>2, <2>3, <2>4, <2>5, <2>6
<1> QED
  BY <1>2, <1>3

(* The size the next device will have: what is left, for the last one.     *)
NewSize == IF Len(devs) > Len(config) THEN ChipSize - Last.offset - Last.size
                                     ELSE SizeFor(NextOffset, config[Len(devs)])

(* It is a number, fits on the chip, and is whole units but for the last   *)
(* device.                                                                 *)
LEMMA NewSizeFacts ==
  ASSUME PlacedInv, phase = "layout", ~(NextOffset + NewSize > ChipSize)
  PROVE  /\ NewSize \in Nat
         /\ NextOffset + NewSize <= ChipSize
         /\ ~(Len(devs) > Len(config)) => Whole(NewSize)
         /\ Len(devs) > Len(config) => Len(devs) = Len(config) + 1
<1>1. /\ Len(devs) \in Nat /\ Len(devs) >= 1 /\ chip_num \in ChipNums
      /\ Len(devs) <= Len(config) + 1 /\ devs[1] = BootDevice
      /\ config \in Seq(Nat) /\ Len(config) \in Nat
  BY LayoutAssumption DEF PlacedInv
<1>2. /\ NextOffset \in Nat /\ Whole(NextOffset)
      /\ Len(devs) = 1 => NextOffset > BootBlks
  BY NextOffsetFacts
<1>3. Unit \in Nat \ {0} /\ ChipSize \in Nat /\ BootBlks \in Nat
  BY <1>1, UnitType
<1>4. CASE Len(devs) > Len(config)
  <2>1. NewSize = ChipSize - Last.offset - Last.size
    BY <1>4 DEF NewSize
  <2>2. CASE Len(devs) = 1
    <3>1. Last.offset = 0 /\ Last.size = BootBlks
      BY <1>1, <2>2 DEF Last, BootDevice
    <3>2. NewSize = ChipSize - BootBlks
      BY <1>3, <2>1, <3>1
    <3> HIDE DEF NewSize
    <3> QED
      BY <1>2, <1>3, <2>2, <3>2
  <2>3. CASE Len(devs) # 1
    <3>1. Len(devs) \in 2..Len(devs)
      BY <1>1, <2>3, PastFirst
    <3>2. /\ Last.offset \in Nat /\ Last.size \in Nat
          /\ Last.offset + Last.size <= ChipSize /\ NextOffset = Last.offset + Last.size
      BY <2>3, <3>1, DevicePlaced DEF Last, NextOffset
    <3>3. NewSize \in Nat /\ NextOffset + NewSize <= ChipSize
      BY <1>3, <2>1, <3>2
    <3>4. Len(devs) = Len(config) + 1
      BY <1>1, <1>4
    <3> QED
      BY <1>4, <3>3, <3>4
  <2> QED
    BY <2>2, <2>3
<1>5. CASE ~(Len(devs) > Len(config))
  <2>1. NewSize = SizeFor(NextOffset, config[Len(devs)])
    BY <1>5 DEF NewSize
  <2>2. config[Len(devs)] \in Nat
    BY <1>1, <1>5, ElementOfSeq, Len(devs) \in 1..Len(config)
  <2>3. PICK f \in Nat : NextOffset = Unit * f
    BY <1>2 DEF Whole
  <2>4. PICK w \in Nat : NewSize = Unit * w
    BY <1>1, <2>1, <2>2, <2>3, SizeForFacts
  <2>5. NewSize \in Nat /\ Whole(NewSize)
    BY <1>3, <2>4, Z3 DEF Whole
  <2> HIDE DEF NewSize
  <2> QED
    BY <1>2, <1>3, <1>5, <2>5
<1> QED
  BY <1>4, <1>5

(* The geometry depends on the number of chips only.                       *)
LEMMA SameFrame ==
  ASSUME UNCHANGED chip_num
  PROVE  /\ Unit' = Unit /\ ChipSize' = ChipSize /\ Addresses' = Addresses
         /\ Chips' = Chips /\ \A n : Whole(n)' <=> Whole(n)
<1>1. Unit' = Unit /\ ChipSize' = ChipSize /\ Chips' = Chips
  BY DEF Unit, ChipSize, Chips
<1> QED
  BY <1>1 DEF Addresses, Whole

(* Steps that leave the layout keep it right.                              *)
LEMMA PlacedQuiet ==
  ASSUME PlacedInv, UNCHANGED <<chip_num, config, devs, phase>>
  PROVE  PlacedInv'
BY SameFrame DEF PlacedInv

(* One more device keeps it right.                                         *)
LEMMA PlacedAdd ==
  ASSUME PlacedInv, AddDevice
  PROVE  PlacedInv'
<1>1. /\ phase = "layout" /\ UNCHANGED <<chip_num, config>>
      /\ \/ phase' = "failed" /\ UNCHANGED devs
         \/ /\ ~(NextOffset + NewSize > ChipSize)
            /\ devs' = Append(devs, [offset |-> NextOffset, size |-> NewSize])
            /\ phase' = IF Len(devs) > Len(config) THEN "up" ELSE "layout"
  BY DEF AddDevice, NewSize
<1>2. CASE phase' = "failed" /\ UNCHANGED devs
  BY <1>1, <1>2, SameFrame DEF PlacedInv
<1>3. CASE /\ ~(NextOffset + NewSize > ChipSize)
           /\ devs' = Append(devs, [offset |-> NextOffset, size |-> NewSize])
           /\ phase' = IF Len(devs) > Len(config) THEN "up" ELSE "layout"
  <2> DEFINE new == [offset |-> NextOffset, size |-> NewSize]
             S == [offset : Nat, size : Nat]
             n == Len(devs)
  <2>1. /\ devs \in Seq(S) /\ n \in Nat /\ n >= 1 /\ devs[1] = BootDevice
        /\ n <= Len(config) + 1 /\ Len(config) \in Nat
    BY <1>1, LayoutAssumption DEF PlacedInv
  <2>2. /\ NextOffset \in Nat /\ Whole(NextOffset) /\ BootBlks * chip_num <= NextOffset
        /\ \A d \in 2..Len(devs) : devs[d].offset + devs[d].size <= NextOffset
    BY <1>1, NextOffsetFacts
  <2>3. /\ NewSize \in Nat /\ NextOffset + NewSize <= ChipSize
        /\ ~(Len(devs) > Len(config)) => Whole(NewSize)
        /\ Len(devs) > Len(config) => Len(devs) = Len(config) + 1
    BY <1>1, <1>3, NewSizeFacts
  <2> HIDE DEF NewSize, NextOffset
  <2>4. new \in S /\ new.offset = NextOffset /\ new.size = NewSize
    BY <2>2, <2>3
  <2> HIDE DEF S, new
  <2>5. /\ devs' \in Seq(S) /\ Len(devs') = n + 1 /\ devs'[n + 1] = new
        /\ \A i \in 1..n : devs'[i] = devs[i]
    BY <1>3, <2>1, <2>4, Appended DEF new
  <2>7. ChipSize' = ChipSize /\ Unit' = Unit
    BY <1>1, SameFrame
  <2>8. ASSUME NEW d \in 2..Len(devs')
        PROVE  /\ Whole(devs'[d].offset)
               /\ devs'[d].offset + devs'[d].size <= ChipSize
               /\ BootBlks * chip_num <= devs'[d].offset
               /\ phase' # "up" => Whole(devs'[d].size)
    <3>1. CASE d = n + 1
      <4>1. devs'[d].offset = NextOffset /\ devs'[d].size = NewSize
        BY <2>4, <2>5, <3>1
      <4> QED
        BY <1>3, <2>2, <2>3, <4>1
    <3>2. CASE d # n + 1
      <4>1. d \in 2..n /\ d \in 1..n
        BY <2>1, <2>5, <3>2
      <4>2. devs'[d] = devs[d]
        BY <2>5, <4>1
      <4>3. /\ Whole(devs[d].offset) /\ Whole(devs[d].size)
            /\ devs[d].offset + devs[d].size <= ChipSize
            /\ BootBlks * chip_num <= devs[d].offset
        BY <1>1, <4>1 DEF PlacedInv
      <4> QED
        BY <4>2, <4>3
    <3> QED
      BY <3>1, <3>2
  <2>9. ASSUME NEW d \in 2..Len(devs'), NEW e \in 2..Len(devs'), d < e
        PROVE  devs'[d].offset + devs'[d].size <= devs'[e].offset
    <3>1. d \in 2..n /\ devs'[d] = devs[d]
      BY <2>1, <2>5, <2>9
    <3>2. CASE e = n + 1
      BY <2>2, <2>4, <2>5, <3>1, <3>2
    <3>3. CASE e # n + 1
      <4>1. e \in 2..n /\ e \in 1..n
        BY <2>1, <2>5, <3>3
      <4> QED
        BY <2>5, <2>9, <3>1, <4>1 DEF PlacedInv
    <3> QED
      BY <3>2, <3>3
  <2>10. /\ Len(devs') >= 1 /\ devs'[1] = BootDevice
         /\ phase' # "up" => Len(devs') <= Len(config) + 1
         /\ phase' = "up" => Len(devs') = Len(config) + 2
    BY <1>3, <2>1, <2>3, <2>5
  <2>11. phase' \in {"layout", "up"}
    BY <1>3
  <2>12. /\ chip_num' \in ChipNums /\ config' \in Configs /\ config' = config
         /\ chip_num' = chip_num
    BY <1>1 DEF PlacedInv
  <2> QED
    BY <2>5, <2>7, <2>8, <2>9, <2>10, <2>11, <2>12 DEF PlacedInv, S, Whole
<1> QED
  BY <1>1, <1>2, <1>3

-----------------------------------------------------------------------------
(* The bad block table.                                                    *)

(* What the table says of a block.                                         *)
Statuses == {"good", "used_bad", "factory_bad"}

(* Block a is one of the metadata area.                                    *)
Reserved(a) == \E n \in BootBlks..LastReserve - 1 : a = ReservedAddr(n)

(* Block a is in a unit of a device that block_isbad calls good.           *)
InGoodUnit(a) ==
  /\ phase = "up"
  /\ \E d \in Devices : \E u \in 0..Units(d) - 1 :
       GoodUnit(d, u) /\ a \in SetOf(UnitBlocks(Row(d, u)))

(* The entry of block a may be changed to this value: never from factory   *)
(* bad, to good by the repair at the start only, and only in the metadata  *)
(* area or in a unit that was good.                                        *)
MayBecome(a, value) ==
  /\ blk_status[a] # "factory_bad" /\ value \in {"good", "used_bad"}
  /\ phase # "repair" => value = "used_bad"
  /\ Reserved(a) \/ InGoodUnit(a)

(* The table in RAM and the one on flash agree on the factory bad blocks,  *)
(* and the repair looks at blocks of the metadata area only.               *)
TableInv ==
  /\ blk_status \in [Addresses -> Statuses]
  /\ saved \in [Addresses -> Statuses]
  /\ \A a \in Addresses :
       saved[a] = "factory_bad" <=> blk_status[a] = "factory_bad"
  /\ todo \subseteq BootBlks..LastReserve - 1
  /\ \A n \in todo : GetBlockStatus(ReservedAddr(n)) # "factory_bad"

(* The table is changed as MayBecome says, and is saved as a whole or not  *)
(* at all.                                                                 *)
TableStep ==
  /\ blk_status' \in [Addresses -> Statuses]
  /\ \A a \in Addresses :
       blk_status'[a] # blk_status[a] => MayBecome(a, blk_status'[a])
  /\ saved' = saved \/ saved' = blk_status'

(* block_isbad takes the verdict of the first block that is not good.      *)
LEMMA IsbadFacts ==
  ASSUME NEW blocks, DOMAIN blocks = 1..Unit, Unit \in Nat
  PROVE  /\ BlockIsbad(blocks) = "good" <=>
              \A k \in 1..Unit : GetBlockStatus(blocks[k]) = "good"
         /\ BlockIsbad(blocks) = "factory_bad" <=>
              \E k \in 1..Unit :
                /\ GetBlockStatus(blocks[k]) = "factory_bad"
                /\ \A j \in 1..k - 1 : GetBlockStatus(blocks[j]) = "good"
<1> DEFINE g(k) == GetBlockStatus(blocks[k])
           bad == {k \in 1..Unit : g(k) # "good"}
<1>1. BlockIsbad(blocks) = IF bad = {} THEN "good" ELSE g(Min(bad))
  BY DEF BlockIsbad
<1> HIDE DEF g
<1>2. CASE bad = {}
  <2>1. BlockIsbad(blocks) = "good"
    BY <1>1, <1>2
  <2>2. \A k \in 1..Unit : g(k) = "good"
    BY <1>2
  <2> QED
    BY <2>1, <2>2 DEF g
<1>3. CASE bad # {}
  <2> DEFINE x == Min(bad)
  <2>1. x \in bad /\ \A y \in bad : x <= y
    BY <1>3, MinNat, bad \in SUBSET Nat
  <2>2. BlockIsbad(blocks) = g(x)
    BY <1>1, <1>3
  <2> HIDE DEF x
  <2>3. x \in 1..Unit /\ g(x) # "good"
    BY <2>1
  <2>4. \A j \in 1..x - 1 : g(j) = "good"
    <3> SUFFICES ASSUME NEW j \in 1..x - 1 PROVE g(j) = "good"
      OBVIOUS
    <3>1. j \in 1..Unit /\ ~(x <= j)
      BY <2>3, Unit \in Nat
    <3> QED
      BY <2>1, <3>1
  <2>5. ASSUME NEW k \in 1..Unit, g(k) = "factory_bad",
               \A j \in 1..k - 1 : g(j) = "good"
        PROVE  k = x
    <3>1. k \in bad
      BY <2>5
    <3>2. x <= k
      BY <2>1, <3>1
    <3>3. ~(x \in 1..k - 1)
      BY <2>3, <2>5
    <3> QED
      BY <2>3, <3>2, <3>3
  <2>6. BlockIsbad(blocks) = "good" <=> \A k \in 1..Unit : g(k) = "good"
    BY <2>2, <2>3
  <2>7. BlockIsbad(blocks) = "factory_bad" <=>
              \E k \in 1..Unit :
                g(k) = "factory_bad" /\ \A j \in 1..k - 1 : g(j) = "good"
    BY <2>2, <2>3, <2>4, <2>5
  <2> QED
    BY <2>6, <2>7 DEF g
<1> QED
  BY <1>2, <1>3

(* The same for all lists of blocks, as a formula of the state.            *)
IsbadMeaning ==
  \A blocks : DOMAIN blocks = 1..Unit /\ Unit \in Nat =>
    /\ BlockIsbad(blocks) = "good" <=>
         \A k \in 1..Unit : GetBlockStatus(blocks[k]) = "good"
    /\ BlockIsbad(blocks) = "factory_bad" <=>
         \E k \in 1..Unit :
           /\ GetBlockStatus(blocks[k]) = "factory_bad"
           /\ \A j \in 1..k - 1 : GetBlockStatus(blocks[j]) = "good"

(* It holds before and after a step.                                       *)
LEMMA IsbadAlways == IsbadMeaning /\ IsbadMeaning'
<1>1. IsbadMeaning
  BY IsbadFacts DEF IsbadMeaning
<1> QED
  BY <1>1, PTL

(* Every block of a good unit is good.                                     *)
LEMMA GoodUnitBlocks ==
  ASSUME chip_num \in ChipNums, NEW d, NEW u, GoodUnit(d, u)
  PROVE  \A a \in SetOf(UnitBlocks(Row(d, u))) : GetBlockStatus(a) = "good"
<1>1. DOMAIN UnitBlocks(Row(d, u)) = 1..Unit
  BY DEF UnitBlocks
<1>0. Unit \in Nat
  BY UnitType
<1>2. \A k \in 1..Unit : GetBlockStatus(UnitBlocks(Row(d, u))[k]) = "good"
  BY <1>0, <1>1, IsbadFacts DEF GoodUnit
<1> QED
  BY <1>1, <1>2 DEF SetOf

(* The metadata store takes blocks of the metadata area that are not       *)
(* factory bad.                                                            *)
LEMMA StoreBlocksReserved ==
  ASSUME NEW a \in StoreBlocks
  PROVE  Reserved(a) /\ GetBlockStatus(a) # "factory_bad"
BY DEF StoreBlocks, Reserved

(* A save marks no other blocks bad.                                       *)
LEMMA EraseFailsReserved ==
  ASSUME NEW e \in EraseFails
  PROVE  e \subseteq StoreBlocks
BY DEF EraseFails

(* Saving a table that was changed as it may be.                           *)
LEMMA UpdateBbtStep ==
  ASSUME TableInv, NEW table \in [Addresses -> Statuses], UpdateBbt(table),
         \A a \in Addresses : table[a] # blk_status[a] => MayBecome(a, table[a])
  PROVE  TableStep
<1>1. CASE blk_status' = table /\ UNCHANGED saved
  BY <1>1 DEF TableStep
<1>2. ASSUME NEW e \in EraseFails,
             blk_status' = [a \in Addresses |-> IF a \in e THEN "used_bad" ELSE table[a]],
             saved' = saved \/ saved' = blk_status'
      PROVE  TableStep
  <2>1. blk_status' \in [Addresses -> Statuses]
    BY <1>2 DEF Statuses
  <2>2. ASSUME NEW a \in Addresses, blk_status'[a] # blk_status[a]
        PROVE  MayBecome(a, blk_status'[a])
    <3>1. CASE a \in e
      <4>1. Reserved(a) /\ GetBlockStatus(a) # "factory_bad"
        BY <3>1, EraseFailsReserved, StoreBlocksReserved
      <4>2. blk_status'[a] = "used_bad" /\ GetBlockStatus(a) = blk_status[a]
        BY <1>2, <3>1 DEF GetBlockStatus, TableInv
      <4> QED
        BY <4>1, <4>2 DEF MayBecome
    <3>2. CASE a \notin e
      BY <1>2, <2>2, <3>2
    <3> QED
      BY <3>1, <3>2
  <2> QED
    BY <1>2, <2>1, <2>2 DEF TableStep
<1> QED
  BY <1>1, <1>2 DEF UpdateBbt

(* A step that leaves the tables.                                          *)
LEMMA SameTable ==
  ASSUME TableInv, UNCHANGED <<blk_status, saved>>
  PROVE  TableStep
BY DEF TableInv, TableStep

(* The repair at the start changes entries of the metadata area only.      *)
LEMMA RepairStep ==
  ASSUME PlacedInv, TableInv, RepairBlock
  PROVE  /\ TableStep /\ todo' \subseteq todo
         /\ UNCHANGED <<chip_num, config, devs, phase, first, marked>>
<1> DEFINE m == Min(todo)
           a == ReservedAddr(m)
           After(table) == IF Cardinality(todo) = 1 THEN UpdateBbt(table)
                           ELSE blk_status' = table /\ UNCHANGED saved
<1>1. /\ phase = "repair" /\ todo # {} /\ todo' = todo \ {m}
      /\ After(blk_status) \/ After(ModifyBbt(a, "good"))
      /\ UNCHANGED <<chip_num, config, devs, phase, first, marked>>
  BY DEF RepairBlock
<1>2. m \in todo
  <2>1. todo \in SUBSET Nat
    BY LayoutAssumption DEF TableInv
  <2> QED
    BY <1>1, <2>1, MinNat
<1> HIDE DEF m
<1>3. Reserved(a) /\ GetBlockStatus(a) # "factory_bad"
  BY <1>2 DEF TableInv, Reserved
<1> HIDE DEF a
<1>4. ASSUME NEW table \in [Addresses -> Statuses], After(table),
             \A b \in Addresses : table[b] # blk_status[b] => MayBecome(b, table[b])
      PROVE  TableStep
  <2>1. CASE UpdateBbt(table)
    BY <1>4, <2>1, UpdateBbtStep
  <2>2. CASE blk_status' = table /\ UNCHANGED saved
    BY <1>4, <2>2 DEF TableStep
  <2> QED
    BY <1>4, <2>1, <2>2
<1> HIDE DEF After
<1>5. CASE After(blk_status)
  BY <1>1, <1>4, <1>5 DEF TableInv
<1>6. CASE After(ModifyBbt(a, "good"))
  <2> DEFINE t == ModifyBbt(a, "good")
  <2>1. t \in [Addresses -> Statuses]
    BY DEF ModifyBbt, TableInv, Statuses
  <2>2. ASSUME NEW b \in Addresses, t[b] # blk_status[b]
        PROVE  MayBecome(b, t[b])
    <3>1. b = a /\ t[b] = "good"
      BY <2>2 DEF ModifyBbt, TableInv
    <3>2. GetBlockStatus(a) = blk_status[a]
      BY <3>1 DEF GetBlockStatus, TableInv
    <3> QED
      BY <1>1, <1>3, <3>1, <3>2 DEF MayBecome
  <2> HIDE DEF t
  <2> QED
    BY <1>1, <1>4, <1>6, <2>1, <2>2 DEF t
<1> QED
  BY <1>1, <1>5, <1>6

(* block_markbad changes entries of the blocks it was asked for only.      *)
LEMMA MarkbadTable ==
  ASSUME TableInv, phase = "up", NEW d, NEW u, NEW number, NEW blocks, NEW planes,
         Markbad(d, u, number, blocks, planes),
         \A a \in SetOf(blocks) :
           /\ GetBlockStatus(a) # "factory_bad"
           /\ Reserved(a) \/ InGoodUnit(a)
  PROVE  TableStep
<1>1. UNCHANGED <<blk_status, saved>> \/ UpdateBbt(Marks(blocks))
  BY DEF Markbad
<1>2. Marks(blocks) \in [Addresses -> Statuses]
  BY DEF Marks, TableInv, Statuses
<1>3. ASSUME NEW a \in Addresses, Marks(blocks)[a] # blk_status[a]
      PROVE  MayBecome(a, Marks(blocks)[a])
  <2>1. a \in SetOf(blocks) /\ Marks(blocks)[a] = "used_bad"
    BY <1>3 DEF Marks
  <2>2. GetBlockStatus(a) = blk_status[a]
    BY DEF GetBlockStatus, TableInv
  <2> QED
    BY <2>1, <2>2 DEF MayBecome
<1> QED
  BY <1>1, <1>2, <1>3, SameTable, UpdateBbtStep

(* Every step but a restart changes the table as it may be.                *)
LEMMA NoRestartStep ==
  ASSUME PlacedInv, TableInv, [BlockNext]_vars, ~Restart
  PROVE  TableStep /\ todo' \subseteq todo /\ UNCHANGED <<chip_num, config>>
<1>1. CASE RepairBlock
  BY <1>1, RepairStep
<1>2. CASE RepairDone
  BY <1>2, SameTable DEF RepairDone, opVars
<1>3. CASE Lay
  BY <1>3, SameTable DEF Lay, AddDevice
<1>4. ASSUME NEW d \in Devices, NEW u \in 0..Units(d) - 1, MarkUnit(d, u)
      PROVE  TableStep /\ todo' \subseteq todo /\ UNCHANGED <<chip_num, config>>
  <2>1. /\ phase = "up" /\ GoodUnit(d, u)
        /\ Markbad(d, u, <<0, Row(d, u)>>, Target(d, u), PlaneNum)
    BY <1>4 DEF MarkUnit, MayStart
  <2>2. \A a \in SetOf(Target(d, u)) :
          GetBlockStatus(a) # "factory_bad" /\ InGoodUnit(a)
    BY <2>1, GoodUnitBlocks DEF Target, InGoodUnit, PlacedInv
  <2>3. UNCHANGED <<chip_num, config, todo>>
    BY <2>1 DEF Markbad
  <2> QED
    BY <2>1, <2>2, <2>3, MarkbadTable
<1>5. ASSUME NEW n, MarkReserved(n)
      PROVE  TableStep /\ todo' \subseteq todo /\ UNCHANGED <<chip_num, config>>
  <2> DEFINE a == ReservedAddr(n)
  <2>1. /\ phase = "up" /\ GetBlockStatus(a) # "factory_bad" /\ Reserved(a)
        /\ Markbad(0, n, a, <<a>>, 1)
    BY <1>5 DEF MarkReserved, MayStart, Reserved
  <2> HIDE DEF a
  <2>2. SetOf(<<a>>) = {a}
    BY DEF SetOf
  <2>3. UNCHANGED <<chip_num, config, todo>>
    BY <2>1 DEF Markbad
  <2> QED
    BY <2>1, <2>2, <2>3, MarkbadTable
<1>6. ASSUME NEW op, NEW d, NEW u, Access(op, d, u)
      PROVE  TableStep /\ todo' \subseteq todo /\ UNCHANGED <<chip_num, config>>
  BY <1>6, SameTable DEF Access, layoutVars
<1>7. CASE ChipStep
  BY <1>7, SameTable DEF ChipStep, SendCommand, ChipBusy, StatusRight, StatusFailed,
                         StatusOdd, jobSame, layoutVars
<1>8. CASE SetParameters
  BY <1>8, SameTable DEF SetParameters, layoutVars
<1>9. CASE UNCHANGED vars
  BY <1>9, SameTable DEF vars, layoutVars, opVars
<1>10. CASE Request
  BY <1>4, <1>5, <1>6, <1>10 DEF Request
<1> QED
  BY <1>1, <1>2, <1>3, <1>7, <1>8, <1>9, <1>10 DEF BlockNext

-----------------------------------------------------------------------------
(* The steps that keep what a device was built on.                         *)

(* A step changes no factory bad block.                                    *)
FactorySame == \A a : (GetBlockStatus(a) = "factory_bad")' <=> GetBlockStatus(a) = "factory_bad"

(* Neither the changes of the table nor loading it at a restart does.      *)
LEMMA FactoryKept ==
  ASSUME TableInv, UNCHANGED chip_num,
         TableStep \/ blk_status' = saved
  PROVE  FactorySame /\ blk_status' \in [Addresses -> Statuses]
<1>1. blk_status' \in [Addresses -> Statuses] /\ Addresses' = Addresses
  BY SameFrame DEF TableInv, TableStep
<1>2. \A a \in Addresses :
        blk_status'[a] = "factory_bad" <=> blk_status[a] = "factory_bad"
  BY DEF TableInv, TableStep, MayBecome
<1>3. DOMAIN blk_status = Addresses /\ DOMAIN blk_status' = Addresses
  BY <1>1 DEF TableInv
<1> QED
  BY <1>1, <1>2, <1>3 DEF FactorySame, GetBlockStatus

(* The scans for the metadata area depend on factory bad blocks only.      *)
LEMMA ScansKept ==
  ASSUME UNCHANGED chip_num, FactorySame
  PROVE  /\ FirstOffset' = FirstOffset /\ LastReserve' = LastReserve
         /\ \A n : ReservedAddr(n)' = ReservedAddr(n)
<1>1. ChipSize' = ChipSize /\ Unit' = Unit
  BY SameFrame
<1>2. \A n : ReservedAddr(n)' = ReservedAddr(n) /\ ScanAddr(n)' = ScanAddr(n)
  BY DEF ReservedAddr, ScanAddr
<1>3. {n \in 0..ChipSize : GetBlockStatus(ScanAddr(n)) = "factory_bad"}'
        = {n \in 0..ChipSize : GetBlockStatus(ScanAddr(n)) = "factory_bad"}
  <2>1. \A n : (GetBlockStatus(ScanAddr(n)) = "factory_bad")' <=>
                 GetBlockStatus(ScanAddr(n)) = "factory_bad"
    BY <1>2 DEF FactorySame, GetBlockStatus
  <2> QED
    BY <1>1, <2>1
<1>4. FactoryBadReserved' = FactoryBadReserved
  <2>1. \A n : (GetBlockStatus(ReservedAddr(n)) = "factory_bad")' <=>
                 GetBlockStatus(ReservedAddr(n)) = "factory_bad"
    BY <1>2 DEF FactorySame, GetBlockStatus
  <2> QED
    BY <1>1, <2>1 DEF FactoryBadReserved
<1>5. FirstOffset' = FirstOffset
  BY <1>1, <1>3 DEF FirstOffset, RoundUp
<1>6. LastReserve' = LastReserve
  BY <1>4 DEF LastReserve
<1> QED
  BY <1>2, <1>5, <1>6

(* Every step keeps the layout right.                                      *)
LEMMA PlacedStep ==
  ASSUME PlacedInv, [BlockNext]_vars
  PROVE  PlacedInv'
<1>1. CASE UNCHANGED <<chip_num, config, devs, phase>>
  BY <1>1, PlacedQuiet
<1>2. CASE RepairDone
  <2>1. UNCHANGED <<chip_num, config, devs>> /\ phase = "repair" /\ phase' = "layout"
    BY <1>2 DEF RepairDone
  <2>2. Len(devs) = 1 /\ 2..Len(devs) = {}
    <3>1. devs = <<BootDevice>>
      BY <2>1 DEF PlacedInv
    <3> QED
      BY <3>1
  <2>3. Len(config) \in Nat
    BY LayoutAssumption DEF PlacedInv
  <2> QED
    BY <2>1, <2>2, <2>3 DEF PlacedInv
<1>3. CASE Lay
  BY <1>3, PlacedAdd DEF Lay
<1>4. CASE Restart
  <2>1. /\ UNCHANGED <<chip_num, config>> /\ phase' \in {"repair", "unread"}
        /\ devs' = <<BootDevice>>
    BY <1>4 DEF Restart, BootDevice
  <2>2. BootBlks \in Nat /\ Len(config) \in Nat
    BY LayoutAssumption DEF PlacedInv
  <2>3. BootDevice \in [offset : Nat, size : Nat]
    BY <2>2 DEF BootDevice
  <2> DEFINE S == [offset : Nat, size : Nat]
  <2> HIDE DEF S
  <2>4. <<BootDevice>> \in Seq(S) /\ Len(<<BootDevice>>) = 1 /\ <<BootDevice>>[1] = BootDevice
    BY <2>3 DEF S
  <2>5. 2..Len(devs') = {} /\ Len(devs') = 1
    BY <2>1, <2>4
  <2> QED
    BY <2>1, <2>2, <2>4, <2>5 DEF PlacedInv, S
<1>5. CASE RepairBlock
  BY <1>1, <1>5 DEF RepairBlock
<1>6. CASE Request
  BY <1>1, <1>6 DEF Request, MarkUnit, MarkReserved, Markbad, Access, layoutVars
<1>7. CASE ChipStep
  BY <1>1, <1>7 DEF ChipStep, SendCommand, ChipBusy, StatusRight, StatusFailed,
                         StatusOdd, jobSame, layoutVars
<1>8. CASE SetParameters
  BY <1>1, <1>8 DEF SetParameters, layoutVars
<1>9. CASE UNCHANGED vars
  BY <1>1, <1>9 DEF vars, layoutVars
<1> QED
  BY <1>2, <1>3, <1>4, <1>5, <1>6, <1>7, <1>8, <1>9 DEF BlockNext

(* The blocks the repair starts with are in the metadata area.             *)
LEMMA UsedReservedFacts ==
  /\ UsedReserved \subseteq BootBlks..LastReserve - 1
  /\ \A n \in UsedReserved : GetBlockStatus(ReservedAddr(n)) # "factory_bad"
BY DEF UsedReserved

(* They are so in the next state.                                          *)
LEMMA UsedReservedNext ==
  /\ UsedReserved' \subseteq BootBlks..LastReserve' - 1
  /\ \A n \in UsedReserved' : (GetBlockStatus(ReservedAddr(n)) # "factory_bad")'
BY DEF UsedReserved

(* Every step keeps the tables in agreement.                               *)
LEMMA TableStepKeeps ==
  ASSUME PlacedInv, TableInv, [BlockNext]_vars
  PROVE  TableInv' /\ FactorySame
<1>1. CASE Restart
  <2>1. UNCHANGED <<chip_num, saved>> /\ blk_status' = saved
    BY <1>1 DEF Restart
  <2>2. FactorySame /\ blk_status' \in [Addresses -> Statuses] /\ Addresses' = Addresses
    BY <2>1, FactoryKept, SameFrame
  <2>3. todo' \subseteq UsedReserved'
    BY <1>1 DEF Restart
  <2> QED
    BY <2>1, <2>2, <2>3, UsedReservedNext DEF TableInv
<1>2. CASE ~Restart
  <2>1. TableStep /\ todo' \subseteq todo /\ UNCHANGED <<chip_num, config>>
    BY <1>2, NoRestartStep
  <2>2. FactorySame /\ blk_status' \in [Addresses -> Statuses] /\ Addresses' = Addresses
    BY <2>1, FactoryKept, SameFrame
  <2>3. LastReserve' = LastReserve /\ \A n : ReservedAddr(n)' = ReservedAddr(n)
    BY <2>1, <2>2, ScansKept
  <2>4. todo' \subseteq BootBlks..LastReserve' - 1
    BY <2>1, <2>3 DEF TableInv
  <2>5. \A n \in todo' : (GetBlockStatus(ReservedAddr(n)) # "factory_bad")'
    BY <2>1, <2>2, <2>3 DEF TableInv, FactorySame, GetBlockStatus
  <2>6. saved' \in [Addresses -> Statuses]
        /\ \A a \in Addresses : saved'[a] = "factory_bad" <=> blk_status'[a] = "factory_bad"
    BY <2>1, <2>2 DEF TableInv, TableStep, MayBecome
  <2> QED
    BY <2>2, <2>4, <2>5, <2>6 DEF TableInv
<1> QED
  BY <1>1, <1>2

-----------------------------------------------------------------------------
(* The room of a device.                                                   *)

(* A set that is moved into a finite one is no larger.                     *)
LEMMA ShiftInto ==
  ASSUME NEW A, NEW B, NEW s \in Int, A \subseteq Int, IsFiniteSet(B),
         \A n \in A : n + s \in B
  PROVE  IsFiniteSet(A) /\ Cardinality(A) <= Cardinality(B)
<1> DEFINE f == [n \in A |-> n + s]
<1>1. f \in Injection(A, B)
  <2>1. f \in [A -> B]
    OBVIOUS
  <2>2. \A m, n \in A : f[m] = f[n] => m = n
    OBVIOUS
  <2> QED
    BY <2>1, <2>2 DEF Injection, IsInjective
<1> QED
  BY <1>1, FS_Injection

(* With one chip the end of the metadata area, as get_last_reserve_block   *)
(* counts it in blocks, is not behind the start of the first device, as it *)
(* is counted in units.                                                    *)
LEMMA ReserveEndsBefore ==
  ASSUME TableInv, chip_num \in ChipNums, chip_num = 1
  PROVE  LastReserve \in Nat /\ LastReserve <= FirstOffset
<1> DEFINE scan == {n \in 0..ChipSize : GetBlockStatus(ScanAddr(n)) = "factory_bad"}
           res == FactoryBadReserved
           e == ScanEnd(scan, 0, ReservedCnt)
           B == BootBlks
<1>1. /\ ChipSize = BlkNum /\ BlkNum \in Nat /\ B \in Nat /\ ReservedCnt \in Nat
      /\ Unit \in Nat \ {0}
  BY UnitType DEF ChipSize
<1>2. \A n \in Nat : ReservedAddr(n) = <<0, n>> /\ ScanAddr(n) = <<0, n + B>>
  <2>1. \A n \in Nat : ReservedAddr(n) = <<0, n>>
    BY <1>1, Z3 DEF ReservedAddr
  <2>2. \A n \in Nat : n + B \in Nat /\ n % 1 = 0
    BY <1>1, Z3
  <2> QED
    BY <2>1, <2>2 DEF ScanAddr
<1>3. DOMAIN blk_status = (0..0) \X (0..BlkNum - 1)
  BY DEF TableInv, Addresses, Chips
<1>4. IsFiniteSet(scan) /\ IsFiniteSet(res)
  BY <1>1, SubInterval, scan \subseteq 0..ChipSize, res \subseteq B..ChipSize
  DEF FactoryBadReserved
<1>5. \A n \in Nat : n \in scan <=> n + B \in res
  <2> SUFFICES ASSUME NEW n \in Nat PROVE n \in scan <=> n + B \in res
    OBVIOUS
  <2>1. GetBlockStatus(ScanAddr(n)) = GetBlockStatus(ReservedAddr(n + B))
    <3>1. n + B \in Nat
      BY <1>1
    <3>2. ReservedAddr(n + B) = <<0, n + B>> /\ ScanAddr(n) = <<0, n + B>>
      BY <1>2, <3>1
    <3> QED
      BY <3>2
  <2>2. GetBlockStatus(ScanAddr(n)) = "factory_bad" => n + B <= BlkNum
    BY <1>1, <1>2, <1>3 DEF GetBlockStatus
  <2> QED
    BY <1>1, <2>1, <2>2 DEF FactoryBadReserved
<1> HIDE DEF scan, res
<1>6. e \in Nat /\ Cardinality((0..e - 1) \ scan) = ReservedCnt
  BY <1>1, <1>4, ScanEndFacts, 0 \in Nat
<1>7. FirstOffset = RoundUp(e, Unit) + B
  BY DEF FirstOffset, scan
<1>8. /\ LastReserve = ScanEnd(res, B, ReservedCnt)
  BY DEF LastReserve, res
<1> HIDE DEF e
<1> DEFINE X == (0..e - 1) \ scan
           Y == (B..(e + B) - 1) \ res
<1>9. IsFiniteSet(X) /\ IsFiniteSet(Y) /\ Cardinality(X) \in Nat /\ Cardinality(Y) \in Nat
  <2>1. 0 \in Int /\ e \in Int /\ B \in Int /\ e + B \in Int
    BY <1>1, <1>6
  <2>2. IsFiniteSet(X) /\ Cardinality(X) \in Nat
    BY <2>1, PassedFinite
  <2>3. IsFiniteSet(Y) /\ Cardinality(Y) \in Nat
    BY <2>1, PassedFinite
  <2> QED
    BY <2>2, <2>3
<1>10. \A n \in X : n + B \in Y
  BY <1>1, <1>5, <1>6
<1>11. \A n \in Y : n + (-B) \in X
  <2> SUFFICES ASSUME NEW n \in Y PROVE n + (-B) \in X
    OBVIOUS
  <2>1. n - B \in Nat /\ n - B <= e - 1 /\ (n - B) + B = n /\ n + (-B) = n - B
    BY <1>1, <1>6
  <2>2. n - B \notin scan
    BY <1>5, <2>1
  <2> QED
    BY <1>6, <2>1, <2>2
<1>12. X \subseteq Int /\ Y \subseteq Int
  BY <1>1, <1>6
<1> HIDE DEF X, Y
<1>13. Cardinality(X) <= Cardinality(Y) /\ Cardinality(Y) <= Cardinality(X)
  <2>1. B \in Int /\ -B \in Int
    BY <1>1
  <2>2. Cardinality(X) <= Cardinality(Y)
    BY <1>9, <1>10, <1>12, <2>1, ShiftInto
  <2> DEFINE s == -B
  <2> HIDE DEF s
  <2>3. s \in Int /\ \A n \in Y : n + s \in X
    BY <1>11, <2>1 DEF s
  <2>4. Cardinality(Y) <= Cardinality(X)
    BY <1>9, <1>12, <2>3, ShiftInto
  <2> QED
    BY <2>2, <2>4
<1>14. Cardinality(Y) = ReservedCnt
  BY <1>1, <1>6, <1>9, <1>13 DEF X
<1>15. LastReserve \in Nat /\ LastReserve <= e + B
  <2>1. e + B \in Nat /\ e + B >= B
    BY <1>1, <1>6
  <2> QED
    BY <1>1, <1>4, <1>8, <1>14, <2>1, ScanEndFacts DEF Y
<1>16. RoundUp(e, Unit) \in Nat /\ e <= RoundUp(e, Unit)
  <2>1. PICK r \in Nat : RoundUp(e, Unit) = Unit * r /\ e <= Unit * r
    BY <1>1, <1>6, RoundUpFacts
  <2> QED
    BY <1>1, <2>1, Z3
<1> QED
  BY <1>1, <1>6, <1>7, <1>15, <1>16

(* The units of device d that are not factory bad.                         *)
RoomSet(d) ==
  {u \in 0..Units(d) - 1 : BlockIsbad(UnitBlocks(Row(d, u))) # "factory_bad"}

(* Every device but the last has as many of them as it asked for.          *)
RoomInv ==
  \A d \in 2..Len(devs) :
    d <= Len(config) + 1 => Cardinality(RoomSet(d)) >= Asked(config[d - 1])

(* After the repair no unit becomes factory bad, even if marking changes   *)
(* which of its blocks comes first.                                        *)
LEMMA NotWorse ==
  ASSUME PlacedInv, TableInv, TableStep, phase # "repair", UNCHANGED chip_num,
         NEW blocks, DOMAIN blocks = 1..Unit, (BlockIsbad(blocks) = "factory_bad")'
  PROVE  BlockIsbad(blocks) = "factory_bad"
<1>1. Unit \in Nat /\ Unit' = Unit /\ Addresses' = Addresses
  BY UnitType, SameFrame DEF PlacedInv
<1>2. PICK k \in 1..Unit :
         /\ (GetBlockStatus(blocks[k]) = "factory_bad")'
         /\ \A j \in 1..k - 1 : (GetBlockStatus(blocks[j]) = "good")'
  BY <1>1, IsbadAlways DEF IsbadMeaning
<1>3. \A a : (GetBlockStatus(a) = "good")' => GetBlockStatus(a) = "good"
  BY <1>1 DEF GetBlockStatus, TableInv, TableStep, MayBecome
<1>4. GetBlockStatus(blocks[k]) = "factory_bad"
  BY <1>2, FactoryKept DEF FactorySame
<1>5. \A j \in 1..k - 1 : GetBlockStatus(blocks[j]) = "good"
  BY <1>2, <1>3
<1> QED
  BY <1>1, <1>4, <1>5, IsbadAlways DEF IsbadMeaning

(* So the room of a device never shrinks.                                  *)
LEMMA RoomKept ==
  ASSUME PlacedInv, TableInv, TableStep, phase # "repair", UNCHANGED chip_num,
         NEW d \in 2..Len(devs), devs'[d] = devs[d]
  PROVE  Cardinality(RoomSet(d)') >= Cardinality(RoomSet(d))
         /\ Cardinality(RoomSet(d)') \in Nat /\ Cardinality(RoomSet(d)) \in Nat
<1>1. Unit' = Unit /\ chip_num \in ChipNums /\ devs[d].size \in Nat
  BY SameFrame, DevicePlaced
<1>2. /\ Units(d)' = Units(d) /\ Units(d) \in Nat
      /\ \A u : UnitBlocks(Row(d, u))' = UnitBlocks(Row(d, u))
  BY <1>1, UnitsOf DEF Units, Row, UnitBlocks
<1>3. IsFiniteSet(RoomSet(d)) /\ IsFiniteSet(RoomSet(d)')
  <2>1. RoomSet(d) \subseteq 0..Units(d) - 1 /\ RoomSet(d)' \subseteq 0..Units(d) - 1
    BY <1>2 DEF RoomSet
  <2> QED
    BY <1>2, <2>1, SubInterval, Units(d) - 1 \in Int, 0 \in Int
<1>4. RoomSet(d) \subseteq RoomSet(d)'
  <2> SUFFICES ASSUME NEW u \in RoomSet(d) PROVE u \in RoomSet(d)'
    OBVIOUS
  <2> DEFINE b == UnitBlocks(Row(d, u))
  <2>1. u \in 0..Units(d) - 1 /\ BlockIsbad(b) # "factory_bad"
    BY DEF RoomSet
  <2>2. DOMAIN b = 1..Unit /\ b' = b
    BY <1>2 DEF UnitBlocks
  <2>3. BlockIsbad(b)' # "factory_bad"
    <3>1. \A x : DOMAIN x = 1..Unit /\ (BlockIsbad(x) = "factory_bad")'
                   => BlockIsbad(x) = "factory_bad"
      BY NotWorse
    <3>2. \A x : x = b => BlockIsbad(x)' # "factory_bad"
      BY <2>1, <2>2, <3>1
    <3> HIDE DEF b
    <3>3. \A x : x = b' => BlockIsbad(x)' = BlockIsbad(b)'
      BY DEF BlockIsbad, GetBlockStatus
    <3> QED
      BY <2>2, <3>2, <3>3
  <2> QED
    BY <1>2, <2>1, <2>3 DEF RoomSet
<1> QED
  BY <1>3, <1>4, FS_Subset, FS_CardinalityType

-----------------------------------------------------------------------------
(* Every device has room, and devices are disjoint.                        *)

(* A new device has the room its scan found.                               *)
LEMMA RoomNew ==
  ASSUME PlacedInv, TableInv, AddDevice, Len(devs) <= Len(config), phase' # "failed",
         NEW n \in Nat, n = Len(devs)
  PROVE  Cardinality(RoomSet(n + 1)') >= Asked(config[n])
<1> DEFINE S == [offset : Nat, size : Nat]
           new == [offset |-> NextOffset, size |-> NewSize]
<1>1. /\ phase = "layout" /\ UNCHANGED <<chip_num, config, blk_status>>
      /\ ~(NextOffset + NewSize > ChipSize) /\ devs' = Append(devs, new)
  BY DEF AddDevice, NewSize
<1>2. /\ devs \in Seq(S) /\ n \in Nat /\ n >= 1 /\ chip_num \in ChipNums
      /\ config \in Seq(Nat) /\ Len(config) \in Nat /\ ~(n > Len(config))
  BY LayoutAssumption DEF PlacedInv
<1>3. /\ NextOffset \in Nat /\ Whole(NextOffset) /\ NewSize \in Nat
      /\ NextOffset + NewSize <= ChipSize
  BY <1>1, NextOffsetFacts, NewSizeFacts
<1>4. NewSize = SizeFor(NextOffset, config[n]) /\ config[n] \in Nat
  BY <1>2, ElementOfSeq, n \in 1..Len(config) DEF NewSize
<1>5. PICK f \in Nat : NextOffset = Unit * f
  BY <1>3 DEF Whole
<1>6. PICK w \in Nat, end \in Nat :
        /\ NewSize = Unit * w /\ end >= f /\ w >= end - f
        /\ Cardinality((f..end - 1) \ FactoryBadRows) = Asked(config[n])
  <2> DEFINE z == config[n]
  <2>1. NewSize = SizeFor(Unit * f, z) /\ z \in Nat
    BY <1>4, <1>5
  <2> HIDE DEF z
  <2>2. \E w \in Nat, end \in Nat :
          /\ SizeFor(Unit * f, z) = Unit * w /\ end >= f /\ w >= end - f
          /\ Cardinality((f..end - 1) \ FactoryBadRows) = Asked(z)
    BY <1>2, <2>1, SizeForFacts
  <2> QED
    BY <2>1, <2>2 DEF z
<1>7. /\ Unit \in Nat \ {0} /\ BlkNum \in Nat \ {0} /\ chip_num \in Nat \ {0}
      /\ PlaneNum \in {1, 2}
  BY <1>2, UnitType
<1>8. f + w <= BlkNum
  <2>1. Unit * f + Unit * w <= ChipSize
    BY <1>3, <1>5, <1>6
  <2>2. chip_num * (PlaneNum * (f + w)) < chip_num * BlkNum + chip_num
    BY <1>7, <2>1, Z3 DEF Unit, ChipSize
  <2>3. PlaneNum * (f + w) <= BlkNum
    BY <1>7, <2>2, Cancel, PlaneNum * (f + w) \in Int
  <2> QED
    BY <1>7, <2>3
<1> HIDE DEF NewSize, NextOffset
<1>9. devs'[n + 1].offset = Unit * f /\ devs'[n + 1].size = Unit * w /\ Unit' = Unit
  <2>1. new \in S /\ new.offset = NextOffset /\ new.size = NewSize
    BY <1>3
  <2> HIDE DEF S, new
  <2>2. devs'[n + 1] = new
    BY <1>1, <1>2, <2>1, Appended
  <2> QED
    BY <1>1, <1>5, <1>6, <2>1, <2>2, SameFrame
<1>10. Units(n + 1)' = w
  <2>1. Unit * w \in Int /\ Unit * w < Unit * w + Unit /\ Unit * w <= Unit * w
    BY <1>7, Z3
  <2>2. (Unit * w) \div Unit = w
    BY <1>7, <2>1, DivUnique
  <2> QED
    BY <1>9, <2>2 DEF Units
<1>11. ASSUME NEW u \in Nat PROVE Row(n + 1, u)' = f + u
  <2>1. /\ Unit * (f + u) = Unit * f + u * Unit /\ Unit * (f + u) \in Int
        /\ Unit * (f + u) < Unit * (f + u) + Unit
    BY <1>7, Z3
  <2>2. (Unit * (f + u)) \div Unit = f + u
    BY <1>7, <2>1, DivUnique, f + u \in Int
  <2> QED
    BY <1>9, <2>1, <2>2 DEF Row
<1> DEFINE R == RoomSet(n + 1)'
           A == (f..end - 1) \ FactoryBadRows
<1>12. \A u \in 0..w - 1 : f + u \notin FactoryBadRows => u \in R
  <2> SUFFICES ASSUME NEW u \in 0..w - 1, f + u \notin FactoryBadRows PROVE u \in R
    OBVIOUS
  <2>1. u \in Nat /\ f + u \in 0..BlkNum
    BY <1>7, <1>8
  <2>2. BlockIsbad(UnitBlocks(f + u)) # "factory_bad"
    BY <2>1 DEF FactoryBadRows
  <2>3. BlockIsbad(UnitBlocks(Row(n + 1, u)))' = BlockIsbad(UnitBlocks(f + u))
    <3>1. UnitBlocks(Row(n + 1, u))' = UnitBlocks(f + u)
      BY <1>9, <1>11, <2>1 DEF UnitBlocks
    <3> QED
      BY <1>1, <3>1 DEF BlockIsbad, GetBlockStatus
  <2> QED
    BY <1>10, <2>2, <2>3 DEF RoomSet
<1>13. IsFiniteSet(R)
  <2>1. R \subseteq 0..w - 1
    BY <1>10 DEF RoomSet
  <2> QED
    BY <2>1, SubInterval, w - 1 \in Int, 0 \in Int
<1> DEFINE s == -f
<1>14. \A r \in A : r + s \in R
  <2> SUFFICES ASSUME NEW r \in A PROVE r + s \in R
    OBVIOUS
  <2>1. r - f \in 0..w - 1 /\ f + (r - f) = r /\ r + s = r - f
    BY <1>6
  <2>2. f + (r - f) \notin FactoryBadRows
    BY <2>1
  <2> HIDE DEF R, A, s
  <2> QED
    BY <1>12, <2>1, <2>2
<1>15. A \subseteq Int /\ s \in Int
  OBVIOUS
<1> HIDE DEF R, A, s
<1>16. Cardinality(A) <= Cardinality(R)
  BY <1>13, <1>14, <1>15, ShiftInto
<1>17. Cardinality(A) = Asked(config[n]) /\ Asked(config[n]) \in Nat
       /\ Cardinality(R) \in Nat
  BY <1>2, <1>4, <1>6, <1>13, AskedType, FS_CardinalityType DEF A
<1>18. Cardinality(R) >= Asked(config[n])
  BY <1>16, <1>17
<1> QED
  BY <1>18 DEF R

(* The inductive invariant of the layout and the table.                    *)
AreaInv ==
  /\ PlacedInv
  /\ TableInv
  /\ RoomInv
  /\ Len(devs) >= 2 => devs[2].offset = FirstOffset

(* Every step keeps it.                                                    *)
LEMMA AreaInvStep == AreaInv /\ [BlockNext]_vars => AreaInv'
<1> SUFFICES ASSUME AreaInv, [BlockNext]_vars PROVE AreaInv'
  OBVIOUS
<1>1. PlacedInv /\ TableInv /\ PlacedInv' /\ TableInv' /\ FactorySame
  BY PlacedStep, TableStepKeeps DEF AreaInv
<1>2. UNCHANGED <<chip_num, config>>
  <2>1. CASE Restart
    BY <2>1 DEF Restart
  <2> QED
    BY <1>1, <2>1, NoRestartStep
<1>3. FirstOffset' = FirstOffset
  BY <1>1, <1>2, ScansKept
<1>4. CASE phase' \in {"repair", "unread"}
  <2>1. devs' = <<BootDevice>>
    BY <1>1, <1>4 DEF PlacedInv, BootDevice
  <2>2. Len(devs') = 1 /\ 2..Len(devs') = {}
    BY <2>1
  <2> QED
    BY <1>1, <2>2 DEF AreaInv, RoomInv
<1>5. CASE phase \in {"repair", "unread"} /\ phase' \notin {"repair", "unread"}
  <2>1. UNCHANGED devs
    BY <1>5 DEF BlockNext, RepairBlock, RepairDone, Lay, AddDevice, Request, MarkUnit,
                MarkReserved, Markbad, Access, ChipStep, SendCommand, ChipBusy,
                StatusRight, StatusFailed, StatusOdd, jobSame, layoutVars, vars,
                SetParameters, Restart
  <2>2. devs' = <<BootDevice>>
    BY <1>1, <1>5, <2>1 DEF PlacedInv
  <2>3. Len(devs') = 1 /\ 2..Len(devs') = {}
    BY <2>2
  <2> QED
    BY <1>1, <2>3 DEF AreaInv, RoomInv
<1>6. CASE phase \notin {"repair", "unread"} /\ phase' \notin {"repair", "unread"}
  <2>1. TableStep
    BY <1>1, <1>6, NoRestartStep DEF Restart
  <2>2. Asked(0) = Asked(0) /\ \A x : Asked(x)' = Asked(x)
    BY <1>2, SameFrame DEF Asked
  <2>3. CASE UNCHANGED devs
    <3>1. ASSUME NEW d \in 2..Len(devs), d <= Len(config) + 1
          PROVE  Cardinality(RoomSet(d)') >= Asked(config[d - 1])
      <4>1. Cardinality(RoomSet(d)) >= Asked(config[d - 1])
        BY <3>1 DEF AreaInv, RoomInv
      <4>2. /\ Cardinality(RoomSet(d)') >= Cardinality(RoomSet(d))
            /\ Cardinality(RoomSet(d)') \in Nat /\ Cardinality(RoomSet(d)) \in Nat
        BY <1>1, <1>2, <1>6, <2>1, <2>3, RoomKept
      <4>3. Asked(config[d - 1]) \in Nat
        <5>1. config \in Seq(Nat) /\ chip_num \in ChipNums /\ Len(config) \in Nat
          BY <1>1, LayoutAssumption DEF PlacedInv
        <5>2. d - 1 \in 1..Len(config)
          BY <3>1, <5>1
        <5> QED
          BY <5>1, <5>2, ElementOfSeq, AskedType
      <4> QED
        BY <4>1, <4>2, <4>3
    <3> QED
      BY <1>1, <1>2, <1>3, <2>2, <2>3, <3>1 DEF AreaInv, RoomInv
  <2>4. CASE ~UNCHANGED devs
    <3>1. AddDevice /\ phase' # "failed"
      BY <1>6, <2>4 DEF BlockNext, RepairBlock, RepairDone, Lay, AddDevice, Request,
                MarkUnit, MarkReserved, Markbad, Access, ChipStep, SendCommand, ChipBusy,
                StatusRight, StatusFailed, StatusOdd, jobSame, layoutVars, vars,
                SetParameters, Restart
    <3>0. Len(devs) \in Nat
      BY <1>1 DEF PlacedInv
    <3> PICK n \in Nat : n = Len(devs)
      BY <3>0
    <3> DEFINE S == [offset : Nat, size : Nat]
               new == [offset |-> NextOffset, size |-> NewSize]
    <3>2. /\ phase = "layout" /\ devs' = Append(devs, new)
          /\ ~(NextOffset + NewSize > ChipSize)
      BY <3>1 DEF AddDevice, NewSize
    <3>3. /\ devs \in Seq(S) /\ n \in Nat /\ n >= 1 /\ Len(config) \in Nat
          /\ config \in Seq(Nat) /\ chip_num \in ChipNums
      <4>1. devs \in Seq(S) /\ n >= 1 /\ chip_num \in ChipNums /\ config \in Configs
        BY <1>1 DEF PlacedInv
      <4>2. config \in Seq(Nat)
        BY <4>1, LayoutAssumption
      <4> QED
        BY <4>1, <4>2
    <3>4. new \in S /\ new.offset = NextOffset
      <4>1. NextOffset \in Nat /\ NewSize \in Nat
        BY <1>1, <3>2, NextOffsetFacts, NewSizeFacts
      <4> HIDE DEF NewSize, NextOffset
      <4> QED
        BY <4>1
    <3> HIDE DEF S, new
    <3>5. /\ Len(devs') = n + 1 /\ devs'[n + 1] = new
          /\ \A i \in 1..n : devs'[i] = devs[i]
      BY <3>2, <3>3, <3>4, Appended
    <3>6. ASSUME NEW d \in 2..Len(devs'), d <= Len(config) + 1
          PROVE  Cardinality(RoomSet(d)') >= Asked(config[d - 1])
      <4>1. CASE d = n + 1
        <5>1. Len(devs) <= Len(config) /\ d - 1 = Len(devs)
          BY <3>3, <3>6, <4>1
        <5>2. Cardinality(RoomSet(n + 1)') >= Asked(config[n])
          BY <1>1, <3>1, <5>1, RoomNew
        <5> QED
          BY <4>1, <5>1, <5>2
      <4>2. CASE d # n + 1
        <5>1. d \in 2..n /\ d \in 2..Len(devs) /\ devs'[d] = devs[d]
          BY <3>3, <3>5, <4>2
        <5>2. Cardinality(RoomSet(d)) >= Asked(config[d - 1])
          BY <3>6, <5>1 DEF AreaInv, RoomInv
        <5>3. /\ Cardinality(RoomSet(d)') >= Cardinality(RoomSet(d))
              /\ Cardinality(RoomSet(d)') \in Nat /\ Cardinality(RoomSet(d)) \in Nat
          BY <1>1, <1>2, <1>6, <2>1, <5>1, RoomKept
        <5>4. d - 1 \in 1..Len(config)
          BY <3>3, <3>6, <5>1
        <5>5. Asked(config[d - 1]) \in Nat
          BY <3>3, <5>4, ElementOfSeq, AskedType
        <5> QED
          BY <5>2, <5>3, <5>5
      <4> QED
        BY <4>1, <4>2
    <3>7. Len(devs') >= 2 => devs'[2].offset = FirstOffset
      <4>1. CASE n = 1
        <5>1. devs'[2] = new /\ NextOffset = FirstOffset
          BY <3>5, <4>1 DEF NextOffset
        <5> QED
          BY <3>4, <5>1
      <4>2. CASE n # 1
        <5>1. n >= 2 /\ 2 \in 1..n
          BY <3>3, <4>2
        <5> QED
          BY <3>5, <5>1 DEF AreaInv
      <4> QED
        BY <4>1, <4>2
    <3> QED
      BY <1>1, <1>2, <1>3, <2>2, <3>6, <3>7 DEF AreaInv, RoomInv
  <2> QED
    BY <2>3, <2>4
<1> QED
  BY <1>4, <1>5, <1>6

(* It holds at the start.                                                  *)
LEMMA AreaInvInit == BlockInit => AreaInv
<1> SUFFICES ASSUME BlockInit PROVE AreaInv
  OBVIOUS
<1>1. /\ chip_num \in ChipNums /\ config \in Configs /\ phase = "repair"
      /\ devs = <<BootDevice>> /\ saved = blk_status /\ todo \subseteq UsedReserved
  BY DEF BlockInit
<1>2. BootBlks \in Nat /\ Len(config) \in Nat
  BY <1>1, LayoutAssumption
<1>3. PlacedInv
  <2> DEFINE S == [offset : Nat, size : Nat]
  <2>1. BootDevice \in S
    BY <1>2 DEF BootDevice
  <2> HIDE DEF S
  <2>2. /\ <<BootDevice>> \in Seq(S) /\ Len(<<BootDevice>>) = 1
        /\ <<BootDevice>>[1] = BootDevice
    BY <2>1
  <2>3. 2..Len(devs) = {} /\ Len(devs) = 1
    BY <1>1, <2>2
  <2> QED
    BY <1>1, <1>2, <2>2, <2>3 DEF PlacedInv, S
<1>4. TableInv
  <2>1. PICK t \in Tables : blk_status = TableOf(t)
    BY DEF BlockInit
  <2>2. blk_status \in [Addresses -> Statuses]
    BY <2>1 DEF TableOf, Statuses
  <2> QED
    BY <1>1, <2>2, UsedReservedFacts DEF TableInv
<1>5. Len(devs) = 1 /\ 2..Len(devs) = {}
  BY <1>1
<1> QED
  BY <1>3, <1>4, <1>5 DEF AreaInv, RoomInv

(* So it always holds.                                                     *)
LEMMA AreaInvAlways == BlockSpec => []AreaInv
BY AreaInvInit, AreaInvStep, PTL DEF BlockSpec

(* On any number of chips, whatever blocks are bad from the factory, a     *)
(* device has as many usable units as its partitions and the FTL ask for,  *)
(* after any restarts, repairs and marks.                                  *)
THEOREM DevicesHaveRoom == BlockSpec => []DeviceHasRoom
<1>1. AreaInv => DeviceHasRoom
  <2> SUFFICES ASSUME AreaInv, phase = "up", NEW d \in 2..Len(config) + 1
               PROVE  Cardinality(RoomSet(d)) >= Asked(config[d - 1])
    BY DEF DeviceHasRoom, RoomSet
  <2>1. Len(devs) = Len(config) + 2 /\ Len(config) \in Nat
    BY LayoutAssumption DEF AreaInv, PlacedInv
  <2> QED
    BY <2>1 DEF AreaInv, RoomInv
<1> QED
  BY AreaInvAlways, <1>1, PTL

(* With one chip no row of a device has a block of the metadata area.      *)
LEMMA ReservedBelow ==
  ASSUME AreaInv, chip_num = 1, NEW a, Reserved(a), NEW row \in Nat,
         FirstOffset <= Unit * row
  PROVE  a \notin SetOf(UnitBlocks(row))
<1> SUFFICES ASSUME a \in SetOf(UnitBlocks(row)) PROVE FALSE
  OBVIOUS
<1>1. chip_num \in ChipNums /\ TableInv
  BY DEF AreaInv, PlacedInv
<1>2. PlaneNum \in {1, 2} /\ Unit = PlaneNum /\ BootBlks \in Nat /\ FirstOffset \in Nat
  <2>1. PlaneNum \in {1, 2} /\ BootBlks \in Nat /\ FirstOffset \in Nat
    BY <1>1, UnitType, FirstOffsetFacts
  <2> QED
    BY <2>1 DEF Unit
<1>3. LastReserve \in Nat /\ LastReserve <= FirstOffset
  BY <1>1, ReserveEndsBefore
<1>4. PICK n \in BootBlks..LastReserve - 1 : a = ReservedAddr(n)
  BY DEF Reserved
<1>5. n \in Nat /\ a[2] = n
  <2>1. n \in Nat
    BY <1>2, <1>3
  <2>2. ReservedAddr(n)[2] = n
    BY <1>2, <2>1, Z3 DEF ReservedAddr
  <2> QED
    BY <1>4, <2>1, <2>2
<1>6. PICK b \in Nat : PlaneNum * row <= b /\ a[2] = b
  BY <1>1, RowBlocks
<1>7. PlaneNum * row \in Nat
  BY <1>2
<1> QED
  BY <1>2, <1>3, <1>4, <1>5, <1>6, <1>7

(* No device starts before the first one.                                  *)
LEMMA FirstIsLowest ==
  ASSUME AreaInv, NEW d \in 2..Len(devs)
  PROVE  FirstOffset <= devs[d].offset
<1>1. Len(devs) \in Nat /\ 2 \in 2..Len(devs) /\ PlacedInv
  BY DEF AreaInv, PlacedInv
<1>2. devs[2].offset = FirstOffset /\ devs[2].offset \in Nat /\ devs[2].size \in Nat
  BY <1>1, DevicePlaced DEF AreaInv
<1>3. d = 2 \/ 2 < d
  OBVIOUS
<1>4. 2 < d => devs[2].offset + devs[2].size <= devs[d].offset
  BY <1>1 DEF PlacedInv
<1>5. devs[d].offset \in Nat
  BY <1>1, DevicePlaced
<1> QED
  BY <1>2, <1>3, <1>4, <1>5

(* For any geometry and any bad blocks, amlnand_phydev_init gives the      *)
(* devices disjoint areas on the chips, outside the boot area and, with    *)
(* one chip, outside the metadata area.                                    *)
THEOREM AreasAreDisjoint == BlockSpec => []AreasDisjoint
<1>1. AreaInv => AreasDisjoint
  <2> SUFFICES ASSUME AreaInv, NEW d \in 2..Len(devs)
               PROVE  /\ DevArea(d) \subseteq Addresses \ BootArea
                      /\ chip_num = 1 => DevArea(d) \intersect ReservedArea = {}
                      /\ \A e \in (2..Len(devs)) \ {d} :
                           DevArea(d) \intersect DevArea(e) = {}
    BY DEF AreasDisjoint, Devices
  <2>1. PlacedInv
    BY DEF AreaInv
  <2>2. DevArea(d) \subseteq Addresses \ BootArea
    BY <2>1, AreaOnChip DEF DevArea
  <2>3. ASSUME chip_num = 1 PROVE DevArea(d) \intersect ReservedArea = {}
    <3> SUFFICES ASSUME NEW u \in 0..Units(d) - 1,
                        NEW a \in SetOf(UnitBlocks(Row(d, u))), a \in ReservedArea
                 PROVE  FALSE
      BY DEF DevArea
    <3>1. Reserved(a)
      BY DEF Reserved, ReservedArea
    <3>2. Row(d, u) \in Nat /\ devs[d].offset <= Unit * Row(d, u)
      BY <2>1, RowInDevice
    <3>3. /\ devs[d].offset \in Nat /\ FirstOffset <= devs[d].offset
          /\ FirstOffset \in Nat /\ Unit \in Nat
      BY <2>1, FirstIsLowest, DevicePlaced, FirstOffsetFacts, UnitType
    <3>4. Unit * Row(d, u) \in Nat
      BY <3>2, <3>3
    <3>5. FirstOffset <= Unit * Row(d, u)
      BY <3>2, <3>3, <3>4
    <3> QED
      BY <2>3, <3>1, <3>2, <3>5, ReservedBelow
  <2>4. ASSUME NEW e \in (2..Len(devs)) \ {d}
        PROVE  DevArea(d) \intersect DevArea(e) = {}
    <3>1. d < e \/ e < d
      OBVIOUS
    <3>2. CASE d < e
      BY <2>1, <3>2, AreasApart
    <3>3. CASE e < d
      <4>1. DevArea(e) \intersect DevArea(d) = {}
        BY <2>1, <3>3, AreasApart
      <4> QED
        BY <4>1
    <3> QED
      BY <3>1, <3>2, <3>3
  <2> QED
    BY <2>2, <2>3, <2>4
<1> QED
  BY AreaInvAlways, <1>1, PTL

-----------------------------------------------------------------------------
(* The rows of a device, across a restart.                                 *)

(* The blocks of row r.                                                    *)
RowBlocksOf(r) == SetOf(UnitBlocks(r))

(* None of them is factory bad.                                            *)
RowUnhurt(r) == \A a \in RowBlocksOf(r) : GetBlockStatus(a) # "factory_bad"

(* A row of the devices is the same in RAM and on flash, or has no factory *)
(* bad block.                                                              *)
RowInv ==
  \A r \in Nat : FirstOffset <= Unit * r =>
    \/ \A a \in RowBlocksOf(r) : a \in Addresses => saved[a] = blk_status[a]
    \/ RowUnhurt(r)

(* A block is in one row.                                                  *)
LEMMA RowUnique ==
  ASSUME chip_num \in ChipNums, NEW r \in Nat, NEW s \in Nat, NEW a,
         a \in RowBlocksOf(r), a \in RowBlocksOf(s)
  PROVE  r = s
<1>1. PlaneNum \in {1, 2}
  BY UnitType
<1>2. PICK b \in Nat : PlaneNum * r <= b /\ b < PlaneNum * r + PlaneNum /\ a[2] = b
  BY RowBlocks DEF RowBlocksOf
<1>3. PICK c \in Nat : PlaneNum * s <= c /\ c < PlaneNum * s + PlaneNum /\ a[2] = c
  BY RowBlocks DEF RowBlocksOf
<1>4. b = c
  BY <1>2, <1>3
<1> QED
  BY <1>1, <1>2, <1>3, <1>4

(* No row of the devices has both a reserved and a factory bad block.      *)
Unmixed == \A r \in 0..BlkNum : ~MixedRow(r)

(* Then a row with a reserved block has no factory bad one.                *)
LEMMA UnmixedRows ==
  ASSUME AreaInv, Unmixed, NEW r \in Nat, FirstOffset <= Unit * r,
         NEW a \in RowBlocksOf(r), Reserved(a)
  PROVE  RowUnhurt(r)
<1>1. chip_num \in ChipNums /\ blk_status \in [Addresses -> Statuses]
  BY DEF AreaInv, PlacedInv, TableInv
<1>2. PlaneNum \in {1, 2} /\ BlkNum \in Nat
  BY <1>1, UnitType
<1>3. CASE r \in 0..BlkNum
  <2>1. a \in SetOf(UnitBlocks(r)) \intersect ReservedArea
    BY DEF RowBlocksOf, Reserved, ReservedArea
  <2> QED
    BY <1>3, <2>1 DEF Unmixed, MixedRow, RowUnhurt, RowBlocksOf
<1>4. CASE r > BlkNum
  <2> SUFFICES ASSUME NEW b \in RowBlocksOf(r) PROVE b \notin Addresses
    BY <1>1 DEF RowUnhurt, GetBlockStatus
  <2>1. PICK k \in Nat : PlaneNum * r <= k /\ b[2] = k
    BY <1>1, RowBlocks DEF RowBlocksOf
  <2>2. PlaneNum * r >= r /\ PlaneNum * r \in Nat
    BY <1>2
  <2>3. b[2] \notin 0..BlkNum - 1
    BY <1>2, <1>4, <2>1, <2>2
  <2> QED
    BY <2>3 DEF Addresses
<1> QED
  BY <1>2, <1>3, <1>4

(* With one chip the devices have no reserved block at all.                *)
LEMMA OneChipUnmixed ==
  ASSUME AreaInv, chip_num = 1
  PROVE  Unmixed
<1> SUFFICES ASSUME NEW r \in 0..BlkNum, MixedRow(r) PROVE FALSE
  BY DEF Unmixed
<1>1. r \in Nat /\ FirstOffset <= Unit * r
  BY DEF MixedRow
<1>2. PICK a \in SetOf(UnitBlocks(r)) : a \in ReservedArea
  BY DEF MixedRow
<1>3. Reserved(a)
  BY <1>2 DEF Reserved, ReservedArea
<1> QED
  BY <1>1, <1>2, <1>3, ReservedBelow

(* A step changes a row of the devices only if it has no factory bad       *)
(* block.                                                                  *)
LEMMA RowDuringStep ==
  ASSUME AreaInv, RowInv, Unmixed, [BlockNext]_vars,
         NEW r \in Nat, FirstOffset <= Unit * r
  PROVE  \/ \A a \in RowBlocksOf(r) : a \in Addresses => blk_status'[a] = blk_status[a]
         \/ RowUnhurt(r)
<1>1. PlacedInv /\ TableInv /\ chip_num \in ChipNums
  BY DEF AreaInv, PlacedInv
<1>2. CASE Restart
  <2>1. blk_status' = saved
    BY <1>2 DEF Restart
  <2> QED
    BY <2>1 DEF RowInv
<1>3. CASE ~Restart
  <2>1. TableStep
    BY <1>1, <1>3, NoRestartStep
  <2> SUFFICES ASSUME NEW a \in RowBlocksOf(r), a \in Addresses,
                      blk_status'[a] # blk_status[a]
               PROVE  RowUnhurt(r)
    OBVIOUS
  <2>2. MayBecome(a, blk_status'[a])
    BY <2>1 DEF TableStep
  <2>3. CASE Reserved(a)
    BY <2>3, UnmixedRows
  <2>7. CASE ~Reserved(a)
    <3>1. PICK d \in 2..Len(devs) : \E u \in 0..Units(d) - 1 :
            GoodUnit(d, u) /\ a \in RowBlocksOf(Row(d, u))
      BY <2>2, <2>7 DEF MayBecome, InGoodUnit, Devices, RowBlocksOf
    <3>2. PICK u \in 0..Units(d) - 1 : GoodUnit(d, u) /\ a \in RowBlocksOf(Row(d, u))
      BY <3>1
    <3>3. Row(d, u) = r
      BY <1>1, <3>2, RowInDevice, RowUnique
    <3> QED
      BY <1>1, <3>2, <3>3, GoodUnitBlocks DEF RowUnhurt, RowBlocksOf
  <2> QED
    BY <2>3, <2>7
<1> QED
  BY <1>2, <1>3

(* What no step changes, restarts included.                                *)
LEMMA StepFrame ==
  ASSUME AreaInv, [BlockNext]_vars
  PROVE  /\ UNCHANGED <<chip_num, config>> /\ FactorySame
         /\ FirstOffset' = FirstOffset /\ Unit' = Unit /\ ChipSize' = ChipSize
         /\ Addresses' = Addresses /\ \A r : UnitBlocks(r)' = UnitBlocks(r)
         /\ \A r : RowBlocksOf(r)' = RowBlocksOf(r)
         /\ blk_status' \in [Addresses -> Statuses]
<1>1. PlacedInv /\ TableInv
  BY DEF AreaInv
<1>2. FactorySame /\ TableInv'
  BY <1>1, TableStepKeeps
<1>3. UNCHANGED <<chip_num, config>>
  <2>1. CASE Restart
    BY <2>1 DEF Restart
  <2> QED
    BY <1>1, <2>1, NoRestartStep
<1>4. /\ FirstOffset' = FirstOffset /\ Unit' = Unit /\ ChipSize' = ChipSize
      /\ Addresses' = Addresses
  BY <1>2, <1>3, ScansKept, SameFrame
<1>5. \A r : UnitBlocks(r)' = UnitBlocks(r)
  BY <1>4 DEF UnitBlocks
<1>6. \A r : RowBlocksOf(r)' = RowBlocksOf(r)
  BY <1>5 DEF RowBlocksOf, SetOf
<1>7. blk_status' \in [Addresses -> Statuses]
  BY <1>2, <1>4 DEF TableInv
<1> QED
  BY <1>2, <1>3, <1>4, <1>5, <1>6, <1>7

(* Which rows are mixed never changes.                                     *)
LEMMA UnmixedKept ==
  ASSUME AreaInv, [BlockNext]_vars
  PROVE  Unmixed' <=> Unmixed
<1>1. /\ FactorySame /\ FirstOffset' = FirstOffset /\ Unit' = Unit
      /\ UNCHANGED chip_num /\ \A r : UnitBlocks(r)' = UnitBlocks(r)
  BY StepFrame
<1>2. ReservedArea' = ReservedArea
  BY <1>1, ScansKept DEF ReservedArea
<1>3. ASSUME NEW r \in 0..BlkNum PROVE MixedRow(r)' <=> MixedRow(r)
  <2>1. SetOf(UnitBlocks(r))' = SetOf(UnitBlocks(r))
    BY <1>1 DEF SetOf
  <2>2. \A a : (GetBlockStatus(a) = "factory_bad")' <=> GetBlockStatus(a) = "factory_bad"
    BY <1>1 DEF FactorySame
  <2> QED
    BY <1>1, <1>2, <2>1, <2>2 DEF MixedRow
<1> QED
  BY <1>3 DEF Unmixed

(* Every step keeps the rows so.                                           *)
LEMMA RowInvKept ==
  ASSUME AreaInv, RowInv, Unmixed, [BlockNext]_vars
  PROVE  RowInv'
<1>1. PlacedInv /\ TableInv
  BY DEF AreaInv
<1>2. /\ FactorySame /\ FirstOffset' = FirstOffset /\ Unit' = Unit
      /\ Addresses' = Addresses /\ \A r : RowBlocksOf(r)' = RowBlocksOf(r)
  BY StepFrame
<1>3. ASSUME NEW r \in Nat, RowUnhurt(r) PROVE RowUnhurt(r)'
  BY <1>2, <1>3 DEF RowUnhurt, FactorySame
<1>4. ASSUME NEW r \in Nat, FirstOffset <= Unit * r
      PROVE  \/ \A a \in RowBlocksOf(r) : a \in Addresses => saved'[a] = blk_status'[a]
             \/ RowUnhurt(r)'
  <2>1. CASE RowUnhurt(r)
    BY <1>3, <2>1
  <2>2. CASE ~RowUnhurt(r)
    <3>1. \A a \in RowBlocksOf(r) : a \in Addresses => saved[a] = blk_status[a]
      BY <1>4, <2>2 DEF RowInv
    <3>2. \A a \in RowBlocksOf(r) : a \in Addresses => blk_status'[a] = blk_status[a]
      BY <1>4, <2>2, RowDuringStep
    <3>3. CASE Restart
      BY <3>3 DEF Restart
    <3>4. CASE ~Restart
      <4>1. saved' = saved \/ saved' = blk_status'
        BY <1>1, <3>4, NoRestartStep DEF TableStep
      <4> QED
        BY <3>1, <3>2, <4>1
    <3> QED
      BY <3>3, <3>4
  <2> QED
    BY <2>1, <2>2
<1> QED
  BY <1>2, <1>4 DEF RowInv

(* No step changes whether a row counts as factory bad, although a restart *)
(* may bring back an older table.                                          *)
LEMMA RowsKept ==
  ASSUME AreaInv, RowInv, Unmixed, [BlockNext]_vars,
         NEW r \in Nat, FirstOffset <= Unit * r
  PROVE  (BlockIsbad(UnitBlocks(r)) = "factory_bad")' <=>
           BlockIsbad(UnitBlocks(r)) = "factory_bad"
<1> DEFINE B == UnitBlocks(r)
<1>1. /\ FactorySame /\ Unit' = Unit /\ B' = B /\ Addresses' = Addresses
      /\ blk_status' \in [Addresses -> Statuses]
  BY StepFrame
<1>2. Unit \in Nat /\ DOMAIN B = 1..Unit
  BY UnitType DEF AreaInv, PlacedInv, UnitBlocks
<1>3. PICK b : b = B
  OBVIOUS
<1>4. \A k \in 1..Unit : b[k] \in RowBlocksOf(r)
  BY <1>2, <1>3 DEF RowBlocksOf, SetOf
<1> HIDE DEF B
<1>5. (BlockIsbad(B))' = BlockIsbad(b)' /\ BlockIsbad(B) = BlockIsbad(b)
  BY <1>1, <1>3 DEF BlockIsbad, GetBlockStatus
<1>6. /\ BlockIsbad(b) = "factory_bad" <=>
           \E k \in 1..Unit :
             /\ GetBlockStatus(b[k]) = "factory_bad"
             /\ \A j \in 1..k - 1 : GetBlockStatus(b[j]) = "good"
      /\ (BlockIsbad(b) = "factory_bad")' <=>
           \E k \in 1..Unit :
             /\ (GetBlockStatus(b[k]) = "factory_bad")'
             /\ \A j \in 1..k - 1 : (GetBlockStatus(b[j]) = "good")'
  BY <1>1, <1>2, <1>3, IsbadAlways DEF IsbadMeaning
<1>7. CASE RowUnhurt(r)
  <2>1. \A k \in 1..Unit : GetBlockStatus(b[k]) # "factory_bad"
    BY <1>4, <1>7 DEF RowUnhurt
  <2>2. \A k \in 1..Unit : ~(GetBlockStatus(b[k]) = "factory_bad")'
    BY <1>1, <2>1 DEF FactorySame
  <2> QED
    BY <1>5, <1>6, <2>1, <2>2 DEF B
<1>8. CASE \A a \in RowBlocksOf(r) : a \in Addresses => blk_status'[a] = blk_status[a]
  <2>1. DOMAIN blk_status = Addresses /\ DOMAIN blk_status' = Addresses
    BY <1>1 DEF AreaInv, TableInv
  <2>2. \A k \in 1..Unit : GetBlockStatus(b[k])' = GetBlockStatus(b[k])
    BY <1>4, <1>8, <2>1 DEF GetBlockStatus
  <2>3. \A k \in 1..Unit : \A j \in 1..k - 1 : j \in 1..Unit
    BY <1>2
  <2> QED
    BY <1>5, <1>6, <2>2, <2>3 DEF B
<1> QED
  BY <1>7, <1>8, RowDuringStep

(* So the same scan finds the same size at every start.                    *)
LEMMA SizeForKept ==
  ASSUME AreaInv, RowInv, Unmixed, [BlockNext]_vars,
         NEW o \in Nat, Whole(o), FirstOffset <= o, NEW z
  PROVE  SizeFor(o, z)' = SizeFor(o, z)
<1>1. Unit' = Unit /\ Unit \in Nat \ {0} /\ FirstOffset \in Nat /\ BlkNum \in Nat
  BY StepFrame, UnitType, FirstOffsetFacts DEF AreaInv, PlacedInv
<1>2. PICK f \in Nat : o = Unit * f
  BY DEF Whole
<1>3. o \div Unit = f
  <2>1. Unit * f < Unit * f + Unit /\ Unit * f <= Unit * f /\ Unit * f \in Int
    BY <1>1, <1>2
  <2> QED
    BY <1>1, <1>2, <2>1, DivUnique
<1>4. (FactoryBadRows \ (0..f - 1))' = FactoryBadRows \ (0..f - 1)
  <2>1. ASSUME NEW r \in 0..BlkNum, r \notin 0..f - 1
        PROVE  r \in FactoryBadRows' <=> r \in FactoryBadRows
    <3>1. r \in Nat /\ f <= r
      BY <1>1, <2>1
    <3>2. Unit * f <= Unit * r /\ Unit * r \in Nat
      BY <1>1, <3>1, Z3
    <3>3. FirstOffset <= Unit * r
      BY <1>1, <1>2, <3>2
    <3> QED
      BY <3>1, <3>3, RowsKept DEF FactoryBadRows
  <2> QED
    BY <2>1 DEF FactoryBadRows
<1>5. Asked(z)' = Asked(z)
  BY <1>1 DEF Asked
<1> DEFINE bad == FactoryBadRows \ (0..f - 1)
<1>6. bad' = bad
  BY <1>4
<1>7. SizeFor(o, z) = RoundUp(ScanEnd(bad, f, Asked(z)) - f + (o - (o % Wrap)) \div Unit,
                              Unit) * Unit
  BY <1>3 DEF SizeFor
<1>8. SizeFor(o, z)' = RoundUp(ScanEnd(bad', f, Asked(z)') - f
                                 + (o - (o % Wrap)) \div Unit', Unit') * Unit'
  BY <1>1, <1>3 DEF SizeFor
<1> HIDE DEF bad
<1> QED
  BY <1>1, <1>5, <1>6, <1>7, <1>8

-----------------------------------------------------------------------------
(* A layout is a function of the table it is built on.                     *)

(* Where the device behind the k-th one of s starts.                       *)
OffsetAfter(s, k) == IF k = 1 THEN FirstOffset ELSE s[k].offset + s[k].size

(* Its size.                                                               *)
SizeAfter(s, k) ==
  IF k > Len(config) THEN ChipSize - s[k].offset - s[k].size
                     ELSE SizeFor(OffsetAfter(s, k), config[k])

(* The device behind the k-th one is the one amlnand_phydev_init makes     *)
(* there.                                                                  *)
BuiltAt(s, k) ==
  /\ s[k + 1] = [offset |-> OffsetAfter(s, k), size |-> SizeAfter(s, k)]
  /\ OffsetAfter(s, k) \in Nat /\ Whole(OffsetAfter(s, k))
  /\ FirstOffset <= OffsetAfter(s, k)
  /\ ~(OffsetAfter(s, k) + SizeAfter(s, k) > ChipSize)

(* All devices of s are.                                                   *)
Built(s) == \A k \in 1..Len(s) - 1 : BuiltAt(s, k)

(* The layout of the first start and the current one are both what the     *)
(* table gives, so that one is the beginning of the other.                 *)
StableInv ==
  Unmixed =>
    /\ RowInv
    /\ Built(devs)
    /\ phase = "up" => first = devs
    /\ first # <<>> =>
         /\ first \in Seq([offset : Nat, size : Nat])
         /\ Len(first) = Len(config) + 2
         /\ first[1] = BootDevice
         /\ Built(first)
         /\ \A i \in 1..Len(devs) : devs[i] = first[i]
         /\ phase # "failed"

(* No step changes what the table gives.                                   *)
LEMMA BuiltKept ==
  ASSUME AreaInv, RowInv, Unmixed, [BlockNext]_vars, NEW s, Built(s)
  PROVE  Built(s)'
<1> SUFFICES ASSUME NEW k \in 1..Len(s) - 1 PROVE BuiltAt(s, k)'
  BY DEF Built
<1>1. BuiltAt(s, k)
  BY DEF Built
<1>2. /\ UNCHANGED <<chip_num, config>> /\ FirstOffset' = FirstOffset
      /\ ChipSize' = ChipSize /\ Unit' = Unit
  BY StepFrame
<1> DEFINE o == OffsetAfter(s, k)
<1>3. OffsetAfter(s, k)' = o
  BY <1>2 DEF OffsetAfter
<1>4. o \in Nat /\ Whole(o) /\ FirstOffset <= o
  BY <1>1 DEF BuiltAt
<1>5. SizeFor(o, config[k])' = SizeFor(o, config[k])
  <2>1. PICK p : p = o
    OBVIOUS
  <2>2. PICK z : z = config[k]
    OBVIOUS
  <2>3. SizeFor(p, z)' = SizeFor(p, z)
    BY <1>4, <2>1, SizeForKept
  <2> QED
    BY <1>2, <1>3, <2>1, <2>2, <2>3
<1>6. SizeAfter(s, k)' = SizeAfter(s, k)
  BY <1>2, <1>5 DEF SizeAfter
<1>7. Whole(OffsetAfter(s, k))'
  BY <1>2, <1>3, <1>4 DEF Whole
<1> HIDE DEF o
<1> QED
  BY <1>1, <1>2, <1>3, <1>6, <1>7 DEF BuiltAt, o

(* AddDevice makes the device the table gives.                             *)
LEMMA NextIsBuilt ==
  ASSUME AreaInv, phase = "layout", ~(NextOffset + NewSize > ChipSize),
         NEW n \in Nat, n = Len(devs)
  PROVE  /\ NextOffset = OffsetAfter(devs, n) /\ NewSize = SizeAfter(devs, n)
         /\ NextOffset \in Nat /\ Whole(NextOffset) /\ FirstOffset <= NextOffset
<1>1. NextOffset = OffsetAfter(devs, n) /\ NewSize = SizeAfter(devs, n)
  BY DEF NextOffset, OffsetAfter, NewSize, SizeAfter, Last
<1>2. PlacedInv /\ n >= 1 /\ chip_num \in ChipNums
  BY DEF AreaInv, PlacedInv
<1>3. NextOffset \in Nat /\ Whole(NextOffset)
      /\ \A d \in 2..Len(devs) : devs[d].offset + devs[d].size <= NextOffset
  BY <1>2, NextOffsetFacts
<1>4. FirstOffset <= NextOffset
  <2>1. FirstOffset \in Nat
    BY <1>2, FirstOffsetFacts
  <2>2. CASE n = 1
    BY <2>1, <2>2 DEF NextOffset
  <2>3. CASE n # 1
    <3>1. n \in 2..Len(devs)
      BY <1>2, <2>3, PastFirst
    <3>2. FirstOffset <= devs[n].offset /\ devs[n].offset \in Nat /\ devs[n].size \in Nat
      BY <1>2, <3>1, FirstIsLowest, DevicePlaced
    <3>3. devs[n].offset + devs[n].size <= NextOffset
      BY <1>3, <3>1
    <3> QED
      BY <1>3, <2>1, <3>2, <3>3
  <2> QED
    BY <2>2, <2>3
<1> QED
  BY <1>1, <1>3, <1>4

(* What comes behind a device depends on that device only.                 *)
LEMMA SameAfter ==
  ASSUME NEW s, NEW t, NEW k, s[k] = t[k]
  PROVE  OffsetAfter(s, k) = OffsetAfter(t, k) /\ SizeAfter(s, k) = SizeAfter(t, k)
BY DEF OffsetAfter, SizeAfter

(* The build keeps the two layouts equal as far as it got.                 *)
LEMMA StableLay ==
  ASSUME AreaInv, StableInv, Unmixed, Lay
  PROVE  /\ Built(devs')
         /\ phase' = "up" => first' = devs'
         /\ first' # <<>> =>
              /\ first' \in Seq([offset : Nat, size : Nat])
              /\ Len(first') = Len(config) + 2
              /\ first'[1] = BootDevice
              /\ Built(first')
              /\ \A i \in 1..Len(devs') : devs'[i] = first'[i]
              /\ phase' # "failed"
<1> DEFINE S == [offset : Nat, size : Nat]
           new == [offset |-> NextOffset, size |-> NewSize]
<1>1. /\ phase = "layout" /\ UNCHANGED <<chip_num, config, blk_status>>
      /\ first' = IF phase' = "up" /\ first = <<>> THEN devs' ELSE first
      /\ \/ /\ phase' = "failed" /\ UNCHANGED devs /\ NextOffset + NewSize > ChipSize
         \/ /\ ~(NextOffset + NewSize > ChipSize)
            /\ devs' = Append(devs, new)
            /\ phase' = IF Len(devs) > Len(config) THEN "up" ELSE "layout"
  BY DEF Lay, AddDevice, NewSize
<1>2. PlacedInv /\ devs \in Seq(S) /\ Len(devs) \in Nat /\ Len(devs) >= 1
      /\ devs[1] = BootDevice /\ Len(devs) <= Len(config) + 1
  BY <1>1 DEF AreaInv, PlacedInv
<1>3. Len(config) \in Nat
  BY LayoutAssumption DEF AreaInv, PlacedInv
<1> PICK n \in Nat : n = Len(devs)
  BY <1>2
<1>4. Built(devs)
  BY DEF StableInv
<1>5. ASSUME first # <<>>
      PROVE  /\ NextOffset = OffsetAfter(first, n) /\ NewSize = SizeAfter(first, n)
             /\ BuiltAt(first, n)
  <2>1. devs[n] = first[n] /\ n \in 1..Len(first) - 1
    BY <1>2, <1>3, <1>5 DEF StableInv
  <2>2. NextOffset = OffsetAfter(devs, n) /\ NewSize = SizeAfter(devs, n)
    BY DEF NextOffset, OffsetAfter, NewSize, SizeAfter, Last
  <2>3. OffsetAfter(devs, n) = OffsetAfter(first, n)
        /\ SizeAfter(devs, n) = SizeAfter(first, n)
    BY <2>1, SameAfter
  <2>4. BuiltAt(first, n)
    BY <1>5, <2>1 DEF StableInv, Built
  <2> QED
    BY <2>2, <2>3, <2>4
<1>6. CASE NextOffset + NewSize > ChipSize
  <2>1. first = <<>>
    BY <1>5, <1>6 DEF BuiltAt
  <2>2. first' = <<>> /\ phase' = "failed" /\ UNCHANGED devs
    BY <1>1, <1>6, <2>1
  <2> QED
    BY <1>4, <2>2
<1>7. CASE ~(NextOffset + NewSize > ChipSize)
  <2>1. /\ devs' = Append(devs, new)
        /\ phase' = IF Len(devs) > Len(config) THEN "up" ELSE "layout"
    BY <1>1, <1>7
  <2>2. new \in S
    <3>1. NextOffset \in Nat /\ NewSize \in Nat
      BY <1>1, <1>2, <1>7, NextOffsetFacts, NewSizeFacts
    <3> HIDE DEF NextOffset, NewSize
    <3> QED
      BY <3>1
  <2>3. /\ NextOffset = OffsetAfter(devs, n) /\ NewSize = SizeAfter(devs, n)
        /\ NextOffset \in Nat /\ Whole(NextOffset) /\ FirstOffset <= NextOffset
    BY <1>1, <1>7, NextIsBuilt
  <2> HIDE DEF S
  <2>4. /\ devs' \in Seq(S) /\ Len(devs') = n + 1 /\ devs'[n + 1] = new
        /\ \A i \in 1..n : devs'[i] = devs[i]
    <3> HIDE DEF new
    <3> QED
      BY <1>2, <2>1, <2>2, Appended
  <2>5. Built(devs')
    <3> SUFFICES ASSUME NEW k \in 1..n PROVE BuiltAt(devs', k)
      BY <2>4 DEF Built
    <3>1. devs'[k] = devs[k]
      BY <2>4
    <3>2. OffsetAfter(devs', k) = OffsetAfter(devs, k)
          /\ SizeAfter(devs', k) = SizeAfter(devs, k)
      BY <3>1, SameAfter
    <3>3. CASE k = n
      <4>1. devs'[k + 1] = [offset |-> OffsetAfter(devs, k), size |-> SizeAfter(devs, k)]
        BY <2>3, <2>4, <3>3
      <4> QED
        BY <1>7, <2>3, <3>2, <3>3, <4>1 DEF BuiltAt
    <3>4. CASE k # n
      <4>1. k \in 1..Len(devs) - 1 /\ k + 1 \in 1..n
        BY <3>4
      <4>2. BuiltAt(devs, k) /\ devs'[k + 1] = devs[k + 1]
        BY <1>4, <2>4, <4>1 DEF Built
      <4> QED
        BY <3>2, <4>2 DEF BuiltAt
    <3> QED
      BY <3>3, <3>4
  <2>6. CASE first = <<>>
    <3>1. CASE phase' = "up"
      <4>1. first' = devs'
        BY <1>1, <2>6, <3>1
      <4>2. Len(devs') = Len(config) + 2 /\ devs'[1] = BootDevice
        BY <1>2, <1>3, <2>1, <2>4, <3>1
      <4> QED
        BY <2>4, <2>5, <3>1, <4>1, <4>2 DEF S
    <3>2. CASE phase' # "up"
      BY <1>1, <2>5, <2>6, <3>2
    <3> QED
      BY <3>1, <3>2
  <2>7. CASE first # <<>>
    <3>1. first' = first
      BY <1>1, <2>7
    <3>2. /\ first \in Seq(S) /\ Len(first) = Len(config) + 2 /\ first[1] = BootDevice
          /\ Built(first) /\ \A i \in 1..Len(devs) : devs[i] = first[i]
      BY <2>7 DEF StableInv, S
    <3>3. first[n + 1] = new
      BY <1>5, <2>7 DEF BuiltAt
    <3>4. \A i \in 1..Len(devs') : devs'[i] = first[i]
      BY <2>4, <3>2, <3>3
    <3>5. phase' = "up" => first = devs'
      <4> SUFFICES ASSUME phase' = "up" PROVE first = devs'
        OBVIOUS
      <4>1. Len(devs') = Len(first)
        BY <1>2, <1>3, <2>1, <2>4, <3>2
      <4> QED
        BY <2>4, <3>2, <3>4, <4>1, SeqEqual
    <3>6. phase' # "failed"
      BY <2>1
    <3> QED
      BY <2>5, <3>1, <3>2, <3>4, <3>5, <3>6 DEF S
  <2> QED
    BY <2>6, <2>7
<1> QED
  BY <1>6, <1>7

-----------------------------------------------------------------------------
(* The layout after a restart.                                             *)

(* f is a complete layout that the table gives.                            *)
FirstOK(f) ==
  f # <<>> =>
    /\ f \in Seq([offset : Nat, size : Nat])
    /\ Len(f) = Len(config) + 2
    /\ f[1] = BootDevice
    /\ Built(f)

(* What is enough for the invariant after a step.                          *)
LEMMA StableFrom ==
  ASSUME AreaInv, RowInv, Unmixed, [BlockNext]_vars,
         NEW d, NEW f, d = devs', f = first', Built(d), FirstOK(f),
         phase' = "up" => f = d,
         f # <<>> => (\A i \in 1..Len(d) : d[i] = f[i]) /\ phase' # "failed"
  PROVE  StableInv'
<1>1. RowInv' /\ UNCHANGED <<chip_num, config>> /\ BootDevice' = BootDevice
  BY RowInvKept, StepFrame DEF BootDevice
<1>2. Built(d)' /\ (f # <<>> => Built(f)')
  BY BuiltKept DEF FirstOK
<1>3. Built(devs)' /\ (f # <<>> => Built(first)')
  BY <1>2 DEF Built, BuiltAt, OffsetAfter, SizeAfter
<1> QED
  BY <1>1, <1>3 DEF StableInv, FirstOK

(* Every step keeps the two layouts equal.                                 *)
LEMMA StableInvStep == AreaInv /\ StableInv /\ [BlockNext]_vars => StableInv'
<1> SUFFICES ASSUME AreaInv, StableInv, [BlockNext]_vars, Unmixed PROVE StableInv'
  <2>1. (Unmixed' <=> Unmixed) \/ ~AreaInv \/ ~[BlockNext]_vars
    BY UnmixedKept
  <2> QED
    BY <2>1 DEF StableInv
<1>1. RowInv /\ Built(devs) /\ FirstOK(first)
  BY DEF StableInv, FirstOK
<1>2. CASE Lay
  <2>1. Built(devs') /\ FirstOK(first')
    BY <1>2, StableLay DEF FirstOK
  <2> QED
    BY <1>1, <1>2, <2>1, StableLay, StableFrom
<1>3. CASE Restart
  <2>1. /\ devs' = <<BootDevice>> /\ phase' \in {"repair", "unread"}
        /\ first' = first
    BY <1>3 DEF Restart, BootDevice
  <2>2. Len(devs') = 1 /\ devs'[1] = BootDevice
    BY <2>1
  <2>3. Built(devs')
    BY <2>2 DEF Built
  <2>4. first' # <<>> => \A i \in 1..Len(devs') : devs'[i] = first'[i]
    BY <1>1, <2>1, <2>2 DEF FirstOK
  <2> QED
    BY <1>1, <2>1, <2>3, <2>4, StableFrom
<1>4. CASE UNCHANGED <<devs, first, phase>>
  <2>1. /\ phase' = "up" => first' = devs'
        /\ first' # <<>> => (\A i \in 1..Len(devs') : devs'[i] = first'[i])
                              /\ phase' # "failed"
    BY <1>4 DEF StableInv
  <2> QED
    BY <1>1, <1>4, <2>1, StableFrom
<1>5. CASE RepairDone
  <2>1. UNCHANGED <<devs, first>> /\ phase' = "layout"
    BY <1>5 DEF RepairDone, opVars
  <2>2. /\ phase' = "up" => first' = devs'
        /\ first' # <<>> => (\A i \in 1..Len(devs') : devs'[i] = first'[i])
                              /\ phase' # "failed"
    BY <2>1 DEF StableInv
  <2> QED
    BY <1>1, <2>1, <2>2, StableFrom
<1>6. CASE ~Lay /\ ~Restart /\ ~RepairDone
  BY <1>4, <1>6 DEF BlockNext, RepairBlock, Request, MarkUnit,
                MarkReserved, Markbad, Access, ChipStep, SendCommand, ChipBusy,
                StatusRight, StatusFailed, StatusOdd, jobSame, layoutVars, vars, opVars,
                SetParameters
<1> QED
  BY <1>2, <1>3, <1>5, <1>6

(* They are at the start.                                                  *)
LEMMA StableInvInit == BlockInit => StableInv
<1> SUFFICES ASSUME BlockInit PROVE StableInv
  OBVIOUS
<1>1. saved = blk_status /\ phase = "repair" /\ devs = <<BootDevice>> /\ first = <<>>
  BY DEF BlockInit
<1>2. RowInv
  BY <1>1 DEF RowInv
<1>3. Built(devs)
  BY <1>1 DEF Built
<1> QED
  BY <1>1, <1>2, <1>3 DEF StableInv

(* On any number of chips the devices are after every restart where they   *)
(* were at the first start, whatever was marked, repaired, saved or lost   *)
(* in between, and no later build of the layout fails; unless a row of the *)
(* devices is mixed.                                                       *)
THEOREM LayoutIsStable == BlockSpec => []LayoutStable
<1>1. StableInv => LayoutStable
  BY DEF StableInv, LayoutStable, Unmixed
<1> QED
  BY AreaInvAlways, StableInvInit, StableInvStep, <1>1, PTL DEF BlockSpec

(* With one chip no row is, so that nothing ever moves there.              *)
THEOREM OneChipNeverMoves ==
  BlockSpec => [](chip_num = 1 => (phase = "up" => devs = first))
<1>1. AreaInv /\ StableInv => (chip_num = 1 => (phase = "up" => devs = first))
  BY OneChipUnmixed DEF StableInv
<1> QED
  BY AreaInvAlways, StableInvInit, StableInvStep, <1>1, PTL DEF BlockSpec

(* The row of a marked unit, in the layout of the first start.             *)
FirstRow(m) == (first[m.dev].offset + m.unit * Unit) \div Unit

(* A block of row r is bad in RAM.                                         *)
Spoilt(r) == \E a \in RowBlocksOf(r) \cap Addresses : blk_status[a] # "good"

(* A block of row r is bad in RAM and on flash.                            *)
SpoiltOnFlash(r) ==
  \E a \in RowBlocksOf(r) \cap Addresses : blk_status[a] # "good" /\ saved[a] # "good"

(* A mark that was saved is in both tables; one that was not is in RAM     *)
(* until the restart, or fell on a unit whose number is that of a bad      *)
(* block.                                                                  *)
MarkedInv ==
  chip_num = 1 =>
    \A m \in marked :
      /\ m.dev \in 2..Len(first) /\ m.kept \in BOOLEAN
      /\ FirstRow(m) \in Nat /\ FirstOffset <= Unit * FirstRow(m)
      /\ m.kept => SpoiltOnFlash(FirstRow(m))
      /\ ~m.kept => /\ phase = "up"
                    /\ \/ Spoilt(FirstRow(m))
                       \/ GetBlockStatus(<<0, FirstRow(m)>>) # "good"

(* What the step that marks a unit leaves behind.                          *)
LEMMA MarkUnitNotes ==
  ASSUME AreaInv, StableInv, chip_num = 1, NEW d \in Devices, NEW u \in 0..Units(d) - 1,
         MarkUnit(d, u), NEW m \in marked', m \notin marked
  PROVE  /\ m.dev = d /\ m.unit = u /\ m.kept \in BOOLEAN /\ phase = "up"
         /\ m.kept => \A a \in RowBlocksOf(Row(d, u)) \cap Addresses :
                         blk_status'[a] # "good" /\ saved'[a] # "good"
         /\ ~m.kept => \/ \A a \in RowBlocksOf(Row(d, u)) \cap Addresses :
                            blk_status'[a] # "good"
                       \/ /\ UNCHANGED blk_status
                          /\ GetBlockStatus(<<0, Row(d, u)>>) # "good"
<1>1. /\ phase = "up"
      /\ Markbad(d, u, <<0, Row(d, u)>>, Target(d, u), PlaneNum)
  BY DEF MarkUnit, MayStart
<1>2. d # 0
  BY DEF Devices
<1> DEFINE Nothing == /\ GetBlockStatus(<<0, Row(d, u)>>) # "good"
                      /\ marked' = marked \union Noted(d, u, FALSE)
                      /\ UNCHANGED blk_status
           Marked == /\ UpdateBbt(Marks(Target(d, u)))
                     /\ marked' = marked \union Noted(d, u, saved' = blk_status')
<1>3. CASE Nothing
  <2>1. m = [dev |-> d, unit |-> u, kept |-> FALSE]
    BY <1>2, <1>3 DEF Noted
  <2>2. m.dev = d /\ m.unit = u /\ m.kept = FALSE
    BY <2>1
  <2> QED
    BY <1>1, <1>3, <2>2
<1>4. CASE Marked
  <2>1. m = [dev |-> d, unit |-> u, kept |-> (saved' = blk_status')]
    BY <1>2, <1>4 DEF Noted
  <2>2. m.dev = d /\ m.unit = u /\ m.kept = (saved' = blk_status')
    BY <2>1
  <2>3. \A a \in RowBlocksOf(Row(d, u)) \cap Addresses : blk_status'[a] = "used_bad"
    <3>1. \A a \in RowBlocksOf(Row(d, u)) \cap Addresses :
            Marks(Target(d, u))[a] = "used_bad"
      BY DEF Marks, Target, RowBlocksOf
    <3> QED
      BY <1>4, <3>1 DEF UpdateBbt
  <2> QED
    BY <1>1, <2>2, <2>3
<1>5. marked' = marked \/ Nothing \/ Marked
  BY <1>1 DEF Markbad
<1> QED
  BY <1>3, <1>4, <1>5

(* No step but a restart makes a bad row of a device good, in RAM or on    *)
(* flash.                                                                  *)
LEMMA StaysSpoilt ==
  ASSUME AreaInv, chip_num = 1, TableStep, UNCHANGED chip_num,
         NEW r \in Nat, FirstOffset <= Unit * r
  PROVE  /\ SpoiltOnFlash(r) => SpoiltOnFlash(r)'
         /\ phase = "up" /\ Spoilt(r) => Spoilt(r)'
         /\ phase = "up" => \A a : GetBlockStatus(a) # "good"
                                    => (GetBlockStatus(a) # "good")'
<1>1. Addresses' = Addresses /\ RowBlocksOf(r)' = RowBlocksOf(r) /\ TableInv
  <2>1. Unit' = Unit /\ Addresses' = Addresses
    BY SameFrame
  <2> QED
    BY <2>1 DEF RowBlocksOf, UnitBlocks, SetOf, AreaInv
<1>2. \A a \in RowBlocksOf(r) : ~Reserved(a)
  BY ReservedBelow DEF RowBlocksOf
<1>3. \A a \in RowBlocksOf(r) \cap Addresses :
        blk_status[a] # "good" => blk_status'[a] # "good"
  BY <1>2 DEF TableStep, MayBecome, InGoodUnit
<1>4. SpoiltOnFlash(r) => SpoiltOnFlash(r)'
  <2> SUFFICES ASSUME NEW a \in RowBlocksOf(r) \cap Addresses,
                      blk_status[a] # "good", saved[a] # "good"
               PROVE  blk_status'[a] # "good" /\ saved'[a] # "good"
    BY <1>1 DEF SpoiltOnFlash
  <2> QED
    BY <1>3 DEF TableStep
<1>5. Spoilt(r) => Spoilt(r)'
  BY <1>1, <1>3 DEF Spoilt
<1>6. phase = "up" => \A a : GetBlockStatus(a) # "good" => (GetBlockStatus(a) # "good")'
  BY <1>1 DEF GetBlockStatus, TableInv, TableStep, MayBecome
<1> QED
  BY <1>4, <1>5, <1>6

(* Only marking a unit adds a mark.                                        *)
LEMMA MarksOnly ==
  ASSUME [BlockNext]_vars, ~Restart
  PROVE  \/ marked' \subseteq marked
         \/ \E d \in Devices : \E u \in 0..Units(d) - 1 : MarkUnit(d, u)
<1>1. ASSUME NEW n, MarkReserved(n) PROVE marked' \subseteq marked
  BY <1>1 DEF MarkReserved, Markbad, Noted
<1>2. ASSUME NEW op, NEW d, NEW u, Access(op, d, u) PROVE marked' \subseteq marked
  BY <1>2 DEF Access
<1>3. CASE Request
  BY <1>1, <1>2, <1>3 DEF Request
<1>4. CASE ~Request
  BY <1>4 DEF BlockNext, RepairBlock, RepairDone, Lay, ChipStep, SendCommand, ChipBusy,
              StatusRight, StatusFailed, StatusOdd, jobSame, vars, opVars, SetParameters
<1> QED
  BY <1>3, <1>4

(* The first layout is kept for good, the current one until the restart.   *)
LEMMA FirstAndPhaseKept ==
  ASSUME [BlockNext]_vars
  PROVE  /\ first # <<>> => first' = first
         /\ phase = "up" /\ ~Restart => phase' = "up" /\ devs' = devs /\ first' = first
<1>1. CASE Request
  BY <1>1 DEF Request, MarkUnit, MarkReserved, Markbad, Access, layoutVars
<1>2. CASE Lay
  BY <1>2 DEF Lay, AddDevice
<1>3. CASE ~Request /\ ~Lay
  BY <1>3 DEF BlockNext, RepairBlock, RepairDone, ChipStep, SendCommand, ChipBusy,
              StatusRight, StatusFailed, StatusOdd, jobSame, vars, opVars, SetParameters,
              Restart, layoutVars
<1> QED
  BY <1>1, <1>2, <1>3

(* Every step keeps the marks visible.                                     *)
LEMMA MarkedInvStep ==
  AreaInv /\ StableInv /\ MarkedInv /\ [BlockNext]_vars => MarkedInv'
<1> SUFFICES ASSUME AreaInv, StableInv, MarkedInv, [BlockNext]_vars, chip_num = 1,
                    NEW m \in marked'
             PROVE  /\ m.dev \in 2..Len(first') /\ m.kept \in BOOLEAN
                    /\ FirstRow(m)' \in Nat /\ FirstOffset' <= Unit' * FirstRow(m)'
                    /\ m.kept => SpoiltOnFlash(FirstRow(m))'
                    /\ ~m.kept => /\ phase' = "up"
                                  /\ \/ Spoilt(FirstRow(m))'
                                     \/ (GetBlockStatus(<<0, FirstRow(m)>>) # "good")'
  <2>1. chip_num' = chip_num \/ ~AreaInv \/ ~[BlockNext]_vars
    BY StepFrame
  <2> QED
    BY <2>1 DEF MarkedInv
<1>1. /\ chip_num' = chip_num /\ FirstOffset' = FirstOffset /\ Unit' = Unit
      /\ Addresses' = Addresses /\ \A r : RowBlocksOf(r)' = RowBlocksOf(r)
      /\ PlacedInv /\ TableInv
  BY StepFrame DEF AreaInv
<1>2. Unit \in Nat \ {0} /\ FirstOffset \in Nat /\ chip_num \in ChipNums
  BY <1>1, UnitType, FirstOffsetFacts DEF PlacedInv
<1>3. ASSUME m \in marked, NEW r, r = FirstRow(m)
      PROVE  /\ m.dev \in 2..Len(first') /\ m.kept \in BOOLEAN
             /\ first' = first /\ FirstRow(m)' = r
             /\ r \in Nat /\ FirstOffset <= Unit * r
             /\ m.kept => SpoiltOnFlash(r)
             /\ ~m.kept => /\ phase = "up"
                           /\ Spoilt(r) \/ GetBlockStatus(<<0, r>>) # "good"
  <2>1. /\ m.dev \in 2..Len(first) /\ m.kept \in BOOLEAN
        /\ r \in Nat /\ FirstOffset <= Unit * r
        /\ m.kept => SpoiltOnFlash(r)
        /\ ~m.kept => /\ phase = "up"
                      /\ Spoilt(r) \/ GetBlockStatus(<<0, r>>) # "good"
    BY <1>3 DEF MarkedInv
  <2>2. first # <<>>
    BY <2>1
  <2>3. first' = first
    BY <2>2, FirstAndPhaseKept
  <2> QED
    BY <1>1, <1>3, <2>1, <2>3 DEF FirstRow
<1>4. CASE Restart
  <2>1. /\ blk_status' = saved /\ saved' = saved /\ marked' = {x \in marked : x.kept}
    BY <1>4 DEF Restart
  <2>2. m \in marked /\ m.kept
    BY <2>1
  <2>3. PICK r : r = FirstRow(m)
    OBVIOUS
  <2>4. /\ m.dev \in 2..Len(first') /\ m.kept \in BOOLEAN /\ FirstRow(m)' = r
        /\ r \in Nat /\ FirstOffset <= Unit * r /\ SpoiltOnFlash(r)
    BY <1>3, <2>2, <2>3
  <2>5. SpoiltOnFlash(FirstRow(m))'
    BY <1>1, <2>1, <2>4 DEF SpoiltOnFlash
  <2> QED
    BY <1>1, <2>2, <2>4, <2>5
<1>5. CASE ~Restart /\ m \in marked
  <2>1. PICK r : r = FirstRow(m)
    OBVIOUS
  <2>2. TableStep
    BY <1>1, <1>5, NoRestartStep
  <2>3. /\ SpoiltOnFlash(r) => SpoiltOnFlash(r)'
        /\ phase = "up" /\ Spoilt(r) => Spoilt(r)'
        /\ phase = "up" => \A a : GetBlockStatus(a) # "good"
                                   => (GetBlockStatus(a) # "good")'
    BY <1>1, <1>3, <1>5, <2>1, <2>2, StaysSpoilt
  <2>4. phase = "up" => phase' = "up"
    BY <1>5, FirstAndPhaseKept
  <2>5. /\ SpoiltOnFlash(FirstRow(m))' <=> SpoiltOnFlash(r)'
        /\ Spoilt(FirstRow(m))' <=> Spoilt(r)'
        /\ (GetBlockStatus(<<0, FirstRow(m)>>) # "good")' <=>
              (GetBlockStatus(<<0, r>>) # "good")'
    <3>1. FirstRow(m)' = r
      BY <1>3, <1>5, <2>1
    <3> QED
      BY <1>1, <3>1 DEF SpoiltOnFlash, Spoilt, GetBlockStatus
  <2>6. FirstRow(m)' = r
    BY <1>3, <1>5, <2>1
  <2> QED
    BY <1>1, <1>3, <1>5, <2>1, <2>3, <2>4, <2>5, <2>6
<1>6. CASE ~Restart /\ m \notin marked
  <2>1. PICK d \in Devices : \E u \in 0..Units(d) - 1 : MarkUnit(d, u)
    BY <1>6, MarksOnly
  <2>2. PICK u \in 0..Units(d) - 1 : MarkUnit(d, u)
    BY <2>1
  <2>3. /\ m.dev = d /\ m.unit = u /\ m.kept \in BOOLEAN /\ phase = "up"
        /\ m.kept => \A a \in RowBlocksOf(Row(d, u)) \cap Addresses :
                        blk_status'[a] # "good" /\ saved'[a] # "good"
        /\ ~m.kept => \/ \A a \in RowBlocksOf(Row(d, u)) \cap Addresses :
                           blk_status'[a] # "good"
                      \/ /\ UNCHANGED blk_status
                         /\ GetBlockStatus(<<0, Row(d, u)>>) # "good"
    BY <1>6, <2>2, MarkUnitNotes
  <2>4. first' = first /\ devs = first /\ phase' = "up" /\ d \in 2..Len(devs)
    BY <1>6, <2>3, FirstAndPhaseKept, OneChipUnmixed DEF StableInv, Devices
  <2>5. PICK r : r = Row(d, u)
    OBVIOUS
  <2>6. FirstRow(m)' = r
    BY <1>1, <2>3, <2>4, <2>5 DEF FirstRow, Row
  <2>7. r \in Nat /\ FirstOffset <= Unit * r
    <3>1. r \in Nat /\ devs[d].offset <= Unit * r
      BY <1>1, <2>4, <2>5, RowInDevice
    <3>2. FirstOffset <= devs[d].offset /\ devs[d].offset \in Nat
      BY <1>1, <2>4, FirstIsLowest, DevicePlaced
    <3>3. Unit * r \in Nat
      BY <1>2, <3>1
    <3> QED
      BY <1>2, <3>1, <3>2, <3>3
  <2>8. \E a : a \in RowBlocksOf(r) \cap Addresses
    <3> DEFINE a == UnitBlocks(r)[1]
    <3>1. 1 \in 1..Unit /\ DOMAIN UnitBlocks(r) = 1..Unit
      BY <1>2 DEF UnitBlocks
    <3>2. a \in RowBlocksOf(r)
      BY <3>1 DEF RowBlocksOf, SetOf
    <3> HIDE DEF a
    <3>3. a \in Addresses
      BY <1>1, <2>4, <2>5, <3>2, AreaOnChip DEF RowBlocksOf
    <3> QED
      BY <3>2, <3>3
  <2>9. m.kept => SpoiltOnFlash(FirstRow(m))'
    BY <1>1, <2>3, <2>5, <2>6, <2>8 DEF SpoiltOnFlash
  <2>10. ~m.kept => \/ Spoilt(FirstRow(m))'
                    \/ (GetBlockStatus(<<0, FirstRow(m)>>) # "good")'
    BY <1>1, <2>3, <2>5, <2>6, <2>8 DEF Spoilt, GetBlockStatus
  <2>11. m.dev \in 2..Len(first')
    BY <2>3, <2>4
  <2> QED
    BY <1>1, <2>3, <2>4, <2>6, <2>7, <2>9, <2>10, <2>11
<1> QED
  BY <1>4, <1>5, <1>6

(* With one chip a unit that was marked is bad for block_isbad from then   *)
(* on, also after a restart if the table was saved; the exception the code *)
(* makes is a unit whose number is, as the number of a block, a bad one.   *)
THEOREM MarksAreSeen == BlockSpec => []MarkIsSeen
<1>1. BlockInit => MarkedInv
  BY DEF BlockInit, MarkedInv
<1>2. AreaInv /\ StableInv /\ MarkedInv => MarkIsSeen
  <2> SUFFICES ASSUME AreaInv, StableInv, MarkedInv, phase = "up", chip_num = 1,
                      NEW m \in marked, GoodUnit(m.dev, m.unit)
               PROVE  ~m.kept /\ GetBlockStatus(<<0, Row(m.dev, m.unit)>>) # "good"
    BY DEF MarkIsSeen
  <2>1. devs = first /\ chip_num \in ChipNums /\ TableInv
    BY OneChipUnmixed DEF StableInv, AreaInv, PlacedInv
  <2>2. Row(m.dev, m.unit) = FirstRow(m)
    BY <2>1 DEF Row, FirstRow
  <2>3. \A a \in RowBlocksOf(FirstRow(m)) : GetBlockStatus(a) = "good"
    BY <2>1, <2>2, GoodUnitBlocks DEF RowBlocksOf
  <2>4. ~Spoilt(FirstRow(m)) /\ ~SpoiltOnFlash(FirstRow(m))
    BY <2>1, <2>3 DEF Spoilt, SpoiltOnFlash, GetBlockStatus, TableInv
  <2> QED
    BY <2>2, <2>4 DEF MarkedInv
<1> QED
  BY AreaInvAlways, StableInvInit, StableInvStep, MarkedInvStep, <1>1, <1>2, PTL
  DEF BlockSpec

=============================================================================
