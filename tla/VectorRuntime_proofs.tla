----------------------- MODULE VectorRuntime_proofs -----------------------
(***************************************************************************)
(* For every width of the types, number of elements and vectors: the       *)
(* saturated operations, the averages, the distances and the divisions are *)
(* exact, comparisons are read as they were left, and assignments to       *)
(* chosen elements are those to the full vector, and rotations lose no bit.*)
(*                                                                         *)
(* Each function is first shown, for one element, to have exactly one      *)
(* value, the exact one: every intermediate result fits the type that C    *)
(* computes it in.  The invariant then says that the operands of a call    *)
(* are of their type, and that the value of the last call is that of the   *)
(* function at each element.  Two more invariants rest on it: what a       *)
(* comparison leaves is a mask of the operands, which selections read, and *)
(* a division or an assignment leaves in each element what C's arithmetic  *)
(* gives, and traps only where no function has care of the divisor.  For   *)
(* rotations, a value is written as q * 2^(w-l) + r; that 2^(m+n) is       *)
(* 2^m * 2^n comes from counting the subsets of intervals.                 *)
(***************************************************************************)
EXTENDS VectorRuntime, FiniteSetTheorems, TLAPS

(***************************************************************************)
(* Types.                                                                  *)
(***************************************************************************)

LEMMA Widths ==
  ASSUME NEW u \in Types
  PROVE  /\ Half(u) \in Nat \ {0}
         /\ u.rank \in 1..4 /\ u.signed \in BOOLEAN
         /\ u.rank < IntRank => 4 * Half(u) <= IntHalf
         /\ u.rank = 3 => Half(u) = IntHalf
         /\ u.rank = 4 => Half(u) = LongHalf
         /\ \A v \in Types : u.rank <= v.rank => Half(u) <= Half(v)
         /\ \A v \in Types : u.rank = v.rank => Half(u) = Half(v)
<1>1. /\ u.rank \in 1..4 /\ u.signed \in BOOLEAN
  BY DEF Types, Ranks
<1>2. \A v \in Types : v.rank \in 1..4
  BY DEF Types, Ranks
<1>3. /\ CharHalf \in Nat \ {0} /\ ShortHalf \in Nat \ {0}
      /\ IntHalf \in Nat \ {0} /\ LongHalf \in Nat \ {0}
      /\ CharHalf <= ShortHalf /\ 4 * ShortHalf <= IntHalf /\ 4 * CharHalf <= IntHalf
      /\ IntHalf <= LongHalf
  BY WidthAssumption
<1>4. CASE u.rank = 1
  BY <1>1, <1>2, <1>3, <1>4 DEF Half, IntRank
<1>5. CASE u.rank = 2
  BY <1>1, <1>2, <1>3, <1>5 DEF Half, IntRank
<1>6. CASE u.rank = 3
  BY <1>1, <1>2, <1>3, <1>6 DEF Half, IntRank
<1>7. CASE u.rank = 4
  BY <1>1, <1>2, <1>3, <1>7 DEF Half, IntRank
<1> QED
  BY <1>1, <1>4, <1>5, <1>6, <1>7

LEMMA Ends ==
  ASSUME NEW u \in Types
  PROVE  /\ Low(u) \in Int /\ High(u) \in Int
         /\ u.signed => Low(u) = -Half(u) /\ High(u) = Half(u) - 1
         /\ ~u.signed => Low(u) = 0 /\ High(u) = 2 * Half(u) - 1
         /\ Values(u) \subseteq Int
         /\ \A x \in Int : x \in Values(u) <=> Low(u) <= x /\ x <= High(u)
BY Widths DEF Low, High, Values

LEMMA Variants ==
  ASSUME NEW u \in Types
  PROVE  /\ Unsigned(u) \in Types /\ Unsigned(u).rank = u.rank /\ ~Unsigned(u).signed
         /\ IntType \in Types /\ IntType.rank = 3 /\ IntType.signed
         /\ LongType \in Types /\ LongType.rank = 4 /\ LongType.signed
         /\ Promote(u) \in Types
         /\ u.rank < IntRank => Promote(u) = IntType
         /\ u.rank >= IntRank => Promote(u) = u
<1>1. u.rank \in 1..4
  BY DEF Types, Ranks
<1>4. /\ Unsigned(u) \in Types /\ Unsigned(u).rank = u.rank /\ ~Unsigned(u).signed
  BY <1>1 DEF Types, Ranks, Unsigned
<1>5. /\ IntType \in Types /\ IntType.rank = 3 /\ IntType.signed
      /\ LongType \in Types /\ LongType.rank = 4 /\ LongType.signed
  BY DEF IntType, LongType, Types, Ranks
<1>6. /\ u.rank < IntRank => Promote(u) = IntType
      /\ u.rank >= IntRank => Promote(u) = u
  BY <1>1 DEF Promote, IntRank
<1> QED
  BY <1>1, <1>4, <1>5, <1>6 DEF IntRank

\* A value of the type, and for a type narrower than int a sum of two of
\* them, is computed exactly.
LEMMA ArithIsExact ==
  ASSUME NEW u \in Types, NEW x \in Int,
         x \in Values(u) \/ (u.rank < IntRank /\ -4 * Half(u) <= x /\ x < 4 * Half(u))
  PROVE  Arith(u, x) = {x}
<1>1. Promote(u) \in Types
  BY Variants
<1>2. CASE u.rank >= IntRank
  BY <1>2, Variants, Widths DEF Arith, IntRank
<1>3. CASE u.rank < IntRank
  <2>1. /\ Promote(u) = IntType /\ IntType \in Types
        /\ IntType.signed /\ Half(IntType) = IntHalf
    BY <1>3, Variants, Widths
  <2>2. /\ Half(u) \in Nat \ {0} /\ 4 * Half(u) <= IntHalf /\ IntHalf \in Nat
    BY <1>3, Widths, WidthAssumption
  <2>3. -4 * Half(u) <= x /\ x < 4 * Half(u)
    BY <2>2, Ends
  <2>4. x \in Values(IntType)
    BY <2>1, <2>2, <2>3, Ends
  <2> QED
    BY <2>1, <2>4 DEF Arith
<1> QED
  BY <1>2, <1>3, Widths DEF IntRank

LEMMA StoreKeeps ==
  ASSUME NEW u \in Types, NEW x \in Values(u)
  PROVE  Store(u, x) = x
BY DEF Store

LEMMA StoreInType ==
  ASSUME NEW u \in Types, NEW x \in Int
  PROVE  Store(u, x) \in Values(u)
<1>1. CASE x \in Values(u)
  BY <1>1 DEF Store
<1>2. CASE x \notin Values(u)
  <2> DEFINE m == 2 * Half(u)
             z == x - Low(u)
  <2>1. /\ m \in Nat \ {0} /\ z \in Int /\ Low(u) \in Int
        /\ High(u) = Low(u) + m - 1
    BY Widths, Ends
  <2> HIDE DEF m, z
  <2>2. z % m \in 0..(m - 1)
    BY <2>1
  <2>3. Store(u, x) = (z % m) + Low(u)
    BY <1>2 DEF Store, m, z
  <2> QED
    BY <2>1, <2>2, <2>3, Ends
<1> QED
  BY <1>1, <1>2

(***************************************************************************)
(* Saturated sums and differences.                                         *)
(***************************************************************************)

LEMMA NearestInType ==
  ASSUME NEW u \in Types, NEW x \in Int
  PROVE  Nearest(u, x) \in Values(u)
BY Ends, Widths DEF Nearest

\* Each sum and difference of add_sat and sub_sat fits where it is computed.
LEMMA AddSatExact ==
  ASSUME NEW u \in Types, NEW x \in Values(u), NEW y \in Values(u)
  PROVE  ocl_add_sat(u, x, y) = {Nearest(u, x + y)}
<1>1. /\ x \in Int /\ y \in Int /\ Low(u) \in Int /\ High(u) \in Int
      /\ Low(u) <= x /\ x <= High(u) /\ Low(u) <= y /\ y <= High(u)
      /\ Half(u) \in Nat \ {0}
  BY Ends, Widths
<1>2. /\ u.signed => Low(u) = -Half(u) /\ High(u) = Half(u) - 1
      /\ ~u.signed => Low(u) = 0 /\ High(u) = 2 * Half(u) - 1
  BY Ends
<1>3. u.signed \in BOOLEAN
  BY Widths
<1>4. CASE x < 0 /\ y < 0
  <2>1. u.signed
    BY <1>1, <1>2, <1>3, <1>4
  <2>2. Arith(u, Low(u) - x) = {Low(u) - x}
    <3>1. Low(u) - x \in Int /\ Low(u) - x \in Values(u)
      BY <1>1, <1>2, <1>4, <2>1, Ends
    <3> QED
      BY <3>1, ArithIsExact
  <2>3. CASE y <= Low(u) - x
    <3>1. Nearest(u, x + y) = Low(u)
      BY <1>1, <2>3, <1>2, <2>1 DEF Nearest
    <3> QED
      BY <1>4, <2>2, <2>3, <3>1 DEF ocl_add_sat
  <2>4. CASE ~(y <= Low(u) - x)
    <3>1. x + y \in Int /\ x + y \in Values(u)
      BY <1>1, <1>2, <1>4, <2>1, <2>4, Ends
    <3>2. Arith(u, x + y) = {x + y}
      BY <3>1, ArithIsExact
    <3>3. Nearest(u, x + y) = x + y
      BY <1>1, <3>1, Ends DEF Nearest
    <3> QED
      BY <1>4, <2>2, <2>4, <3>2, <3>3 DEF ocl_add_sat
  <2> QED
    BY <2>3, <2>4
<1>5. CASE x >= 0 /\ y >= 0
  <2>0. ~(x < 0)
    BY <1>1, <1>5
  <2>2. Arith(u, High(u) - x) = {High(u) - x}
    <3>1. High(u) - x \in Int /\ High(u) - x \in Values(u)
      BY <1>1, <1>2, <1>3, <1>5, Ends
    <3> QED
      BY <3>1, ArithIsExact
  <2>3. CASE y >= High(u) - x
    <3>1. Nearest(u, x + y) = High(u)
      BY <1>1, <2>3, <1>2, <1>3 DEF Nearest
    <3> QED
      BY <2>0, <1>5, <2>2, <2>3, <3>1 DEF ocl_add_sat
  <2>4. CASE ~(y >= High(u) - x)
    <3>1. x + y \in Int /\ x + y \in Values(u)
      BY <1>1, <1>2, <1>3, <1>5, <2>4, Ends
    <3>2. Arith(u, x + y) = {x + y}
      BY <3>1, ArithIsExact
    <3>3. Nearest(u, x + y) = x + y
      BY <1>1, <3>1, Ends DEF Nearest
    <3> QED
      BY <2>0, <1>5, <2>2, <2>4, <3>2, <3>3 DEF ocl_add_sat
  <2> QED
    BY <2>3, <2>4
<1>6. CASE ~(x < 0 /\ y < 0) /\ ~(x >= 0 /\ y >= 0)
  <2>1. x + y \in Int /\ x + y \in Values(u)
    BY <1>1, <1>2, <1>3, <1>6, Ends
  <2>2. Arith(u, x + y) = {x + y}
    BY <2>1, ArithIsExact
  <2>3. Nearest(u, x + y) = x + y
    BY <1>1, <2>1, Ends DEF Nearest
  <2> QED
    BY <1>6, <2>2, <2>3 DEF ocl_add_sat
<1> QED
  BY <1>4, <1>5, <1>6

LEMMA SubSatExact ==
  ASSUME NEW u \in Types, NEW x \in Values(u), NEW y \in Values(u)
  PROVE  ocl_sub_sat(u, x, y) = {Nearest(u, x - y)}
<1>1. /\ x \in Int /\ y \in Int /\ Low(u) \in Int /\ High(u) \in Int
      /\ Low(u) <= x /\ x <= High(u) /\ Low(u) <= y /\ y <= High(u)
      /\ Half(u) \in Nat \ {0}
  BY Ends, Widths
<1>2. /\ u.signed => Low(u) = -Half(u) /\ High(u) = Half(u) - 1
      /\ ~u.signed => Low(u) = 0 /\ High(u) = 2 * Half(u) - 1
  BY Ends
<1>3. u.signed \in BOOLEAN
  BY Widths
<1>a. ASSUME x - y \in Values(u)
      PROVE  Arith(u, x - y) = {x - y} /\ Nearest(u, x - y) = x - y
  BY <1>a, <1>1, Ends, ArithIsExact DEF Nearest
<1>4. CASE ~u.signed
  <2>1. CASE y >= x
    <3>1. Nearest(u, x - y) = 0
      BY <1>1, <1>2, <1>4, <2>1 DEF Nearest
    <3> QED
      BY <1>4, <2>1, <3>1 DEF ocl_sub_sat
  <2>2. CASE ~(y >= x)
    <3>0. Low(u) = 0
      BY <1>2, <1>4
    <3>1. x - y \in Values(u)
      BY <3>0, <1>1, <2>2, Ends
    <3> QED
      BY <1>4, <2>2, <3>1, <1>a DEF ocl_sub_sat
  <2> QED
    BY <2>1, <2>2
<1>5. CASE u.signed /\ x < 0 /\ y >= 0
  <2>2. Arith(u, x - Low(u)) = {x - Low(u)}
    <3>1. x - Low(u) \in Int /\ x - Low(u) \in Values(u)
      BY <1>1, <1>2, <1>5, Ends
    <3> QED
      BY <3>1, ArithIsExact
  <2>3. CASE y >= x - Low(u)
    <3>1. Nearest(u, x - y) = Low(u)
      BY <1>1, <1>2, <1>5, <2>3 DEF Nearest
    <3> QED
      BY <1>5, <2>2, <2>3, <3>1 DEF ocl_sub_sat
  <2>4. CASE ~(y >= x - Low(u))
    <3>1. x - y \in Values(u)
      BY <1>1, <1>2, <1>5, <2>4, Ends
    <3> QED
      BY <1>5, <2>2, <2>4, <3>1, <1>a DEF ocl_sub_sat
  <2> QED
    BY <2>3, <2>4
<1>6. CASE u.signed /\ x >= 0 /\ y < 0
  <2>0. ~(x < 0)
    BY <1>1, <1>6
  <2>2. Arith(u, x - High(u)) = {x - High(u)}
    <3>1. x - High(u) \in Int /\ x - High(u) \in Values(u)
      BY <1>1, <1>2, <1>6, Ends
    <3> QED
      BY <3>1, ArithIsExact
  <2>3. CASE y <= x - High(u)
    <3>1. Nearest(u, x - y) = High(u)
      BY <1>1, <1>2, <1>6, <2>3 DEF Nearest
    <3> QED
      BY <1>6, <2>0, <2>2, <2>3, <3>1 DEF ocl_sub_sat
  <2>4. CASE ~(y <= x - High(u))
    <3>1. x - y \in Values(u)
      BY <1>1, <1>2, <1>6, <2>4, Ends
    <3> QED
      BY <1>6, <2>0, <2>2, <2>4, <3>1, <1>a DEF ocl_sub_sat
  <2> QED
    BY <2>3, <2>4
<1>7. CASE u.signed /\ ~(x < 0 /\ y >= 0) /\ ~(x >= 0 /\ y < 0)
  <2>1. x - y \in Values(u)
    BY <1>1, <1>2, <1>7, Ends
  <2> QED
    BY <1>7, <2>1, <1>a DEF ocl_sub_sat
<1> QED
  BY <1>3, <1>4, <1>5, <1>6, <1>7

(***************************************************************************)
(* Averages and distances.                                                 *)
(***************************************************************************)

\* The sum of the halves and of a carry that fits is computed exactly: the
\* lowest value of a type as wide as int is even.
LEMMA HalvesExact ==
  ASSUME NEW u \in Types, NEW x \in Values(u), NEW y \in Values(u), NEW carry \in {0, 1},
         (x \div 2) + (y \div 2) + carry \in Values(u)
  PROVE  HalvesPlus(u, x, y, carry) = {(x \div 2) + (y \div 2) + carry}
<1> DEFINE s == (x \div 2) + (y \div 2)
<1>1. /\ x \in Int /\ y \in Int /\ Low(u) \in Int /\ High(u) \in Int
      /\ Low(u) <= x /\ x <= High(u) /\ Low(u) <= y /\ y <= High(u)
      /\ Half(u) \in Nat \ {0}
  BY Ends, Widths
<1>2. \/ Low(u) = -Half(u) /\ High(u) = Half(u) - 1
      \/ Low(u) = 0 /\ High(u) = 2 * Half(u) - 1
  BY Ends, Widths
<1>3. s \in Int /\ s + carry \in Int /\ s <= High(u)
  BY <1>1, Ends
<1>4. CASE u.rank < IntRank
  <2>1. -4 * Half(u) <= s /\ s < 4 * Half(u)
    BY <1>1, <1>2
  <2>2. Arith(u, s) = {s}
    BY <1>3, <1>4, <2>1, ArithIsExact
  <2>3. Arith(u, s + carry) = {s + carry}
    BY <1>3, ArithIsExact
  <2> QED
    BY <2>2, <2>3 DEF HalvesPlus
<1>5. CASE u.rank >= IntRank
  <2>1. Half(u) = IntHalf \/ Half(u) = LongHalf
    BY <1>5, Widths DEF IntRank
  <2>2. Half(u) % 2 = 0
    BY <2>1, WidthAssumption
  <2>3. Low(u) <= s
    BY <1>1, <1>2, <2>2
  <2>4. Arith(u, s) = {s}
    BY <1>1, <1>3, <2>3, Ends, ArithIsExact
  <2>5. Arith(u, s + carry) = {s + carry}
    BY <1>3, ArithIsExact
  <2> QED
    BY <2>4, <2>5 DEF HalvesPlus
<1> QED
  BY <1>4, <1>5, Widths DEF IntRank

LEMMA HaddExact ==
  ASSUME NEW u \in Types, NEW x \in Values(u), NEW y \in Values(u)
  PROVE  \E h \in Values(u) : ocl_hadd(u, x, y) = {h} /\ x + y - 2 * h \in {0, 1}
<1> DEFINE carry == IF x % 2 = 1 /\ y % 2 = 1 THEN 1 ELSE 0
           h == (x \div 2) + (y \div 2) + carry
<1>1. /\ x \in Int /\ y \in Int /\ Low(u) \in Int /\ High(u) \in Int
      /\ Low(u) <= x /\ x <= High(u) /\ Low(u) <= y /\ y <= High(u)
  BY Ends
<1>2. h \in Int /\ x + y - 2 * h \in {0, 1}
  BY <1>1
<1>3. h \in Values(u)
  BY <1>1, <1>2, Ends
<1>4. ocl_hadd(u, x, y) = {h}
  BY <1>3, HalvesExact DEF ocl_hadd
<1> QED
  BY <1>2, <1>3, <1>4

LEMMA RhaddExact ==
  ASSUME NEW u \in Types, NEW x \in Values(u), NEW y \in Values(u)
  PROVE  \E h \in Values(u) : ocl_rhadd(u, x, y) = {h} /\ 2 * h - x - y \in {0, 1}
<1> DEFINE carry == IF x % 2 = 1 \/ y % 2 = 1 THEN 1 ELSE 0
           h == (x \div 2) + (y \div 2) + carry
<1>1. /\ x \in Int /\ y \in Int /\ Low(u) \in Int /\ High(u) \in Int
      /\ Low(u) <= x /\ x <= High(u) /\ Low(u) <= y /\ y <= High(u)
  BY Ends
<1>2. h \in Int /\ 2 * h - x - y \in {0, 1}
  BY <1>1
<1>3. h \in Values(u)
  BY <1>1, <1>2, Ends
<1>4. ocl_rhadd(u, x, y) = {h}
  BY <1>3, HalvesExact DEF ocl_rhadd
<1> QED
  BY <1>2, <1>3, <1>4

LEMMA DifferenceExact ==
  ASSUME NEW u \in Types, NEW x \in Values(u), NEW y \in Values(u),
         (x < 0) = (y < 0)
  PROVE  /\ Difference(u, x, y) = {Abs(x - y)}
         /\ Abs(x - y) \in Values(Unsigned(u))
<1>1. /\ x \in Int /\ y \in Int /\ Low(u) \in Int /\ High(u) \in Int
      /\ Low(u) <= x /\ x <= High(u) /\ Low(u) <= y /\ y <= High(u)
      /\ Half(u) \in Nat \ {0}
  BY Ends, Widths
<1>2. \/ Low(u) = -Half(u) /\ High(u) = Half(u) - 1
      \/ Low(u) = 0 /\ High(u) = 2 * Half(u) - 1
  BY Ends, Widths
<1>3. /\ Unsigned(u) \in Types /\ Half(Unsigned(u)) = Half(u)
      /\ Low(Unsigned(u)) = 0 /\ High(Unsigned(u)) = 2 * Half(u) - 1
  BY Variants, Widths, Ends
<1> DEFINE d == IF x < y THEN y - x ELSE x - y
<1>4. d \in Int /\ 0 <= d /\ d <= High(u) /\ Abs(x - y) = d
  BY <1>1, <1>2 DEF Abs
<1>5. d \in Values(u)
  BY <1>1, <1>2, <1>4, Ends
<1>6. Arith(u, d) = {d}
  BY <1>4, <1>5, ArithIsExact
<1>7. d \in Values(Unsigned(u))
  BY <1>1, <1>2, <1>3, <1>4, Ends
<1> QED
  BY <1>4, <1>6, <1>7 DEF Difference

\* (utype)(-(neg+1)) + (utype)pos + 1
LEMMA ApartExact ==
  ASSUME NEW u \in Types, NEW neg \in Values(u), NEW pos \in Values(u), neg < 0, pos >= 0
  PROVE  /\ Arith(u, neg + 1) = {neg + 1}
         /\ Arith(u, -(neg + 1)) = {-(neg + 1)}
         /\ Store(Unsigned(u), -(neg + 1)) = -(neg + 1)
         /\ Store(Unsigned(u), pos) = pos
         /\ Arith(Unsigned(u), -(neg + 1) + pos) = {-(neg + 1) + pos}
         /\ Arith(Unsigned(u), -(neg + 1) + pos + 1) = {pos - neg}
         /\ pos - neg \in Values(Unsigned(u))
<1>1. /\ neg \in Int /\ pos \in Int /\ Low(u) \in Int /\ High(u) \in Int
      /\ Low(u) <= neg /\ pos <= High(u) /\ Half(u) \in Nat \ {0}
  BY Ends, Widths
<1>2. Low(u) = -Half(u) /\ High(u) = Half(u) - 1
  BY <1>1, Ends, Widths
<1> DEFINE n == Unsigned(u)
<1>3. /\ n \in Types /\ Half(n) = Half(u)
      /\ Low(n) = 0 /\ High(n) = 2 * Half(u) - 1
  BY Variants, Widths, Ends
<1> HIDE DEF n
<1>4. neg + 1 \in Values(u) /\ -(neg + 1) \in Values(u)
  BY <1>1, <1>2, Ends
<1>5. /\ -(neg + 1) \in Values(n) /\ pos \in Values(n)
      /\ -(neg + 1) + pos \in Values(n) /\ pos - neg \in Values(n)
  BY <1>1, <1>2, <1>3, Ends
<1>6. -(neg + 1) + pos + 1 = pos - neg
  BY <1>1
<1>7. /\ Arith(u, neg + 1) = {neg + 1} /\ Arith(u, -(neg + 1)) = {-(neg + 1)}
  BY <1>1, <1>4, ArithIsExact
<1>8. /\ Arith(n, -(neg + 1) + pos) = {-(neg + 1) + pos}
      /\ Arith(n, pos - neg) = {pos - neg}
  BY <1>1, <1>3, <1>5, ArithIsExact
<1>9. Store(n, -(neg + 1)) = -(neg + 1) /\ Store(n, pos) = pos
  BY <1>3, <1>5, StoreKeeps
<1> QED
  BY <1>5, <1>6, <1>7, <1>8, <1>9 DEF n

LEMMA AbsDiffExact ==
  ASSUME NEW u \in Types, NEW x \in Values(u), NEW y \in Values(u)
  PROVE  /\ ocl_abs_diff(u, x, y) = {Abs(x - y)}
         /\ Abs(x - y) \in Values(Unsigned(u))
<1>1. x \in Int /\ y \in Int /\ Unsigned(u) \in Types
  BY Ends, Variants
<1>2. CASE x < 0 /\ y >= 0
  <2>1. Abs(x - y) = y - x
    BY <1>1, <1>2 DEF Abs
  <2>2. y - x \in Values(Unsigned(u))
    BY <1>2, ApartExact
  <2>3. Store(Unsigned(u), y - x) = y - x
    BY <1>1, <2>2, StoreKeeps
  <2>4. ocl_abs_diff(u, x, y) = {y - x}
    BY <1>2, <2>3, ApartExact DEF ocl_abs_diff
  <2> QED
    BY <2>1, <2>2, <2>4
<1>3. CASE x >= 0 /\ y < 0
  <2>1. Abs(x - y) = x - y
    BY <1>1, <1>3 DEF Abs
  <2>2. x - y \in Values(Unsigned(u))
    BY <1>3, ApartExact
  <2>3. Store(Unsigned(u), x - y) = x - y
    BY <1>1, <2>2, StoreKeeps
  <2>4. ~(x < 0)
    BY <1>1, <1>3
  <2>5. ocl_abs_diff(u, x, y) = {x - y}
    BY <1>3, <2>3, <2>4, ApartExact DEF ocl_abs_diff
  <2> QED
    BY <2>1, <2>2, <2>5
<1>4. CASE (x < 0) = (y < 0)
  <2>1. ~(x < 0 /\ y >= 0) /\ ~(x >= 0 /\ y < 0)
    BY <1>1, <1>4
  <2>2. Store(Unsigned(u), Abs(x - y)) = Abs(x - y)
    BY <1>1, <1>4, DifferenceExact, StoreKeeps
  <2> QED
    BY <1>4, <2>1, <2>2, DifferenceExact DEF ocl_abs_diff
<1> QED
  BY <1>1, <1>2, <1>3, <1>4

LEMMA AbsExact ==
  ASSUME NEW u \in Types, NEW x \in Values(u)
  PROVE  /\ ocl_abs(u, x) # {}
         /\ Negatable(u, x) => /\ ocl_abs(u, x) = {Abs(x)}
                               /\ Abs(x) \in Values(Unsigned(u))
<1>1. /\ x \in Int /\ Low(u) \in Int /\ High(u) \in Int
      /\ Low(u) <= x /\ x <= High(u) /\ Half(u) \in Nat \ {0}
  BY Ends, Widths
<1>2. /\ u.signed => Low(u) = -Half(u) /\ High(u) = Half(u) - 1
      /\ ~u.signed => Low(u) = 0 /\ High(u) = 2 * Half(u) - 1
  BY Ends
<1>3. /\ Unsigned(u) \in Types /\ Half(Unsigned(u)) = Half(u)
      /\ Low(Unsigned(u)) = 0 /\ High(Unsigned(u)) = 2 * Half(u) - 1
  BY Variants, Widths, Ends
<1>4. u.signed \in BOOLEAN
  BY Widths
<1>5. Abs(x) \in Int /\ 0 <= Abs(x) /\ Abs(x) <= 2 * Half(u) - 1
  BY <1>1, <1>2, <1>4 DEF Abs
<1>6. Abs(x) \in Values(Unsigned(u))
  BY <1>3, <1>5, Ends
<1>7. CASE ~u.signed \/ x > 0
  <2>1. Abs(x) = x
    BY <1>1, <1>2, <1>7 DEF Abs
  <2> QED
    BY <1>6, <1>7, <2>1 DEF ocl_abs
<1>8. CASE u.signed /\ ~(x > 0)
  <2>1. Abs(x) = -x
    BY <1>1, <1>8 DEF Abs
  <2>2. Arith(u, -x) # {}
    BY DEF Arith
  <2>3. ASSUME Negatable(u, x)
        PROVE  Arith(u, -x) = {-x}
    <3>1. CASE x # Low(u)
      <4>1. -x \in Int /\ -x \in Values(u)
        BY <1>1, <1>2, <1>8, <3>1, Ends
      <4> QED
        BY <4>1, ArithIsExact
    <3>2. CASE u.rank < IntRank
      BY <1>1, <1>2, <1>8, <3>2, ArithIsExact
    <3> QED
      BY <2>3, <1>8, <3>1, <3>2 DEF Negatable
  <2>4. Store(Unsigned(u), -x) = -x
    BY <1>3, <1>6, <2>1, StoreKeeps
  <2> QED
    BY <1>6, <1>8, <2>1, <2>2, <2>3, <2>4 DEF ocl_abs
<1> QED
  BY <1>4, <1>7, <1>8

(***************************************************************************)
(* Saturated conversions.                                                  *)
(***************************************************************************)

LEMMA Kinds ==
  ASSUME NEW v \in Types, NEW u \in Types
  PROVE  /\ ~v.signed /\ ~u.signed /\ v.rank < u.rank    => Saturation(v, u) = "SATMAX"
         /\ ~v.signed /\ ~u.signed /\ ~(v.rank < u.rank) => Saturation(v, u) = "SATNOSAT"
         /\ ~v.signed /\ u.signed /\ v.rank < u.rank     => Saturation(v, u) = "SATZEROMAX"
         /\ ~v.signed /\ u.signed /\ ~(v.rank < u.rank)  => Saturation(v, u) = "SATZERO"
         /\ v.signed /\ ~u.signed /\ v.rank <= u.rank    => Saturation(v, u) = "SATMAX"
         /\ v.signed /\ ~u.signed /\ ~(v.rank <= u.rank) => Saturation(v, u) = "SATNOSAT"
         /\ v.signed /\ u.signed /\ v.rank < u.rank      => Saturation(v, u) = "SATMINMAX"
         /\ v.signed /\ u.signed /\ ~(v.rank < u.rank)   => Saturation(v, u) = "SATNOSAT"
<1>1. v.signed \in BOOLEAN /\ u.signed \in BOOLEAN
  BY Widths
<1>2. CASE ~v.signed /\ ~u.signed
  BY <1>2 DEF Saturation
<1>3. CASE ~v.signed /\ u.signed
  BY <1>3 DEF Saturation
<1>4. CASE v.signed /\ ~u.signed
  BY <1>4 DEF Saturation
<1>5. CASE v.signed /\ u.signed
  BY <1>5 DEF Saturation
<1> QED
  BY <1>1, <1>2, <1>3, <1>4, <1>5

\* A comparison with a limit of a type that is no wider is made in a type
\* that holds both operands.
LEMMA CommonHolds ==
  ASSUME NEW u \in Types, NEW v \in Types, v.rank <= u.rank, u.signed => v.signed
  PROVE  /\ Common(u, v) \in Types
         /\ Values(u) \subseteq Values(Common(u, v))
         /\ High(v) \in Values(Common(u, v))
<1>1. /\ u.rank \in 1..4 /\ v.rank \in 1..4 /\ u.signed \in BOOLEAN /\ v.signed \in BOOLEAN
  BY Widths
<1>2. /\ Half(u) \in Nat \ {0} /\ Half(v) \in Nat \ {0} /\ Half(v) <= Half(u)
  BY Widths
<1>3. CASE u.rank < IntRank
  <2>1. /\ Promote(u) = IntType /\ Promote(v) = IntType /\ IntType \in Types
        /\ IntType.signed /\ IntType.rank = 3
    BY <1>1, <1>3, Variants DEF IntRank
  <2>2. Common(u, v) = IntType
    BY <2>1 DEF Common
  <2>3. /\ 4 * Half(u) <= Half(IntType) /\ Half(IntType) \in Nat
    BY <1>3, <2>1, Widths
  <2>4. /\ Low(IntType) = -Half(IntType) /\ High(IntType) = Half(IntType) - 1
    BY <2>1, Ends
  <2>5. \A x \in Values(u) : x \in Int /\ -Half(u) <= x /\ x <= 2 * Half(u) - 1
    BY <1>2, Ends, Widths
  <2>6. High(v) \in Int /\ 0 <= High(v) /\ High(v) <= 2 * Half(u) - 1
    BY <1>2, Ends, Widths
  <2>7. ASSUME NEW x \in Int, -Half(u) <= x, x <= 2 * Half(u) - 1
        PROVE  x \in Values(IntType)
    <3>1. Low(IntType) <= x /\ x <= High(IntType)
      BY <1>2, <2>3, <2>4, <2>7
    <3> QED
      BY <2>1, <3>1, Ends
  <2>8. High(v) \in Values(IntType)
    BY <1>2, <2>6, <2>7
  <2> QED
    BY <2>1, <2>2, <2>5, <2>7, <2>8
<1>4. CASE u.rank >= IntRank
  <2>1. Promote(u) = u
    BY <1>4, Variants
  <2>2. /\ Promote(v) \in Types /\ Promote(v).rank <= u.rank
        /\ u.signed => Promote(v).signed
    BY <1>1, <1>4, Variants DEF IntRank
  <2>3. Promote(v).rank \in 1..4 /\ Promote(v).signed \in BOOLEAN
    BY <2>2, Widths
  <2>4. Common(u, v) = u
    <3>1. CASE u.signed
      <4>1. u.signed = Promote(v).signed
        BY <1>1, <2>2, <2>3, <3>1, Zenon
      <4>2. ~(u.rank < Promote(v).rank)
        BY <1>1, <2>2, <2>3
      <4> QED
        BY <2>1, <4>1, <4>2 DEF Common
    <3>2. CASE ~u.signed /\ Promote(v).signed
      BY <1>1, <2>1, <2>2, <2>3, <3>2 DEF Common
    <3>3. CASE ~u.signed /\ ~Promote(v).signed
      <4>1. u.signed = Promote(v).signed
        BY <1>1, <2>2, <2>3, <3>3, Zenon
      <4>2. ~(u.rank < Promote(v).rank)
        BY <1>1, <2>2, <2>3
      <4> QED
        BY <2>1, <4>1, <4>2 DEF Common
    <3> QED
      BY <2>3, <1>1, <3>1, <3>2, <3>3
  <2>5. High(v) \in Values(u)
    <3>1. High(v) \in Int /\ 0 <= High(v) /\ Low(u) <= 0
      BY <1>2, Ends, Widths
    <3>2. High(v) <= High(u)
      BY <1>1, <1>2, Ends
    <3> QED
      BY <3>1, <3>2, Ends
  <2> QED
    BY <2>4, <2>5
<1> QED
  BY <1>1, <1>3, <1>4 DEF IntRank

LEMMA GreaterExact ==
  ASSUME NEW u \in Types, NEW v \in Types, NEW x \in Values(u),
         v.rank <= u.rank, u.signed => v.signed
  PROVE  Greater(u, x, v, High(v)) <=> x > High(v)
BY CommonHolds, StoreKeeps DEF Greater

\* The comparison of a signed value with the limit of an unsigned type may
\* convert it to an unsigned one: then no value is greater than the limit.
LEMMA GreaterUnsigned ==
  ASSUME NEW u \in Types, NEW v \in Types, NEW x \in Values(u),
         v.rank < u.rank, u.signed, ~v.signed
  PROVE  Greater(u, x, v, High(v)) <=> x > High(v)
<1>1. /\ u.rank \in 1..4 /\ v.rank \in 1..4 /\ x \in Int
      /\ Half(u) \in Nat \ {0} /\ Half(v) \in Nat \ {0} /\ Half(v) <= Half(u)
  BY Widths, Ends
<1>2. /\ Low(u) = -Half(u) /\ High(u) = Half(u) - 1
      /\ Low(v) = 0 /\ High(v) = 2 * Half(v) - 1
  BY Ends
<1>3. CASE v.rank < IntRank
  <2>1. /\ Promote(v) = IntType /\ IntType \in Types /\ IntType.signed /\ IntType.rank = 3
    BY <1>3, Variants
  <2>2. /\ Promote(u) \in Types /\ Promote(u).signed /\ Promote(u).rank >= 3
        /\ Promote(u).rank \in 1..4 /\ (Promote(u) = IntType \/ Promote(u) = u)
    BY <1>1, Variants, Widths DEF IntRank
  <2>3. Promote(u).signed = IntType.signed
    <3>1. Promote(u).signed \in BOOLEAN /\ IntType.signed \in BOOLEAN
      BY <2>1, <2>2, Widths
    <3> QED
      BY <3>1, <2>1, <2>2
  <2>4. Common(u, v) = Promote(u)
    <3>1. Promote(u).signed = Promote(v).signed
      BY <2>1, <2>3, Zenon
    <3>2. ~(Promote(u).rank < Promote(v).rank)
      BY <2>1, <2>2
    <3> QED
      BY <3>1, <3>2 DEF Common
  <2>5. High(v) \in Values(Promote(u))
    <3>1. 4 * Half(v) <= IntHalf /\ IntHalf <= Half(Promote(u)) /\ IntHalf \in Nat
      BY <1>3, <2>1, <2>2, Widths, WidthAssumption
    <3>2. /\ Low(Promote(u)) = -Half(Promote(u)) /\ High(Promote(u)) = Half(Promote(u)) - 1
          /\ Half(Promote(u)) \in Nat
      BY <2>2, Ends, Widths
    <3>3. Low(Promote(u)) <= High(v) /\ High(v) <= High(Promote(u))
      BY <1>1, <1>2, <3>1, <3>2
    <3> QED
      BY <1>1, <1>2, <2>2, <3>3, Ends
  <2>6. x \in Values(Promote(u))
    <3>1. CASE u.rank < IntRank
      <4>1. Promote(u) = IntType /\ 4 * Half(u) <= Half(IntType) /\ Half(IntType) \in Nat
        BY <3>1, <2>1, Variants, Widths
      <4>2. Low(IntType) = -Half(IntType) /\ High(IntType) = Half(IntType) - 1
        BY <2>1, Ends
      <4>3. -Half(u) <= x /\ x <= Half(u) - 1
        BY <1>2, Ends
      <4>4. Low(IntType) <= x /\ x <= High(IntType)
        BY <1>1, <4>1, <4>2, <4>3
      <4> QED
        BY <1>1, <2>1, <4>1, <4>4, Ends
    <3>2. CASE u.rank >= IntRank
      BY <3>2, Variants
    <3> QED
      BY <1>1, <3>1, <3>2 DEF IntRank
  <2> QED
    BY <2>2, <2>4, <2>5, <2>6, StoreKeeps DEF Greater
<1>4. CASE v.rank >= IntRank
  <2>1. /\ v.rank = 3 /\ u.rank = 4 /\ Promote(v) = v /\ Promote(u) = u
        /\ Half(v) = IntHalf /\ Half(u) = LongHalf
    BY <1>1, <1>4, Variants, Widths DEF IntRank
  <2>2. ~(u.signed = v.signed)
    OBVIOUS
  <2>3. Common(u, v) = IF Half(u) >= 2 * Half(v) THEN u ELSE Unsigned(u)
    BY <2>1, <2>2 DEF Common
  <2>4. CASE Half(u) >= 2 * Half(v)
    <3>1. High(v) \in Values(u)
      BY <1>1, <1>2, <2>4, Ends
    <3> QED
      BY <2>3, <2>4, <3>1, StoreKeeps DEF Greater
  <2>5. CASE ~(Half(u) >= 2 * Half(v))
    <3>1. Half(u) = Half(v)
      BY <2>1, <2>5, WidthAssumption
    <3>2. /\ Unsigned(u) \in Types /\ Half(Unsigned(u)) = Half(u)
          /\ Low(Unsigned(u)) = 0 /\ High(Unsigned(u)) = High(v)
      BY <1>2, <3>1, Variants, Widths, Ends
    <3>3. High(v) \in Values(Unsigned(u))
      BY <1>1, <1>2, <3>2, Ends
    <3>4. Store(Unsigned(u), x) \in Values(Unsigned(u))
      BY <1>1, <3>2, StoreInType
    <3>5. Store(Unsigned(u), x) \in Int /\ Store(Unsigned(u), x) <= High(v)
      BY <3>2, <3>4, Ends
    <3>6. ~(x > High(v))
      BY <1>1, <1>2, <3>1, Ends
    <3>7. ~Greater(u, x, v, High(v))
      BY <1>1, <1>2, <2>3, <2>5, <3>2, <3>3, <3>5, StoreKeeps DEF Greater
    <3> QED
      BY <3>6, <3>7
  <2> QED
    BY <2>4, <2>5
<1> QED
  BY <1>1, <1>3, <1>4 DEF IntRank

\* The lower limit, for two signed types.
LEMMA LessExact ==
  ASSUME NEW u \in Types, NEW v \in Types, NEW x \in Values(u),
         v.rank < u.rank, u.signed, v.signed
  PROVE  Greater(v, Low(v), u, x) <=> Low(v) > x
<1>1. /\ u.rank \in 1..4 /\ v.rank \in 1..4 /\ x \in Int
      /\ Half(u) \in Nat \ {0} /\ Half(v) \in Nat \ {0} /\ Half(v) <= Half(u)
  BY Widths, Ends
<1>2. /\ Low(u) = -Half(u) /\ High(u) = Half(u) - 1
      /\ Low(v) = -Half(v) /\ High(v) = Half(v) - 1
  BY Ends
<1> DEFINE c == Common(v, u)
<1>3. /\ IntType \in Types /\ IntType.signed /\ IntType.rank = 3 /\ Half(IntType) = IntHalf
  BY Variants, Widths
<1>4. /\ Promote(u) \in Types /\ Promote(u).signed /\ Promote(u).rank \in 3..4
      /\ Promote(v) \in Types /\ Promote(v).signed /\ Promote(v).rank \in 3..4
  BY <1>1, <1>3, Variants, Widths DEF IntRank
<1>5. Promote(v).signed = Promote(u).signed
  <2>1. Promote(v).signed \in BOOLEAN /\ Promote(u).signed \in BOOLEAN
    BY <1>4, Widths
  <2> QED
    BY <2>1, <1>4
<1>6. c = IF Promote(v).rank < Promote(u).rank THEN Promote(u) ELSE Promote(v)
  BY <1>5 DEF Common
<1>7. c \in Types /\ c.signed /\ Half(Promote(u)) <= Half(c)
  BY <1>4, <1>6, Widths
<1>8. Half(u) <= Half(Promote(u))
  BY <1>1, <1>3, <1>4, Variants, Widths DEF IntRank
<1>9. x \in Values(c) /\ Low(v) \in Values(c)
  <2>1. Low(c) = -Half(c) /\ High(c) = Half(c) - 1 /\ Half(c) \in Nat /\ Half(Promote(u)) \in Nat
    BY <1>4, <1>7, Ends, Widths
  <2> HIDE DEF c
  <2>2. Half(u) <= Half(c)
    BY <1>1, <1>7, <1>8, <2>1
  <2>3. -Half(u) <= x /\ x <= Half(u) - 1
    BY <1>2, Ends
  <2> QED
    BY <1>1, <1>2, <1>7, <2>1, <2>2, <2>3, Ends
<1> QED
  BY <1>7, <1>9, StoreKeeps DEF Greater

\* No macro is needed where the type holds every value of the other.
LEMMA ConvertExact ==
  ASSUME NEW u \in Types, NEW v \in Types, NEW x \in Values(u),
         ~(LongHalf < 2 * IntHalf /\ v = LongType /\ u = Unsigned(IntType))
  PROVE  ocl_convert_sat(v, u, x) = Nearest(v, x)
<1>1. /\ u.rank \in 1..4 /\ v.rank \in 1..4 /\ u.signed \in BOOLEAN /\ v.signed \in BOOLEAN
      /\ x \in Int /\ Half(u) \in Nat \ {0} /\ Half(v) \in Nat \ {0}
      /\ v.rank <= u.rank => Half(v) <= Half(u)
      /\ u.rank <= v.rank => Half(u) <= Half(v)
  BY Widths, Ends
<1>2. /\ Low(u) \in Int /\ High(u) \in Int /\ Low(v) \in Int /\ High(v) \in Int
      /\ Low(u) <= x /\ x <= High(u) /\ Low(v) <= High(v)
  BY Ends, Widths
<1>3. /\ u.signed => Low(u) = -Half(u) /\ High(u) = Half(u) - 1
      /\ ~u.signed => Low(u) = 0 /\ High(u) = 2 * Half(u) - 1
      /\ v.signed => Low(v) = -Half(v) /\ High(v) = Half(v) - 1
      /\ ~v.signed => Low(v) = 0 /\ High(v) = 2 * Half(v) - 1
  BY Ends
<1>4. ASSUME Low(v) <= x, x <= High(v)
      PROVE  Store(v, x) = x /\ Nearest(v, x) = x
  BY <1>1, <1>2, <1>4, Ends, StoreKeeps DEF Nearest
<1>5. CASE Saturation(v, u) = "SATMAX"
  <2>1. ~u.signed /\ v.rank <= u.rank
    BY <1>1, <1>5, Kinds
  <2>2. Greater(u, x, v, High(v)) <=> x > High(v)
    BY <2>1, GreaterExact
  <2>3. CASE x > High(v)
    <3>1. Nearest(v, x) = High(v)
      BY <1>1, <1>2, <2>3 DEF Nearest
    <3>2. Greater(u, x, v, High(v))
      BY <2>2, <2>3
    <3> QED
      BY <1>5, <3>1, <3>2 DEF ocl_convert_sat
  <2>4. CASE ~(x > High(v))
    <3>1. Low(v) <= x /\ x <= High(v)
      BY <1>1, <1>2, <1>3, <2>1, <2>4
    <3> QED
      BY <1>4, <1>5, <2>2, <2>4, <3>1 DEF ocl_convert_sat
  <2> QED
    BY <2>3, <2>4
<1>6. CASE Saturation(v, u) = "SATNOSAT"
  <2>1. Low(v) <= x /\ x <= High(v)
    <3>1. CASE u.signed = v.signed
      BY <1>1, <1>2, <1>3, <1>6, <3>1, Kinds
    <3>2. CASE ~u.signed /\ v.signed
      <4>1. u.rank < v.rank
        BY <1>1, <1>6, <3>2, Kinds
      <4>2. 2 * Half(u) <= Half(v)
        <5>1. CASE v.rank = 2
          BY <1>1, <4>1, <5>1, WidthAssumption DEF Half
        <5>2. CASE u.rank < IntRank /\ v.rank \in 3..4
          BY <5>2, <1>1, Widths, WidthAssumption
        <5>3. CASE u.rank = 3 /\ v.rank = 4
          <6>1. u = Unsigned(IntType) /\ v = LongType
            BY <3>2, <5>3 DEF Types, Unsigned, IntType, LongType
          <6>2. ~(LongHalf < 2 * IntHalf)
            BY <6>1
          <6> QED
            BY <5>3, <6>2, Widths, WidthAssumption
        <5> QED
          BY <1>1, <4>1, <5>1, <5>2, <5>3 DEF IntRank
      <4> QED
        BY <1>1, <1>2, <1>3, <3>2, <4>2
    <3>3. CASE u.signed /\ ~v.signed
      BY <1>1, <1>6, <3>3, Kinds
    <3> QED
      BY <1>1, <3>1, <3>2, <3>3
  <2> QED
    BY <1>4, <1>6, <2>1 DEF ocl_convert_sat
<1>7. CASE Saturation(v, u) = "SATZERO"
  <2>1. ~v.signed /\ u.signed /\ u.rank <= v.rank
    BY <1>1, <1>7, Kinds
  <2>2. CASE x < 0
    BY <1>1, <1>2, <1>3, <1>7, <2>1, <2>2 DEF ocl_convert_sat, Nearest
  <2>3. CASE ~(x < 0)
    <3>1. Low(v) <= x /\ x <= High(v)
      BY <1>1, <1>2, <1>3, <2>1, <2>3
    <3> QED
      BY <1>4, <1>7, <2>3, <3>1 DEF ocl_convert_sat
  <2> QED
    BY <2>2, <2>3
<1>8. CASE Saturation(v, u) = "SATZEROMAX"
  <2>1. ~v.signed /\ u.signed /\ v.rank < u.rank
    BY <1>1, <1>8, Kinds
  <2>2. Greater(u, x, v, High(v)) <=> x > High(v)
    BY <2>1, GreaterUnsigned
  <2>3. CASE x > High(v)
    <3>1. Nearest(v, x) = High(v)
      BY <1>1, <1>2, <2>3 DEF Nearest
    <3>2. Greater(u, x, v, High(v))
      BY <2>2, <2>3
    <3> QED
      BY <1>8, <3>1, <3>2 DEF ocl_convert_sat
  <2>4. CASE ~(x > High(v)) /\ x < 0
    BY <1>1, <1>2, <1>3, <1>8, <2>1, <2>2, <2>4 DEF ocl_convert_sat, Nearest
  <2>5. CASE ~(x > High(v)) /\ ~(x < 0)
    <3>1. Low(v) <= x /\ x <= High(v)
      BY <1>1, <1>2, <1>3, <2>1, <2>5
    <3> QED
      BY <1>4, <1>8, <2>2, <2>5, <3>1 DEF ocl_convert_sat
  <2> QED
    BY <2>3, <2>4, <2>5
<1>9. CASE Saturation(v, u) = "SATMINMAX"
  <2>1. v.signed /\ u.signed /\ v.rank < u.rank
    BY <1>1, <1>9, Kinds
  <2>2. Greater(u, x, v, High(v)) <=> x > High(v)
    BY <1>1, <2>1, GreaterExact
  <2>3. Greater(v, Low(v), u, x) <=> Low(v) > x
    BY <2>1, LessExact
  <2>4. CASE x > High(v)
    <3>1. Nearest(v, x) = High(v)
      BY <1>1, <1>2, <2>4 DEF Nearest
    <3>2. Greater(u, x, v, High(v))
      BY <2>2, <2>4
    <3> QED
      BY <1>9, <3>1, <3>2 DEF ocl_convert_sat
  <2>5. CASE ~(x > High(v)) /\ Low(v) > x
    BY <1>1, <1>2, <1>9, <2>2, <2>3, <2>5 DEF ocl_convert_sat, Nearest
  <2>6. CASE ~(x > High(v)) /\ ~(Low(v) > x)
    <3>1. Low(v) <= x /\ x <= High(v)
      BY <1>1, <1>2, <2>6
    <3> QED
      BY <1>4, <1>9, <2>2, <2>3, <2>6, <3>1 DEF ocl_convert_sat
  <2> QED
    BY <2>4, <2>5, <2>6
<1> QED
  BY <1>1, <1>5, <1>6, <1>7, <1>8, <1>9, Kinds

(***************************************************************************)
(* The calls.                                                              *)
(***************************************************************************)

\* The operands of the next call are of their type, and the last one was exact.
OperandsTyped == Ready => a \in Vectors(t) /\ b \in Vectors(t)
IInv ==
  /\ t \in Types
  /\ OperandsTyped
  /\ SaturationIsExact /\ AveragesAreExact /\ DistancesAreExact

LEMMA StoredElement ==
  ASSUME NEW u \in Types, NEW S, NEW v \in Stored(u, S), NEW i \in DOMAIN S,
         NEW x \in Values(u), S[i] = {x}
  PROVE  v[i] = x
BY StoreKeeps DEF Stored

LEMMA ReturnsFields ==
  ASSUME NEW op, NEW of, NEW u, NEW v, Returns(op, of, u, v)
  PROVE  /\ call'.op = op /\ call'.of = of /\ call'.type = u
         /\ call'.left = a /\ call'.right = b /\ call'.value = v
BY DEF Returns, NoCall

\* The operations the properties speak of; the others change nothing they see.
Exact == {"add_sat", "sub_sat", "convert_sat", "hadd", "rhadd", "abs_diff", "abs"}

LEMMA OthersKeep ==
  ASSUME t' \in Types, call'.op \notin Exact \cup {"none"}
  PROVE  IInv'
BY DEF IInv, OperandsTyped, Ready, SaturationIsExact, AveragesAreExact, DistancesAreExact, Exact

LEMMA BuiltinKeeps ==
  ASSUME IInv, NEW op \in Builtins, CallBuiltin(op)
  PROVE  IInv'
<1> DEFINE S == [i \in Elems |-> Builtin(op, t, a[i], b[i])]
           u == ResultType(op, t)
<1>1. /\ t \in Types /\ t' = t /\ Ready
      /\ a \in Vectors(t) /\ b \in Vectors(t)
  BY DEF IInv, OperandsTyped, CallBuiltin, Trap, vars
<1>2. \A i \in Elems : a[i] \in Values(t) /\ b[i] \in Values(t)
  BY <1>1 DEF Vectors
<1>3. \A i \in Elems : S[i] = Builtin(op, t, a[i], b[i])
  OBVIOUS
<1>4. CASE op \in {"rotate", "DIV", "MOD"}
  <2>1. call'.op = op
    BY ReturnsFields DEF CallBuiltin, Trap, NoCall
  <2> QED
    BY <1>1, <1>4, <2>1, OthersKeep DEF Exact
<1>5. ASSUME \A i \in Elems : \E x \in Values(u) : S[i] = {x}
      PROVE  /\ call'.op = op /\ call'.left = a /\ call'.right = b
             /\ \A i \in Elems : S[i] = {call'.value[i]}
  <2>1. ~Traps(S)
    BY <1>5 DEF Traps
  <2>2. PICK v \in Stored(u, S) : Returns(op, "none", u, v)
    BY <2>1 DEF CallBuiltin
  <2>3. u \in Types
    BY <1>1, Variants DEF ResultType
  <2>4. \A i \in Elems : S[i] = {v[i]}
    <3> SUFFICES ASSUME NEW i \in Elems PROVE S[i] = {v[i]}
      OBVIOUS
    <3>1. PICK x \in Values(u) : S[i] = {x}
      BY <1>5
    <3>2. i \in DOMAIN S
      OBVIOUS
    <3> HIDE DEF S, u
    <3> QED
      BY <2>2, <2>3, <3>1, <3>2, StoredElement
  <2> QED
    BY <2>2, <2>4, ReturnsFields
<1> HIDE DEF S
<1>6. CASE op = "add_sat"
  <2>1. \A i \in Elems : /\ a[i] + b[i] \in Int
                         /\ S[i] = {Nearest(t, a[i] + b[i])}
    BY <1>1, <1>2, <1>3, <1>6, AddSatExact, Ends DEF Builtin
  <2>2. \A i \in Elems : Nearest(t, a[i] + b[i]) \in Values(u)
    BY <1>1, <1>6, <2>1, NearestInType DEF ResultType
  <2>3. /\ call'.op = op /\ call'.left = a /\ call'.right = b
        /\ \A i \in Elems : S[i] = {call'.value[i]}
    BY <1>5, <2>1, <2>2
  <2>4. \A i \in Elems : call'.value[i] = Nearest(t, a[i] + b[i])
    BY <2>1, <2>3
  <2> QED
    BY <1>1, <1>6, <2>3, <2>4
    DEF IInv, OperandsTyped, Ready, SaturationIsExact, AveragesAreExact, DistancesAreExact, Nearest
<1>7. CASE op = "sub_sat"
  <2>1. \A i \in Elems : /\ a[i] - b[i] \in Int
                         /\ S[i] = {Nearest(t, a[i] - b[i])}
    BY <1>1, <1>2, <1>3, <1>7, SubSatExact, Ends DEF Builtin
  <2>2. \A i \in Elems : Nearest(t, a[i] - b[i]) \in Values(u)
    BY <1>1, <1>7, <2>1, NearestInType DEF ResultType
  <2>3. /\ call'.op = op /\ call'.left = a /\ call'.right = b
        /\ \A i \in Elems : S[i] = {call'.value[i]}
    BY <1>5, <2>1, <2>2
  <2>4. \A i \in Elems : call'.value[i] = Nearest(t, a[i] - b[i])
    BY <2>1, <2>3
  <2> QED
    BY <1>1, <1>7, <2>3, <2>4
    DEF IInv, OperandsTyped, Ready, SaturationIsExact, AveragesAreExact, DistancesAreExact, Nearest
<1>8. CASE op = "hadd"
  <2>1. \A i \in Elems : \E h \in Values(t) : S[i] = {h} /\ a[i] + b[i] - 2 * h \in {0, 1}
    <3> TAKE i \in Elems
    <3>1. S[i] = ocl_hadd(t, a[i], b[i])
      BY <1>3, <1>8 DEF Builtin
    <3>2. /\ a[i] \in Values(t)
          /\ b[i] \in Values(t)
      BY <1>2
    <3> QED
      <4>1. PICK h \in Values(t) : ocl_hadd(t, a[i], b[i]) = {h} /\ a[i] + b[i] - 2 * h \in {0, 1}
        BY <1>1, <3>2, HaddExact
      <4> QED
        BY <3>1, <4>1
  <2>2. u = t
    BY <1>8 DEF ResultType
  <2>3. /\ call'.op = op /\ call'.left = a /\ call'.right = b
        /\ \A i \in Elems : S[i] = {call'.value[i]}
    BY <1>5, <2>1, <2>2
  <2>4. \A i \in Elems : a[i] + b[i] - 2 * call'.value[i] \in {0, 1}
    BY <2>1, <2>3
  <2> QED
    BY <1>1, <1>8, <2>3, <2>4
    DEF IInv, OperandsTyped, Ready, SaturationIsExact, AveragesAreExact, DistancesAreExact
<1>9. CASE op = "rhadd"
  <2>1. \A i \in Elems : \E h \in Values(t) : S[i] = {h} /\ 2 * h - a[i] - b[i] \in {0, 1}
    <3> TAKE i \in Elems
    <3>1. S[i] = ocl_rhadd(t, a[i], b[i])
      BY <1>3, <1>9 DEF Builtin
    <3>2. /\ a[i] \in Values(t)
          /\ b[i] \in Values(t)
      BY <1>2
    <3> QED
      BY <1>1, <3>1, <3>2, RhaddExact
  <2>2. u = t
    BY <1>9 DEF ResultType
  <2>3. /\ call'.op = op /\ call'.left = a /\ call'.right = b
        /\ \A i \in Elems : S[i] = {call'.value[i]}
    BY <1>5, <2>1, <2>2
  <2>4. \A i \in Elems : 2 * call'.value[i] - a[i] - b[i] \in {0, 1}
    BY <2>1, <2>3
  <2> QED
    BY <1>1, <1>9, <2>3, <2>4
    DEF IInv, OperandsTyped, Ready, SaturationIsExact, AveragesAreExact, DistancesAreExact
<1>10. CASE op = "abs_diff"
  <2>1. \A i \in Elems : /\ S[i] = {Abs(a[i] - b[i])}
                         /\ Abs(a[i] - b[i]) \in Values(Unsigned(t))
    BY <1>1, <1>2, <1>3, <1>10, AbsDiffExact DEF Builtin
  <2>2. u = Unsigned(t)
    BY <1>10 DEF ResultType
  <2>3. /\ call'.op = op /\ call'.left = a /\ call'.right = b
        /\ \A i \in Elems : S[i] = {call'.value[i]}
    BY <1>5, <2>1, <2>2
  <2>4. \A i \in Elems : call'.value[i] = Abs(a[i] - b[i])
    BY <2>1, <2>3
  <2> QED
    BY <1>1, <1>10, <2>3, <2>4
    DEF IInv, OperandsTyped, Ready, SaturationIsExact, AveragesAreExact, DistancesAreExact
<1> QED
  BY <1>4, <1>6, <1>7, <1>8, <1>9, <1>10 DEF Builtins

LEMMA AbsKeeps ==
  ASSUME IInv, CallAbs
  PROVE  IInv'
<1> DEFINE S == [i \in Elems |-> ocl_abs(t, a[i])]
<1>1. /\ t \in Types /\ t' = t /\ a \in Vectors(t) /\ Unsigned(t) \in Types
  BY Variants DEF IInv, OperandsTyped, CallAbs
<1>2. PICK v \in Stored(Unsigned(t), S) : Returns("abs", "none", Unsigned(t), v)
  BY DEF CallAbs
<1>3. call'.op = "abs" /\ call'.left = a /\ call'.value = v
  BY <1>2, ReturnsFields
<1>4. ASSUME NEW i \in Elems, Negatable(t, a[i])
      PROVE  v[i] = Abs(a[i])
  <2>1. a[i] \in Values(t) /\ i \in DOMAIN S /\ S[i] = ocl_abs(t, a[i])
    BY <1>1 DEF Vectors
  <2> HIDE DEF S
  <2>2. S[i] = {Abs(a[i])} /\ Abs(a[i]) \in Values(Unsigned(t))
    BY <1>1, <1>4, <2>1, AbsExact
  <2> QED
    BY <1>1, <1>2, <2>1, <2>2, StoredElement
<1> QED
  BY <1>1, <1>3, <1>4
  DEF IInv, OperandsTyped, Ready, SaturationIsExact, AveragesAreExact, DistancesAreExact

LEMMA ConvertKeeps ==
  ASSUME IInv, NEW dst \in Types, Convert(dst)
  PROVE  IInv'
<1>1. /\ t \in Types /\ t' = t /\ a \in Vectors(t)
  BY DEF IInv, OperandsTyped, Convert
<1>2. /\ call'.op = "convert_sat" /\ call'.left = a /\ call'.type = dst
      /\ call'.value = [i \in Elems |-> ocl_convert_sat(dst, t, a[i])]
  BY ReturnsFields DEF Convert
<1>3. ASSUME NEW i \in Elems
      PROVE  \/ call'.value[i] = Nearest(dst, a[i])
             \/ LongHalf < 2 * IntHalf /\ dst = LongType /\ t = Unsigned(IntType)
  BY <1>1, <1>2, ConvertExact DEF Vectors
<1> QED
  BY <1>1, <1>2, <1>3
  DEF IInv, OperandsTyped, Ready, SaturationIsExact, AveragesAreExact, DistancesAreExact, Nearest

LEMMA Initially == Init => IInv
<1> SUFFICES ASSUME Init PROVE IInv
  OBVIOUS
<1>1. call.op = "none"
  BY DEF Init, NoCall
<1>2. a \in Vectors(t) /\ b \in Vectors(t) /\ t \in Types
  BY OperandAssumption DEF Init
<1> QED
  BY <1>1, <1>2
  DEF IInv, OperandsTyped, SaturationIsExact, AveragesAreExact, DistancesAreExact

LEMMA Inductive == IInv /\ [Next]_vars => IInv'
<1> SUFFICES ASSUME IInv, [Next]_vars PROVE IInv'
  OBVIOUS
<1>1. ASSUME NEW op \in Builtins, CallBuiltin(op) PROVE IInv'
  BY <1>1, BuiltinKeeps
<1>2. CASE CallAbs
  BY <1>2, AbsKeeps
<1>3. ASSUME NEW dst \in Types, Convert(dst) PROVE IInv'
  BY <1>3, ConvertKeeps
<1>4. ASSUME NEW op \in Relations, Compare(op) PROVE IInv'
  <2>1. call'.op = op /\ t' = t
    BY <1>4, ReturnsFields DEF Compare
  <2> QED
    BY <1>4, <2>1, OthersKeep DEF IInv, Relations, Exact
<1>5. CASE Select
  <2>1. call'.op = "select" /\ t' = t
    BY <1>5, ReturnsFields DEF Select
  <2> QED
    BY <2>1, OthersKeep DEF IInv, Exact
<1>6. ASSUME NEW op \in {"any", "all"}, AnyAll(op) PROVE IInv'
  <2>1. call'.op = op /\ t' = t
    BY <1>6, ReturnsFields DEF AnyAll
  <2> QED
    BY <1>6, <2>1, OthersKeep DEF IInv, Exact
<1>7. ASSUME NEW op \in AssignOps, Assign(op) PROVE IInv'
  <2>1. call'.op = "assign" /\ t' = t
    BY <1>7, ReturnsFields DEF Assign, Trap, NoCall
  <2> QED
    BY <2>1, OthersKeep DEF IInv, Exact
<1>8. ASSUME NEW op \in AssignOps, NEW elem \in ElementLists, SetElements(op, elem) PROVE IInv'
  <2>1. call'.op = "set" /\ t' = t
    BY <1>8 DEF SetElements, Trap, NoCall
  <2> QED
    BY <2>1, OthersKeep DEF IInv, Exact
<1>9. CASE UNCHANGED vars
  BY <1>9 DEF vars, IInv, OperandsTyped, Ready, SaturationIsExact, AveragesAreExact, DistancesAreExact
<1> QED
  BY <1>1, <1>2, <1>3, <1>4, <1>5, <1>6, <1>7, <1>8, <1>9 DEF Next

\* The inductive invariant holds throughout: operands have their type, and what
\* the exact functions return is exact.
THEOREM InvariantHolds == Spec => []IInv
  BY Initially, Inductive, PTL DEF Spec

\* For every width of the types and every pair of vectors: a saturated sum,
\* difference or conversion is the value of its type nearest to the exact one,
\* hadd and rhadd are the halves of the exact sum, abs_diff is the exact
\* distance, and abs is wherever the negation is defined
\* (vector_builtins_integer.h, vector_convert.h).
THEOREM ArithmeticExactly == Spec => []ArithmeticIsExact
<1>1. IInv => ArithmeticIsExact
  BY DEF IInv, ArithmeticIsExact
<1> QED
  BY <1>1, InvariantHolds, PTL

(***************************************************************************)
(* Comparisons and the functions that take their value.                    *)
(***************************************************************************)

\* The top bit of 0, and that of -1, the only value between -2 and 0.
LEMMA TopBits ==
  ASSUME NEW u \in Types, NEW c \in Int, c > -2, c <= 0
  PROVE  /\ TopBit(u, c) = 0 \/ TopBit(u, c) = 1
         /\ TopBit(u, c) = 1 <=> c < 0
<1>1. \A h \in Nat \ {0} : /\ c < 0 => c \div h < 0 /\ c \div h > -2
                           /\ c = 0 => c \div h = 0
                           /\ c \div h \in Int
  OBVIOUS
<1>2. \A q \in Int : /\ q < 0 /\ q > -2 => q % 2 = 1
                     /\ q = 0 => q % 2 = 0
  OBVIOUS
<1>3. Half(u) \in Nat \ {0}
  BY Widths
<1> QED
  BY <1>1, <1>2, <1>3 DEF TopBit

\* The value of a comparison is a mask of the operands, which stay as they are.
Compared ==
  call.op \in Relations =>
    /\ call.type = Signed(t)
    /\ \A i \in Elems : call.value[i] = Mask(Relational(call.op, a[i], b[i]))

LEMMA MaskBit ==
  ASSUME t \in Types, Compared, call.op \in Relations, NEW i \in Elems
  PROVE  /\ TopBit(call.type, call.value[i]) \in {0, 1}
         /\ TopBit(call.type, call.value[i]) = 1 <=> Relational(call.op, a[i], b[i])
<1>1. Signed(t) \in Types
  BY DEF Signed, Types
<1>2. /\ call.type = Signed(t)
      /\ call.value[i] = Mask(Relational(call.op, a[i], b[i]))
  BY DEF Compared
<1>3. /\ call.value[i] \in Int /\ call.value[i] > -2 /\ call.value[i] <= 0
      /\ call.value[i] < 0 <=> Relational(call.op, a[i], b[i])
  BY <1>2 DEF Mask
<1> QED
  BY <1>1, <1>2, <1>3, TopBits

MaskInv == Compared /\ MasksSelect

LEMMA SelectMasks ==
  ASSUME t \in Types, MaskInv, Select
  PROVE  MaskInv'
<1>1. call.op \in Relations /\ t' = t
  BY DEF Select
<1>2. /\ call'.op = "select" /\ call'.of = call.op
      /\ call'.left = a /\ call'.right = b
      /\ call'.value = [i \in Elems |-> IF TopBit(call.type, call.value[i]) = 1 THEN b[i] ELSE a[i]]
  BY ReturnsFields DEF Select
<1>3. ASSUME NEW i \in Elems
      PROVE  call'.value[i] = IF Relational(call.op, a[i], b[i]) THEN b[i] ELSE a[i]
  BY <1>1, <1>2, MaskBit DEF MaskInv
<1> QED
  BY <1>2, <1>3 DEF MaskInv, Compared, MasksSelect, Relations

LEMMA AnyAllMasks ==
  ASSUME t \in Types, MaskInv, NEW op \in {"any", "all"}, AnyAll(op)
  PROVE  MaskInv'
<1>1. call.op \in Relations /\ t' = t
  BY DEF AnyAll
<1> DEFINE bits == { TopBit(call.type, call.value[i]) : i \in Elems }
           res  == IF op = "any" THEN 1 \in bits ELSE 0 \notin bits
           Holds(i) == Relational(call.op, a[i], b[i])
<1>2. /\ call'.op = op /\ call'.of = call.op
      /\ call'.left = a /\ call'.right = b
      /\ call'.value = [i \in {1} |-> IF res THEN 1 ELSE 0]
  BY ReturnsFields DEF AnyAll
<1>3. call'.value[1] = IF res THEN 1 ELSE 0
  BY <1>2
<1>4. \A i \in Elems : /\ TopBit(call.type, call.value[i]) \in {0, 1}
                       /\ TopBit(call.type, call.value[i]) = 1 <=> Holds(i)
  BY <1>1, MaskBit DEF MaskInv
<1>5. 1 \in bits <=> \E i \in Elems : Holds(i)
  BY <1>4
<1>6. 0 \notin bits <=> \A i \in Elems : Holds(i)
  BY <1>4
<1>7. ~ Compared' => FALSE
  BY <1>2 DEF Compared, Relations
<1>8. CASE op = "any"
  <2>1. call'.value[1] = IF \E i \in Elems : Holds(i) THEN 1 ELSE 0
    BY <1>3, <1>5, <1>8
  <2> QED
    BY <1>2, <1>7, <1>8, <2>1 DEF MaskInv, MasksSelect
<1>9. CASE op = "all"
  <2>1. call'.value[1] = IF \A i \in Elems : Holds(i) THEN 1 ELSE 0
    BY <1>3, <1>6, <1>9
  <2> QED
    BY <1>2, <1>7, <1>9, <2>1 DEF MaskInv, MasksSelect
<1> QED
  BY <1>8, <1>9

\* The other functions are neither.
Masking == Relations \cup {"select", "any", "all"}

LEMMA OthersMask ==
  ASSUME call'.op \notin Masking
  PROVE  MaskInv'
BY DEF MaskInv, Compared, MasksSelect, Masking

LEMMA MasksStep == IInv /\ MaskInv /\ [Next]_vars => MaskInv'
<1> SUFFICES ASSUME IInv, MaskInv, [Next]_vars PROVE MaskInv'
  OBVIOUS
<1>0. t \in Types
  BY DEF IInv
<1>1. ASSUME NEW op \in Builtins, CallBuiltin(op) PROVE MaskInv'
  <2>1. call'.op = op
    BY <1>1, ReturnsFields DEF CallBuiltin, Trap, NoCall
  <2> QED
    BY <2>1, OthersMask DEF Masking, Relations, Builtins
<1>2. CASE CallAbs
  <2>1. call'.op = "abs"
    BY <1>2, ReturnsFields DEF CallAbs
  <2> QED
    BY <2>1, OthersMask DEF Masking, Relations
<1>3. ASSUME NEW dst \in Types, Convert(dst) PROVE MaskInv'
  <2>1. call'.op = "convert_sat"
    BY <1>3, ReturnsFields DEF Convert
  <2> QED
    BY <2>1, OthersMask DEF Masking, Relations
<1>4. ASSUME NEW op \in Relations, Compare(op) PROVE MaskInv'
  <2>1. /\ call'.op = op /\ call'.type = Signed(t) /\ t' = t /\ a' = a /\ b' = b
        /\ call'.value = [i \in Elems |-> Mask(Relational(op, a[i], b[i]))]
    BY <1>4, ReturnsFields DEF Compare
  <2> QED
    BY <1>4, <2>1 DEF MaskInv, Compared, MasksSelect, Relations
<1>5. CASE Select
  BY <1>0, <1>5, SelectMasks
<1>6. ASSUME NEW op \in {"any", "all"}, AnyAll(op) PROVE MaskInv'
  BY <1>0, <1>6, AnyAllMasks
<1>7. ASSUME NEW op \in AssignOps, Assign(op) PROVE MaskInv'
  <2>1. call'.op = "assign"
    BY <1>7, ReturnsFields DEF Assign, Trap, NoCall
  <2> QED
    BY <2>1, OthersMask DEF Masking, Relations
<1>8. ASSUME NEW op \in AssignOps, NEW elem \in ElementLists, SetElements(op, elem) PROVE MaskInv'
  <2>1. call'.op = "set"
    BY <1>8 DEF SetElements, Trap, NoCall
  <2> QED
    BY <2>1, OthersMask DEF Masking, Relations
<1>9. CASE UNCHANGED vars
  BY <1>9 DEF vars, MaskInv, Compared, MasksSelect
<1> QED
  BY <1>1, <1>2, <1>3, <1>4, <1>5, <1>6, <1>7, <1>8, <1>9 DEF Next

\* A comparison leaves in its result what a selection, any and all take for
\* true and false in it (vector_operators.h, vector_builtins_relational.h), for
\* every width and element.
THEOREM MasksAreRead == Spec => []MasksSelect
<1>1. Init => MaskInv
  BY DEF Init, NoCall, MaskInv, Compared, MasksSelect, Relations
<1>2. MaskInv => MasksSelect
  BY DEF MaskInv
<1> QED
  BY <1>1, <1>2, InvariantHolds, MasksStep, PTL DEF Spec

(***************************************************************************)
(* Division.                                                               *)
(***************************************************************************)

LEMMA Division ==
  ASSUME NEW n \in Nat, NEW m \in Nat \ {0}
  PROVE  /\ n \div m \in Nat /\ n % m \in Nat
         /\ n = (n \div m) * m + (n % m) /\ n % m < m
OBVIOUS

LEMMA MultipleLeavesNothing ==
  ASSUME NEW k \in Int, NEW m \in Nat \ {0}
  PROVE  (k * m) % m = 0
<1> DEFINE d == (k * m) \div m
           r == (k * m) % m
<1>1. d \in Int /\ r \in Int /\ 0 <= r /\ r < m /\ k * m = d * m + r
  OBVIOUS
<1> HIDE DEF d, r
<1>2. (k - d) * m = r
  BY <1>1
<1>3. k - d >= 1 => (k - d) * m >= m
  BY <1>1
<1>4. k - d <= -1 => (k - d) * m <= -m
  BY <1>1
<1>5. k - d = 0
  BY <1>1, <1>2, <1>3, <1>4
<1>6. r = 0
  BY <1>1, <1>2, <1>5
<1> QED
  BY <1>6 DEF r

\* C's quotient and what it leaves of the dividend.
LEMMA QuotientExact ==
  ASSUME NEW x \in Int, NEW y \in Int, y # 0
  PROVE  LET q == Quotient(x, y)
         IN  /\ q \in Int
             /\ IsQuotient(q, x, y)
             /\ IsRemainder(x - q * y, x, y)
             /\ Abs(q) <= Abs(x) /\ (Abs(y) >= 2 => 2 * Abs(q) <= Abs(x))
             /\ q < 0 => (x < 0 <=> y >= 0)
             /\ q > 0 => (x < 0 <=> y < 0)
<1> DEFINE n == Abs(x)
           m == Abs(y)
           d == n \div m
           r == n % m
           q == Quotient(x, y)
<1>1. n \in Nat /\ m \in Nat \ {0}
  BY DEF Abs
<1>2. d \in Nat /\ r \in Nat /\ n = d * m + r /\ r < m
  <2> HIDE DEF n, m
  <2> QED
    BY <1>1, Division
<1>3. /\ x >= 0 => x = n
      /\ x < 0 => x = -n
      /\ y >= 0 => y = m
      /\ y < 0 => y = -m
  BY DEF Abs
<1>4. /\ x >= 0 /\ y >= 0 => q = d
      /\ x >= 0 /\ y < 0 => q = -d
      /\ x < 0 /\ y >= 0 => q = -d
      /\ x < 0 /\ y < 0 => q = d
  BY DEF Quotient
<1> HIDE DEF n, m, d, r, q
<1>5. q \in Int
  BY <1>2, <1>4
<1>6. /\ x >= 0 => q * y = d * m
      /\ x < 0 => q * y = -(d * m)
  <2>1. CASE x >= 0 /\ y >= 0
    BY <1>1, <1>2, <1>3, <1>4, <2>1
  <2>2. CASE x >= 0 /\ y < 0
    BY <1>1, <1>2, <1>3, <1>4, <2>2
  <2>3. CASE x < 0 /\ y >= 0
    BY <1>1, <1>2, <1>3, <1>4, <2>3
  <2>4. CASE x < 0 /\ y < 0
    BY <1>1, <1>2, <1>3, <1>4, <2>4
  <2> QED
    BY <2>1, <2>2, <2>3, <2>4
<1>7. /\ d * m \in Int /\ q * y \in Int
  BY <1>1, <1>2, <1>5
<1>8. /\ x >= 0 => x - q * y = r
      /\ x < 0 => x - q * y = -r
  BY <1>1, <1>2, <1>3, <1>6, <1>7
<1>9. /\ Abs(x - q * y) = r
      /\ TakesSign(x - q * y, x)
  BY <1>2, <1>8 DEF Abs, TakesSign
<1>10. Abs(x - q * y) < Abs(y)
  BY <1>2, <1>9 DEF m
<1>11. (x - (x - q * y)) % m = 0
  <2>1. x - (x - q * y) = q * y
    BY <1>7
  <2>2. CASE x >= 0
    BY <1>1, <1>2, <1>6, <2>1, <2>2, MultipleLeavesNothing
  <2>3. CASE x < 0
    <3>1. q * y = (-d) * m
      BY <1>1, <1>2, <1>6, <2>3
    <3>2. -d \in Int
      BY <1>2
    <3> QED
      BY <1>1, <2>1, <3>1, <3>2, MultipleLeavesNothing
  <2> QED
    BY <2>2, <2>3
<1>12. Abs(q) = d
  BY <1>2, <1>4 DEF Abs
<1>13. d <= n /\ (m >= 2 => 2 * d <= n)
  <2>1. d * m >= d
    BY <1>1, <1>2
  <2>2. m >= 2 => d * m >= 2 * d
    BY <1>1, <1>2
  <2> QED
    BY <1>1, <1>2, <1>7, <2>1, <2>2
<1>14. /\ q < 0 => (x < 0 <=> y >= 0)
       /\ q > 0 => (x < 0 <=> y < 0)
  BY <1>2, <1>4
<1>15. IsQuotient(q, x, y) /\ IsRemainder(x - q * y, x, y)
  BY <1>9, <1>10, <1>11 DEF IsQuotient, IsRemainder, m
<1>16. Abs(q) <= Abs(x) /\ (Abs(y) >= 2 => 2 * Abs(q) <= Abs(x))
  BY <1>12, <1>13 DEF n, m
<1> QED
  BY <1>5, <1>14, <1>15, <1>16 DEF q

\* The divisions by 1 and by -1.
LEMMA QuotientByOne ==
  ASSUME NEW x \in Int, NEW y \in Int, y = 1 \/ y = -1
  PROVE  /\ Quotient(x, y) = IF y = 1 THEN x ELSE -x
         /\ x - Quotient(x, y) * y = 0
<1> DEFINE q == Quotient(x, y)
           r == x - q * y
<1>1. q \in Int /\ Abs(r) < Abs(y)
  BY QuotientExact DEF IsQuotient
<1>2. r \in Int /\ r = IF y = 1 THEN x - q ELSE x + q
  <2> HIDE DEF q
  <2> QED
    BY <1>1
<1>3. r = 0
  <2> HIDE DEF r
  <2> QED
    BY <1>1, <1>2 DEF Abs
<1> HIDE DEF q
<1>4. q = IF y = 1 THEN x ELSE -x
  BY <1>1, <1>2, <1>3
<1> QED
  BY <1>3, <1>4 DEF q

\* A division that C defines stays in the type of its operands.
LEMMA DivideExact ==
  ASSUME NEW u \in Types, NEW x \in Values(u), NEW y \in Values(u),
         y # 0, ~(u.signed /\ y = -1)
  PROVE  LET q == Quotient(x, y)
         IN  /\ Divide(u, x, y) = {q} /\ Remainder(u, x, y) = {x - q * y}
             /\ q \in Values(u) /\ x - q * y \in Values(u)
             /\ IsQuotient(q, x, y) /\ IsRemainder(x - q * y, x, y)
<1> DEFINE q == Quotient(x, y)
           r == x - q * y
<1>1. /\ x \in Int /\ y \in Int /\ Low(u) \in Int /\ High(u) \in Int
      /\ Low(u) <= x /\ x <= High(u) /\ Low(u) <= y /\ y <= High(u)
      /\ Half(u) \in Nat \ {0}
  BY Ends, Widths
<1>2. \/ Low(u) = -Half(u) /\ High(u) = Half(u) - 1 /\ y # -1
      \/ Low(u) = 0 /\ High(u) = 2 * Half(u) - 1
  BY Ends, Widths
<1>3. /\ q \in Int
      /\ IsQuotient(q, x, y) /\ IsRemainder(r, x, y)
      /\ Abs(q) <= Abs(x) /\ (Abs(y) >= 2 => 2 * Abs(q) <= Abs(x))
      /\ q < 0 => (x < 0 <=> y >= 0)
      /\ q > 0 => (x < 0 <=> y < 0)
  BY <1>1, QuotientExact
<1>4. r \in Int
  <2> HIDE DEF q
  <2> QED
    BY <1>1, <1>3
<1>5. Divides(u, x, y)
  BY <1>1, <1>2 , Variants, Widths, Ends DEF Divides, IntRank
<1>6. Divide(u, x, y) = {q} /\ Remainder(u, x, y) = {r}
  BY <1>5 DEF Divide, Remainder
<1> HIDE DEF q
<1>7. q \in Values(u)
  <2>1. Low(u) <= q /\ q <= High(u)
    <3>1. CASE y = 1 \/ y = 0
      BY <1>1, <1>2, <1>3, <3>1 DEF Abs
    <3>2. CASE y = -1
      BY <1>1, <1>2, <1>3, <3>2 DEF Abs
    <3>3. CASE y > 1 \/ y < -1
      <4>1. 2 * Abs(q) <= Abs(x)
        BY <1>1, <1>3, <3>3 DEF Abs
      <4>2. CASE Low(u) = -Half(u) /\ High(u) = Half(u) - 1
        <5>1. 2 * Abs(q) <= Half(u)
          BY <1>1, <1>3, <4>1, <4>2 DEF Abs
        <5> QED
          BY <1>1, <1>3, <4>2, <5>1 DEF Abs
      <4>3. CASE Low(u) = 0 /\ High(u) = 2 * Half(u) - 1
        BY <1>1, <1>3, <4>3 DEF Abs
      <4> QED
        BY <1>2, <4>2, <4>3
    <3> QED
      BY <1>1, <3>1, <3>2, <3>3
  <2> QED
    BY <1>3, <2>1, Ends
<1>8. r \in Values(u)
  <2>1. Abs(r) < Abs(y) /\ TakesSign(r, x)
    BY <1>3 DEF IsRemainder
  <2> HIDE DEF r
  <2>2. Low(u) <= r /\ r <= High(u)
    BY <1>1, <1>2, <1>4, <2>1 DEF Abs, TakesSign
  <2> QED
    BY <1>4, <2>2, Ends
<1> QED
  BY <1>3, <1>6, <1>7, <1>8 DEF q, r

LEMMA DIVExact ==
  ASSUME NEW u \in Types, NEW x \in Values(u), NEW y \in Values(u)
  PROVE  /\ DIV(u, x, y) # {}
         /\ \/ u.signed /\ y = -1 /\ x = Low(u)
            \/ \E q \in Values(u) : /\ DIV(u, x, y) = {q}
                                    /\ IF y = 0 THEN q = x ELSE IsQuotient(q, x, y)
<1>1. x \in Int /\ y \in Int /\ u.signed \in BOOLEAN
  BY Ends, Widths
<1>2. CASE u.signed /\ y = -1
  <2>1. DIV(u, x, y) = Arith(u, -x)
    BY <1>2 DEF DIV
  <2>2. Arith(u, -x) # {}
    BY DEF Arith
  <2>3. CASE x # Low(u)
    <3>1. -x \in Int /\ -x \in Values(u)
      BY <1>1, <1>2, <2>3, Ends, Widths
    <3>2. Arith(u, -x) = {-x}
      BY <3>1, ArithIsExact
    <3>3. IsQuotient(-x, x, y)
      BY <1>1, <1>2, QuotientExact, QuotientByOne
    <3> QED
      BY <1>2, <2>1, <3>1, <3>2, <3>3
  <2> QED
    BY <1>2, <2>1, <2>2, <2>3
<1>3. CASE ~(u.signed /\ y = -1) /\ y # 0
  <2>1. DIV(u, x, y) = Divide(u, x, y)
    BY <1>3 DEF DIV, NonZero
  <2> QED
    BY <1>3, <2>1, DivideExact
<1>4. CASE ~(u.signed /\ y = -1) /\ y = 0
  <2>1. DIV(u, x, y) = Divide(u, x, 1)
    BY <1>1, <1>4 DEF DIV, NonZero
  <2>2. Divide(u, x, 1) = {Quotient(x, 1)}
    BY DEF Divide, Divides
  <2>3. Quotient(x, 1) = x
    BY <1>1, QuotientByOne
  <2> QED
    BY <1>4, <2>1, <2>2, <2>3
<1> QED
  BY <1>1, <1>2, <1>3, <1>4

LEMMA MODExact ==
  ASSUME NEW u \in Types, NEW x \in Values(u), NEW y \in Values(u)
  PROVE  \E r \in Values(u) : /\ MOD(u, x, y) = {r}
                              /\ IF y = 0 THEN r = 0 ELSE IsRemainder(r, x, y)
<1>1. x \in Int /\ y \in Int /\ u.signed \in BOOLEAN
  BY Ends, Widths
<1>0. 0 \in Values(u)
  BY Ends, Widths
<1>2. CASE u.signed /\ y = -1
  <2>1. MOD(u, x, y) = {0}
    BY <1>2 DEF MOD
  <2>2. IsRemainder(0, x, y)
    BY <1>1, <1>2, QuotientExact, QuotientByOne
  <2> QED
    BY <1>0, <1>2, <2>1, <2>2
<1>3. CASE ~(u.signed /\ y = -1) /\ y # 0
  <2>1. MOD(u, x, y) = Remainder(u, x, y)
    BY <1>3 DEF MOD, NonZero
  <2> QED
    BY <1>3, <2>1, DivideExact
<1>4. CASE ~(u.signed /\ y = -1) /\ y = 0
  <2>1. MOD(u, x, y) = Remainder(u, x, 1)
    BY <1>1, <1>4 DEF MOD, NonZero
  <2>2. Remainder(u, x, 1) = {x - Quotient(x, 1) * 1}
    BY DEF Remainder, Divide, Divides
  <2>3. x - Quotient(x, 1) * 1 = 0
    BY <1>1, QuotientByOne
  <2> QED
    BY <1>0, <1>4, <2>1, <2>2, <2>3
<1> QED
  BY <1>1, <1>2, <1>3, <1>4

\* The assignment to an element traps on a division by 0, and on the one whose
\* quotient does not fit; otherwise its value is one of that to the vector.
LEMMA ElementExact ==
  ASSUME NEW u \in Types, NEW x \in Values(u), NEW y \in Values(u), NEW op \in AssignOps
  PROVE  /\ ElementAssigned(op, u, x, y) \subseteq Assigned(op, u, x, y)
         /\ ElementAssigned(op, u, x, y) = {} =>
              /\ op \in {"DIV_ASSIGN", "MOD_ASSIGN"}
              /\ y = 0 \/ (y = -1 /\ ~Negatable(u, x))
<1>1. /\ x \in Int /\ y \in Int /\ u.signed \in BOOLEAN /\ u.rank \in 1..4
      /\ Low(u) <= x /\ x <= High(u) /\ Low(u) \in Int /\ Half(u) \in Nat \ {0}
  BY Ends, Widths
<1>2. CASE op \notin {"DIV_ASSIGN", "MOD_ASSIGN"}
  <2>1. ElementAssigned(op, u, x, y) = Assigned(op, u, x, y)
    BY <1>2 DEF ElementAssigned
  <2>2. \A z : Arith(u, z) # {}
    BY DEF Arith
  <2>3. Assigned(op, u, x, y) # {}
    BY <1>2, <2>2 DEF Assigned, AssignOps
  <2> QED
    BY <2>1, <2>3
<1>3. Divides(u, x, y) => y # 0
  BY DEF Divides
<1>4. ~Divides(u, x, y) => y = 0 \/ (y = -1 /\ ~Negatable(u, x))
  <2>1. SUFFICES ASSUME y = -1, Promote(u).signed, x = Low(Promote(u))
                 PROVE  ~Negatable(u, x)
    BY DEF Divides
  <2>2. CASE u.rank < IntRank
    <3>1. /\ Promote(u) = IntType /\ IntType \in Types /\ IntType.signed
          /\ 4 * Half(u) <= IntHalf /\ IntHalf \in Nat /\ Half(IntType) = IntHalf
      BY <2>2, Variants, Widths, WidthAssumption
    <3>2. Low(Promote(u)) = -IntHalf
      BY <3>1, Ends
    <3>3. -Half(u) <= Low(u)
      BY <1>1, Ends
    <3> QED
      BY <1>1, <2>1, <3>1, <3>2, <3>3
  <2>3. CASE u.rank >= IntRank
    BY <1>1, <2>1, <2>3, Variants DEF Negatable, IntRank
  <2> QED
    BY <1>1, <2>2, <2>3 DEF IntRank
<1>5. ASSUME Divides(u, x, y), u.signed, y = -1
      PROVE  Quotient(x, y) = -x /\ x - Quotient(x, y) * y = 0 /\ Arith(u, -x) = {-x}
  <2>1. Quotient(x, y) = -x /\ x - Quotient(x, y) * y = 0
    BY <1>1, <1>5, QuotientByOne
  <2>2. CASE u.rank < IntRank
    <3>1. -x \in Int /\ -4 * Half(u) <= -x /\ -x < 4 * Half(u)
      BY <1>1, <1>5, Ends
    <3> QED
      BY <2>1, <2>2, <3>1, ArithIsExact
  <2>3. CASE u.rank >= IntRank
    <3>1. x # Low(u)
      BY <1>1, <1>5, <2>3, Variants DEF Divides
    <3>2. -x \in Int /\ -x \in Values(u)
      BY <1>1, <1>5, <3>1, Ends
    <3> QED
      BY <2>1, <3>2, ArithIsExact
  <2> QED
    BY <1>1, <2>2, <2>3 DEF IntRank
<1>6. CASE op = "DIV_ASSIGN"
  <2>1. ElementAssigned(op, u, x, y) = Divide(u, x, y) /\ Assigned(op, u, x, y) = DIV(u, x, y)
    BY <1>6 DEF ElementAssigned, Assigned
  <2>2. Divide(u, x, y) \subseteq DIV(u, x, y)
    BY <1>3, <1>5 DEF Divide, DIV, NonZero
  <2>3. Divide(u, x, y) = {} => ~Divides(u, x, y)
    BY DEF Divide
  <2> QED
    BY <1>4, <1>6, <2>1, <2>2, <2>3
<1>7. CASE op = "MOD_ASSIGN"
  <2>1. ElementAssigned(op, u, x, y) = Remainder(u, x, y) /\ Assigned(op, u, x, y) = MOD(u, x, y)
    BY <1>7 DEF ElementAssigned, Assigned
  <2>2. Remainder(u, x, y) = IF Divides(u, x, y) THEN {x - Quotient(x, y) * y} ELSE {}
    BY DEF Divide, Remainder
  <2>3. Remainder(u, x, y) \subseteq MOD(u, x, y)
    BY <1>3, <1>5, <2>2 DEF MOD, NonZero
  <2> QED
    BY <1>4, <1>7, <2>1, <2>2, <2>3
<1> QED
  BY <1>2, <1>6, <1>7

(***************************************************************************)
(* The divisions and assignments of vectors.                               *)
(***************************************************************************)

LEMMA RotateSome ==
  ASSUME NEW u, NEW x, NEW y
  PROVE  ocl_rotate(u, x, y) # {}
<1> DEFINE l == y % Bits(u)
           S == ShiftRight(u, x, Bits(u) - l)
<1>1. S # {}
  BY DEF ShiftRight
<1> HIDE DEF S
<1>2. PICK w \in S : TRUE
  BY <1>1
<1>3. Store(u, x * 2^l + Store(u, w % 2^l)) \in ocl_rotate(u, x, y)
  BY <1>2 DEF ocl_rotate, S
<1> QED
  BY <1>3

\* No builtin and no assignment to the full vector traps.
LEMMA NothingTraps ==
  ASSUME NEW u \in Types, NEW x \in Values(u), NEW y \in Values(u)
  PROVE  /\ \A op \in Builtins : Builtin(op, u, x, y) # {}
         /\ \A op \in AssignOps : Assigned(op, u, x, y) # {}
<1>1. DIV(u, x, y) # {} /\ MOD(u, x, y) # {}
  <2>1. \E r \in Values(u) : MOD(u, x, y) = {r}
    BY MODExact
  <2> QED
    BY <2>1, DIVExact
<1>2. /\ ocl_add_sat(u, x, y) # {} /\ ocl_sub_sat(u, x, y) # {}
      /\ ocl_hadd(u, x, y) # {} /\ ocl_rhadd(u, x, y) # {}
      /\ ocl_abs_diff(u, x, y) # {}
  <2>1. ocl_add_sat(u, x, y) # {} /\ ocl_sub_sat(u, x, y) # {}
    <3>1. ocl_add_sat(u, x, y) = {Nearest(u, x + y)}
      BY AddSatExact
    <3>2. ocl_sub_sat(u, x, y) = {Nearest(u, x - y)}
      BY SubSatExact
    <3> QED
      BY <3>1, <3>2, Zenon
  <2>2. ocl_hadd(u, x, y) # {}
    <3>1. PICK h \in Values(u) : ocl_hadd(u, x, y) = {h} /\ x + y - 2 * h \in {0, 1}
      BY HaddExact, Zenon
    <3> QED
      BY <3>1
  <2>3. ocl_rhadd(u, x, y) # {}
    <3>1. PICK h \in Values(u) : ocl_rhadd(u, x, y) = {h} /\ 2 * h - x - y \in {0, 1}
      BY RhaddExact, Zenon
    <3> QED
      BY <3>1
  <2>4. ocl_abs_diff(u, x, y) # {}
    BY AbsDiffExact
  <2> QED
    BY <2>1, <2>2, <2>3, <2>4
<1>3. \A z : Arith(u, z) # {}
  BY DEF Arith
<1>4. ASSUME NEW op \in Builtins PROVE Builtin(op, u, x, y) # {}
  BY <1>1, <1>2, RotateSome DEF Builtins, Builtin
<1>5. ASSUME NEW op \in AssignOps PROVE Assigned(op, u, x, y) # {}
  BY <1>1, <1>3 DEF AssignOps, Assigned
<1> QED
  BY <1>4, <1>5

SetInv == DivisionsAreExact /\ ElementsMatchWhole

\* The functions that neither divide nor assign.
LEMMA OthersSet ==
  ASSUME call'.op \notin {"DIV", "MOD", "assign", "set"}, ~trapped'
  PROVE  SetInv'
BY DEF SetInv, DivisionsAreExact, ElementsMatchWhole

LEMMA BuiltinDivides ==
  ASSUME IInv, ~trapped, NEW op \in Builtins, CallBuiltin(op)
  PROVE  SetInv'
<1> DEFINE S == [i \in Elems |-> Builtin(op, t, a[i], b[i])]
           u == ResultType(op, t)
<1>1. /\ t \in Types /\ Ready
      /\ a \in Vectors(t) /\ b \in Vectors(t)
  BY DEF IInv, OperandsTyped, CallBuiltin
<1>2. \A i \in Elems : a[i] \in Values(t) /\ b[i] \in Values(t)
  BY <1>1 DEF Vectors
<1>3. \A i \in Elems : S[i] = Builtin(op, t, a[i], b[i])
  OBVIOUS
<1>4. ~Traps(S)
  BY <1>1, <1>2, <1>3, NothingTraps DEF Traps
<1>5. /\ \E v \in Stored(u, S) : Returns(op, "none", u, v)
      /\ ~trapped' /\ t' = t
  BY <1>4 DEF CallBuiltin
<1>6. PICK v \in Stored(u, S) : Returns(op, "none", u, v)
  BY <1>5
<1>7. /\ call'.op = op /\ call'.of = "none"
      /\ call'.left = a /\ call'.right = b /\ call'.value = v
  BY <1>6, ReturnsFields
<1>8. DOMAIN S = Elems
  OBVIOUS
<1> HIDE DEF S
<1>9. CASE op \notin {"DIV", "MOD"}
  BY <1>5, <1>7, <1>9, OthersSet DEF Builtins
<1>10. CASE op = "DIV"
  <2>1. u = t
    BY <1>10 DEF ResultType
  <2>2. ASSUME NEW i \in Elems, ~(t.signed /\ b[i] = -1 /\ a[i] = Low(t))
        PROVE  IF b[i] = 0 THEN v[i] = a[i] ELSE IsQuotient(v[i], a[i], b[i])
    <3>1. S[i] = DIV(t, a[i], b[i])
      BY <1>3, <1>10 DEF Builtin
    <3>2. PICK q \in Values(t) : /\ DIV(t, a[i], b[i]) = {q}
                                 /\ IF b[i] = 0 THEN q = a[i] ELSE IsQuotient(q, a[i], b[i])
      BY <1>1, <1>2, <2>2, DIVExact
    <3>3. v[i] = q
      BY <1>1, <1>6, <1>8, <2>1, <3>1, <3>2, StoredElement
    <3> QED
      BY <3>2, <3>3
  <2>3. ElementsMatchWhole' /\ Low(t)' = Low(t)
    <3>1. ElementsMatchWhole'
      BY <1>7, <1>10 DEF ElementsMatchWhole
    <3>2. Low(t)' = Low(t)
      BY <1>5 DEF Low, Half
    <3> QED
      BY <3>1, <3>2
  <2>4. \A i \in Elems :
          CASE b[i] = 0 -> v[i] = a[i]
            [] b[i] = -1 /\ a[i] = Low(t) /\ t.signed -> TRUE
            [] OTHER -> IsQuotient(v[i], a[i], b[i])
    BY <2>2
  <2> QED
    BY <1>5, <1>7, <1>10, <2>3, <2>4 DEF SetInv, DivisionsAreExact, IsQuotient
<1>11. CASE op = "MOD"
  <2>1. u = t
    BY <1>11 DEF ResultType
  <2>2. ASSUME NEW i \in Elems
        PROVE  IF b[i] = 0 THEN v[i] = 0 ELSE IsRemainder(v[i], a[i], b[i])
    <3>1. S[i] = MOD(t, a[i], b[i])
      BY <1>3, <1>11 DEF Builtin
    <3>2. PICK q \in Values(t) : /\ MOD(t, a[i], b[i]) = {q}
                                 /\ IF b[i] = 0 THEN q = 0 ELSE IsRemainder(q, a[i], b[i])
      BY <1>1, <1>2, MODExact
    <3>3. v[i] = q
      BY <1>1, <1>6, <1>8, <2>1, <3>1, <3>2, StoredElement
    <3> QED
      BY <3>2, <3>3
  <2> QED
    BY <1>5, <1>7, <1>11, <2>2 DEF SetInv, DivisionsAreExact, ElementsMatchWhole, IsRemainder
<1> QED
  BY <1>9, <1>10, <1>11

LEMMA AssignDivides ==
  ASSUME IInv, ~trapped, NEW op \in AssignOps, Assign(op)
  PROVE  SetInv'
<1> DEFINE S == [i \in Elems |-> Assigned(op, t, a[i], b[i])]
<1>1. /\ t \in Types /\ Ready
      /\ a \in Vectors(t) /\ b \in Vectors(t)
  BY DEF IInv, OperandsTyped, Assign
<1>2. \A i \in Elems : a[i] \in Values(t) /\ b[i] \in Values(t)
  BY <1>1 DEF Vectors
<1>3. \A i \in Elems : S[i] = Assigned(op, t, a[i], b[i])
  OBVIOUS
<1>4. ~Traps(S)
  BY <1>1, <1>2, <1>3, NothingTraps DEF Traps
<1>5. /\ a' \in Stored(t, S) /\ Returns("assign", op, t, b)
      /\ ~trapped' /\ t' = t
  BY <1>4 DEF Assign
<1>7. /\ call'.op = "assign" /\ call'.of = op
      /\ call'.left = a /\ call'.right = b
  BY <1>5, ReturnsFields
<1>8. DOMAIN S = Elems
  OBVIOUS
<1> HIDE DEF S
<1>9. CASE op \notin {"DIV_ASSIGN", "MOD_ASSIGN"}
  BY <1>5, <1>7, <1>9 DEF SetInv, DivisionsAreExact, ElementsMatchWhole
<1>10. CASE op = "DIV_ASSIGN"
  <2>2. ASSUME NEW i \in Elems, ~(t.signed /\ b[i] = -1 /\ a[i] = Low(t))
        PROVE  IF b[i] = 0 THEN (a')[i] = a[i] ELSE IsQuotient((a')[i], a[i], b[i])
    <3>1. S[i] = DIV(t, a[i], b[i])
      BY <1>3, <1>10 DEF Assigned
    <3>2. PICK q \in Values(t) : /\ DIV(t, a[i], b[i]) = {q}
                                 /\ IF b[i] = 0 THEN q = a[i] ELSE IsQuotient(q, a[i], b[i])
      BY <1>1, <1>2, <2>2, DIVExact
    <3>3. (a')[i] = q
      BY <1>1, <1>5, <1>8, <3>1, <3>2, StoredElement
    <3> QED
      BY <3>2, <3>3
  <2>3. ElementsMatchWhole' /\ Low(t)' = Low(t)
    <3>1. ElementsMatchWhole'
      BY <1>7, <1>10 DEF ElementsMatchWhole
    <3>2. Low(t)' = Low(t)
      BY <1>5 DEF Low, Half
    <3> QED
      BY <3>1, <3>2
  <2>4. \A i \in Elems :
          CASE b[i] = 0 -> (a')[i] = a[i]
            [] b[i] = -1 /\ a[i] = Low(t) /\ t.signed -> TRUE
            [] OTHER -> IsQuotient((a')[i], a[i], b[i])
    BY <2>2
  <2> QED
    BY <1>5, <1>7, <1>10, <2>3, <2>4 DEF SetInv, DivisionsAreExact, IsQuotient
<1>11. CASE op = "MOD_ASSIGN"
  <2>2. ASSUME NEW i \in Elems
        PROVE  IF b[i] = 0 THEN (a')[i] = 0 ELSE IsRemainder((a')[i], a[i], b[i])
    <3>1. S[i] = MOD(t, a[i], b[i])
      BY <1>3, <1>11 DEF Assigned
    <3>2. PICK q \in Values(t) : /\ MOD(t, a[i], b[i]) = {q}
                                 /\ IF b[i] = 0 THEN q = 0 ELSE IsRemainder(q, a[i], b[i])
      BY <1>1, <1>2, MODExact
    <3>3. (a')[i] = q
      BY <1>1, <1>5, <1>8, <3>1, <3>2, StoredElement
    <3> QED
      BY <3>2, <3>3
  <2> QED
    BY <1>5, <1>7, <1>11, <2>2 DEF SetInv, DivisionsAreExact, ElementsMatchWhole, IsRemainder
<1> QED
  BY <1>9, <1>10, <1>11

LEMMA ElementListsMap ==
  ASSUME NEW elem \in ElementLists
  PROVE  /\ DOMAIN elem \subseteq Elems
         /\ \A i \in DOMAIN elem : elem[i] \in Elems
         /\ \A i, j \in DOMAIN elem : elem[i] = elem[j] => i = j
<1>1. PICK n \in Elems : /\ elem \in [1..n -> Elems]
                         /\ \A i, j \in 1..n : elem[i] = elem[j] => i = j
  BY DEF ElementLists
<1>2. 1..n \subseteq Elems
  BY ElemAssumption DEF Elems
<1> QED
  BY <1>1, <1>2

LEMMA SetDivides ==
  ASSUME IInv, ~trapped, NEW op \in AssignOps, NEW elem \in ElementLists, SetElements(op, elem)
  PROVE  SetInv'
<1> DEFINE S == [i \in DOMAIN elem |-> ElementAssigned(op, t, a[elem[i]], b[i])]
<1>1. /\ t \in Types /\ Ready
      /\ a \in Vectors(t) /\ b \in Vectors(t)
  BY DEF IInv, OperandsTyped, SetElements
<1>2. \A i \in DOMAIN elem : a[elem[i]] \in Values(t) /\ b[i] \in Values(t)
  BY <1>1, ElementListsMap DEF Vectors
<1>3. /\ DOMAIN S = DOMAIN elem
      /\ \A i \in DOMAIN elem : S[i] = ElementAssigned(op, t, a[elem[i]], b[i])
  OBVIOUS
<1>4. \A i \in DOMAIN elem :
        /\ S[i] \subseteq Assigned(op, t, a[elem[i]], b[i])
        /\ S[i] = {} =>
             /\ op \in {"DIV_ASSIGN", "MOD_ASSIGN"}
             /\ b[i] = 0 \/ (b[i] = -1 /\ ~Negatable(t, a[elem[i]]))
  <2> HIDE DEF S
  <2> QED
    BY <1>1, <1>2, <1>3, ElementExact
<1>5. CASE Traps(S)
  <2>1. /\ trapped' = TRUE /\ t' = t
        /\ call'.op = "set" /\ call'.of = op /\ call'.elem = elem
        /\ call'.left = a /\ call'.right = b
    BY <1>5 DEF SetElements, Trap, NoCall
  <2>2. PICK i \in DOMAIN elem : S[i] = {}
    BY <1>3, <1>5 DEF Traps
  <2> HIDE DEF S
  <2>3. /\ op \in {"DIV_ASSIGN", "MOD_ASSIGN"}
        /\ b[i] = 0 \/ (b[i] = -1 /\ ~Negatable(t, a[elem[i]]))
    BY <1>4, <2>2
  <2>4. Negatable(t, a[elem[i]]) = Negatable(t', a[elem[i]])
    BY <2>1
  <2>5. DivisionsAreExact'
    BY <2>1, <2>3, <2>4 DEF DivisionsAreExact, Negatable, Low, Half
  <2> QED
    BY <2>1, <2>5 DEF SetInv, ElementsMatchWhole
<1>6. CASE ~Traps(S)
  <2>1. /\ ~trapped' /\ t' = t
        /\ call'.op = "set" /\ call'.of = op /\ call'.elem = elem
        /\ call'.left = a /\ call'.right = b
        /\ call'.value = [i \in DOMAIN elem |-> b[i]]
    BY <1>6 DEF SetElements, NoCall
  <2>2. PICK v \in Stored(t, S) :
          a' = [k \in Elems |-> IF \E i \in DOMAIN elem : elem[i] = k
                                THEN v[CHOOSE i \in DOMAIN elem : elem[i] = k]
                                ELSE a[k]]
    BY <1>6 DEF SetElements
  <2>3. ASSUME NEW i \in DOMAIN elem
        PROVE  (a')[elem[i]] = v[i]
    <3>1. (CHOOSE j \in DOMAIN elem : elem[j] = elem[i]) = i
      BY ElementListsMap
    <3>2. elem[i] \in Elems
      BY ElementListsMap
    <3> QED
      BY <2>2, <3>1, <3>2
  <2>4. ASSUME NEW i \in DOMAIN elem
        PROVE  \E x \in S[i] : v[i] = Store(t, x)
    <3> HIDE DEF S
    <3> QED
      BY <1>3, <2>2 DEF Stored
  <2>5. ASSUME NEW i \in DOMAIN elem
        PROVE  \E x \in Assigned(op, t, a[elem[i]], b[i]) : (a')[elem[i]] = Store(t, x)
    <3> HIDE DEF S
    <3> QED
      BY <1>4, <2>3, <2>4
  <2>6. ASSUME NEW k \in Elems, \A i \in DOMAIN elem : elem[i] # k
        PROVE  (a')[k] = a[k]
    BY <2>2, <2>6
  <2>7. ASSUME op = "ASSIGN", NEW i \in DOMAIN elem
        PROVE  call'.value[i] = (a')[elem[i]]
    <3>1. Assigned(op, t, a[elem[i]], b[i]) = {b[i]}
      BY <2>7 DEF Assigned
    <3>2. Store(t, b[i]) = b[i]
      BY <1>1, <1>2, StoreKeeps
    <3> QED
      BY <2>1, <2>5, <3>1, <3>2
  <2>8. ASSUME NEW u, NEW x PROVE Store(u, x)' = Store(u, x)
    BY DEF Store, Values, Low, High, Half
  <2>9. ElementsMatchWhole'
    BY <2>1, <2>5, <2>6, <2>7 DEF ElementsMatchWhole
  <2> QED
    BY <2>1, <2>9 DEF SetInv, DivisionsAreExact
<1> QED
  BY <1>5, <1>6

LEMMA SetStep == IInv /\ SetInv /\ [Next]_vars => SetInv'
<1> SUFFICES ASSUME IInv, SetInv, [Next]_vars PROVE SetInv'
  OBVIOUS
<1>0. trapped => call.op = "set"
  BY DEF SetInv, DivisionsAreExact
<1>1. ASSUME NEW op \in Builtins, CallBuiltin(op) PROVE SetInv'
  BY <1>0, <1>1, BuiltinDivides DEF CallBuiltin, Ready
<1>2. CASE CallAbs
  <2>1. call'.op = "abs" /\ trapped' = trapped /\ Ready
    BY <1>2, ReturnsFields DEF CallAbs
  <2> QED
    BY <1>0, <2>1, OthersSet DEF Ready
<1>3. ASSUME NEW dst \in Types, Convert(dst) PROVE SetInv'
  <2>1. call'.op = "convert_sat" /\ trapped' = trapped /\ Ready
    BY <1>3, ReturnsFields DEF Convert
  <2> QED
    BY <1>0, <2>1, OthersSet DEF Ready
<1>4. ASSUME NEW op \in Relations, Compare(op) PROVE SetInv'
  <2>1. call'.op = op /\ trapped' = trapped /\ Ready
    BY <1>4, ReturnsFields DEF Compare
  <2> QED
    BY <1>0, <2>1, OthersSet DEF Ready, Relations
<1>5. CASE Select
  <2>1. call'.op = "select" /\ trapped' = trapped /\ call.op \in Relations
    BY <1>5, ReturnsFields DEF Select
  <2> QED
    BY <1>0, <2>1, OthersSet DEF Relations
<1>6. ASSUME NEW op \in {"any", "all"}, AnyAll(op) PROVE SetInv'
  <2>1. call'.op = op /\ trapped' = trapped /\ call.op \in Relations
    BY <1>6, ReturnsFields DEF AnyAll
  <2> QED
    BY <1>0, <2>1, OthersSet DEF Relations
<1>7. ASSUME NEW op \in AssignOps, Assign(op) PROVE SetInv'
  BY <1>0, <1>7, AssignDivides DEF Assign, Ready
<1>8. ASSUME NEW op \in AssignOps, NEW elem \in ElementLists, SetElements(op, elem) PROVE SetInv'
  BY <1>0, <1>8, SetDivides DEF SetElements, Ready
<1>9. CASE UNCHANGED vars
  BY <1>9 DEF vars, SetInv, DivisionsAreExact, ElementsMatchWhole
<1> QED
  BY <1>1, <1>2, <1>3, <1>4, <1>5, <1>6, <1>7, <1>8, <1>9 DEF Next

LEMMA SetInvHolds == Spec => []SetInv
<1>1. Init => SetInv
  BY DEF Init, NoCall, SetInv, DivisionsAreExact, ElementsMatchWhole
<1> QED
  BY <1>1, InvariantHolds, SetStep, PTL DEF Spec

\* For every width and every pair of vectors: a division of vectors raises no
\* exception and is C's wherever C defines it, and only an assignment to chosen
\* elements traps, on a divisor 0 or a quotient that does not fit
\* (vector_operators.h, vector_elements.h).
THEOREM DivisionsExactly == Spec => []DivisionsAreExact
<1>1. SetInv => DivisionsAreExact
  BY DEF SetInv
<1> QED
  BY <1>1, SetInvHolds, PTL

\* An assignment to chosen elements, in any order, leaves in them what the
\* assignment of the full vector could, and keeps the others (vector_elements.h).
THEOREM ElementsLikeWhole == Spec => []ElementsMatchWhole
<1>1. SetInv => ElementsMatchWhole
  BY DEF SetInv
<1> QED
  BY <1>1, SetInvHolds, PTL

(***************************************************************************)
(* Powers of two.                                                          *)
(***************************************************************************)

\* A power of two counts the subsets of a set.
LEMMA PowerCounts ==
  ASSUME NEW n \in Nat, NEW S, IsFiniteSet(S), Cardinality(S) = n
  PROVE  IsFiniteSet(SUBSET S) /\ Cardinality(SUBSET S) = 2^n
BY FS_SUBSET

LEMMA PowerIsPositive ==
  ASSUME NEW n \in Nat
  PROVE  2^n \in Nat \ {0}
<1>1. IsFiniteSet(1..n) /\ Cardinality(1..n) = n
  BY FS_Interval
<1>2. IsFiniteSet(SUBSET (1..n)) /\ Cardinality(SUBSET (1..n)) = 2^n
  BY <1>1, PowerCounts
<1>3. SUBSET (1..n) # {}
  OBVIOUS
<1>4. Cardinality(SUBSET (1..n)) \in Nat /\ Cardinality(SUBSET (1..n)) # 0
  BY <1>2, <1>3, FS_CardinalityType, FS_EmptySet
<1> QED
  BY <1>2, <1>4

LEMMA PowerOfSum ==
  ASSUME NEW m \in Nat, NEW n \in Nat
  PROVE  2^(m + n) = 2^m * 2^n
<1> DEFINE A == 1..m
           B == (m + 1)..(m + n)
           C == 1..(m + n)
           F == [S \in SUBSET C |-> <<S \cap A, S \cap B>>]
<1>1. C = A \cup B /\ A \cap B = {}
  OBVIOUS
<1>2. /\ IsFiniteSet(SUBSET A) /\ Cardinality(SUBSET A) = 2^m
      /\ IsFiniteSet(SUBSET B) /\ Cardinality(SUBSET B) = 2^n
      /\ IsFiniteSet(SUBSET C) /\ Cardinality(SUBSET C) = 2^(m + n)
  <2>1. IsFiniteSet(A) /\ Cardinality(A) = m
    BY FS_Interval
  <2>2. IsFiniteSet(B) /\ Cardinality(B) = n
    BY FS_Interval
  <2>4. m + n \in Nat
    OBVIOUS
  <2>3. IsFiniteSet(C) /\ Cardinality(C) = m + n
    <3>1. \A k \in Nat : IsFiniteSet(1..k) /\ Cardinality(1..k) = k
      BY FS_Interval
    <3> QED
      BY <2>4, <3>1
  <2> HIDE DEF A, B, C
  <2> QED
    BY <2>1, <2>2, <2>3, <2>4, PowerCounts
<1> HIDE DEF A, B, C
<1>3. F \in Bijection(SUBSET C, (SUBSET A) \X (SUBSET B))
  <2>1. \A S \in SUBSET C : F[S] \in (SUBSET A) \X (SUBSET B) /\ S = F[S][1] \cup F[S][2]
    BY <1>1
  <2>2. ASSUME NEW P \in (SUBSET A) \X (SUBSET B)
        PROVE  P[1] \cup P[2] \in SUBSET C /\ F[P[1] \cup P[2]] = P
    <3>1. P[1] \cup P[2] \in SUBSET C
      BY <1>1
    <3>2. (P[1] \cup P[2]) \cap A = P[1] /\ (P[1] \cup P[2]) \cap B = P[2]
      BY <1>1
    <3> QED
      BY <3>1, <3>2
  <2>3. \A S, T \in SUBSET C : F[S] = F[T] => S = T
    BY <2>1
  <2>4. F \in [SUBSET C -> (SUBSET A) \X (SUBSET B)]
    BY <2>1
  <2> HIDE DEF F
  <2>5. F \in Injection(SUBSET C, (SUBSET A) \X (SUBSET B))
    <3>1. DOMAIN F = SUBSET C
      BY <2>4
    <3>2. \A S, T \in DOMAIN F : F[S] = F[T] => S = T
      BY <2>3, <3>1
    <3> QED
      BY <2>4, <3>2, Zenon DEF Injection, IsInjective
  <2>6. \A P \in (SUBSET A) \X (SUBSET B) : \E S \in SUBSET C : F[S] = P
    BY <2>2, Zenon
  <2>7. F \in Surjection(SUBSET C, (SUBSET A) \X (SUBSET B))
    BY <2>4, <2>6, Zenon DEF Surjection
  <2> QED
    BY <2>5, <2>7, Zenon DEF Bijection
<1>4. ExistsBijection(SUBSET C, (SUBSET A) \X (SUBSET B))
  BY <1>3 DEF ExistsBijection
<1>5. Cardinality((SUBSET A) \X (SUBSET B)) = Cardinality(SUBSET C)
  BY <1>2, <1>4, FS_Bijection
<1>6. Cardinality((SUBSET A) \X (SUBSET B)) = Cardinality(SUBSET A) * Cardinality(SUBSET B)
  BY <1>2, FS_Product
<1> QED
  BY <1>2, <1>5, <1>6

(***************************************************************************)
(* Rotations.                                                              *)
(***************************************************************************)

\* The width of a type is that of its values, and a promoted type is wider.
LEMMA WidthOf ==
  ASSUME NEW u \in Types
  PROVE  /\ Bits(u) \in Nat \ {0} /\ 2^(Bits(u) - 1) = Half(u) /\ 2^Bits(u) = 2 * Half(u)
<1>1. \E n \in 1..Half(u) : 2^(n - 1) = Half(u)
  <2>1. Half(u) \in {CharHalf, ShortHalf, IntHalf, LongHalf}
    BY DEF Half, Types, Ranks
  <2> QED
    BY <2>1, BinaryAssumption
<1>2. Bits(u) \in 1..Half(u) /\ 2^(Bits(u) - 1) = Half(u)
  BY <1>1, Zenon DEF Bits
<1>3. Bits(u) \in Nat \ {0}
  BY <1>2, Widths
<1> HIDE DEF Bits
<1>4. PICK n \in Nat : n = Bits(u) - 1
  BY <1>3
<1>5. 2^(n + 1) = 2^n * 2^1 /\ 2^1 = 2
  <2>1. \A k \in Nat : 2^(n + k) = 2^n * 2^k
    BY PowerOfSum
  <2>2. 1 \in Nat /\ 2^1 = 2
    OBVIOUS
  <2> QED
    BY <2>1, <2>2
<1>6. n + 1 = Bits(u)
  BY <1>3, <1>4
<1>7. 2^n = Half(u) /\ Half(u) \in Nat
  BY <1>2, <1>4, Widths
<1> QED
  BY <1>3, <1>5, <1>6, <1>7, <1>4

LEMMA PromotedIsWider ==
  ASSUME NEW u \in Types
  PROVE  Bits(u) <= Bits(Promote(u)) /\ (u.rank < IntRank => Bits(u) < Bits(Promote(u)))
<1>1. CASE u.rank >= IntRank
  BY <1>1, Variants, WidthOf, Widths DEF IntRank
<1>2. CASE u.rank < IntRank
  <2> DEFINE w == Bits(u)
             p == Bits(IntType)
  <2>1. /\ Promote(u) = IntType /\ IntType \in Types /\ Half(IntType) = IntHalf
        /\ 4 * Half(u) <= IntHalf /\ Half(u) \in Nat \ {0} /\ IntHalf \in Nat
    BY <1>2, Variants, Widths, WidthAssumption
  <2>2. w \in Nat /\ p \in Nat /\ 2^w = 2 * Half(u) /\ 2^p = 2 * IntHalf
    BY <2>1, WidthOf
  <2> HIDE DEF w, p
  <2>3. ASSUME w >= p PROVE FALSE
    <3>1. PICK d \in Nat : d = w - p
      BY <2>2, <2>3
    <3>2. 2^(p + d) = 2^p * 2^d /\ 2^d \in Nat \ {0} /\ 2^p \in Nat \ {0}
      BY <2>2, PowerOfSum, PowerIsPositive
    <3>3. p + d = w
      BY <2>2, <3>1
    <3>4. 2^p * 2^d >= 2^p
      BY <3>2
    <3> QED
      BY <2>1, <2>2, <3>2, <3>3, <3>4
  <2>4. w < p
    BY <2>2, <2>3
  <2> QED
    BY <2>1, <2>2, <2>4 DEF w, p
<1> QED
  BY <1>1, <1>2, Widths DEF IntRank

\* A value stored differs from it by a multiple of the modulus, and an unsigned
\* type holds one of each class.
LEMMA StoreMultiple ==
  ASSUME NEW u \in Types, NEW x \in Int
  PROVE  \E k \in Int : Store(u, x) = x + k * (2 * Half(u))
<1>1. CASE x \in Values(u)
  <2>1. Store(u, x) = x + 0 * (2 * Half(u))
    BY <1>1, Widths DEF Store
  <2> QED
    BY <2>1
<1>2. CASE x \notin Values(u)
  <2> DEFINE m == 2 * Half(u)
             z == x - Low(u)
  <2>1. m \in Nat \ {0} /\ z \in Int /\ Low(u) \in Int
    BY Widths, Ends
  <2>2. Store(u, x) = (z % m) + Low(u)
    BY <1>2 DEF Store
  <2>6. z = x - Low(u)
    OBVIOUS
  <2> HIDE DEF m, z
  <2>3. z % m \in Int /\ z \div m \in Int /\ z = (z \div m) * m + (z % m)
    BY <2>1
  <2>4. PICK d \in Int, r \in Int : d = z \div m /\ r = z % m /\ z = d * m + r
    BY <2>3
  <2>7. Store(u, x) = r + Low(u)
    BY <2>2, <2>4
  <2>8. PICK k \in Int : k = -d
    BY <2>4
  <2>9. PICK e \in Int : e = d * m /\ k * m = -e
    BY <2>1, <2>8
  <2>10. PICK low \in Int : low = Low(u)
    BY <2>1
  <2>11. e + r = x - low /\ Store(u, x) = r + low
    BY <2>4, <2>6, <2>7, <2>9, <2>10
  <2>12. Store(u, x) = x + -e
    BY <2>11
  <2>5. Store(u, x) = x + k * m
    BY <2>9, <2>12
  <2> QED
    BY <2>5 DEF m
<1> QED
  BY <1>1, <1>2

LEMMA Residue ==
  ASSUME NEW m \in Nat \ {0}, NEW x \in Int, NEW y \in Int, NEW k \in Int,
         0 <= x, x < m, 0 <= y, y < m, x = y + k * m
  PROVE  x = y
<1>1. k >= 1 => k * m >= m
  OBVIOUS
<1>2. k <= -1 => k * m <= -m
  OBVIOUS
<1>3. k = 0
  BY <1>1, <1>2
<1> QED
  BY <1>3

LEMMA StoreUnsigned ==
  ASSUME NEW u \in Types, NEW x \in Int, NEW w \in Int, NEW k \in Int,
         0 <= w, w < 2 * Half(u), x = w + k * (2 * Half(u))
  PROVE  Store(Unsigned(u), x) = w
<1>1. PICK m \in Nat \ {0} : m = 2 * Half(u)
  BY Widths
<1>2. Unsigned(u) \in Types /\ Half(Unsigned(u)) = Half(u) /\ ~Unsigned(u).signed
  BY Variants, Widths
<1>3. PICK j \in Int : Store(Unsigned(u), x) = x + j * m
  BY <1>1, <1>2, StoreMultiple
<1>4. Store(Unsigned(u), x) \in Int /\ 0 <= Store(Unsigned(u), x) /\ Store(Unsigned(u), x) < m
  BY <1>1, <1>2, StoreInType, Ends, Widths
<1>5. Store(Unsigned(u), x) = w + (k + j) * m
  BY <1>1, <1>3
<1> QED
  BY <1>1, <1>4, <1>5, Residue

\* Quotient and remainder, from the equation.
LEMMA DivisionOf ==
  ASSUME NEW m \in Nat \ {0}, NEW z \in Int, NEW q \in Int, NEW r \in Int,
         0 <= r, r < m, z = q * m + r
  PROVE  z \div m = q /\ z % m = r
<1>1. PICK d \in Int, e \in Int : /\ d = z \div m /\ e = z % m /\ 0 <= e /\ e < m
                                  /\ z = d * m + e
  OBVIOUS
<1>2. PICK k \in Int : k = d - q
  BY <1>1
<1>4. r = e + k * m
  BY <1>1, <1>2
<1>3. r = e
  BY <1>1, <1>4, Residue
<1>5. d = q
  BY <1>1, <1>2, <1>3, <1>4
<1> QED
  BY <1>1, <1>3, <1>5

\* Where the bits of a rotated element go, for one element.
LEMMA RotateExact ==
  ASSUME NEW u \in Types, NEW x \in Values(u), NEW y \in Int,
         NEW v \in ocl_rotate(u, x, y)
  PROVE  LET bits == Store(Unsigned(u), x) * 2^(y % Bits(u))
         IN  v \in Values(u)
             /\ Store(Unsigned(u), v) = (bits % (2 * Half(u))) + (bits \div (2 * Half(u)))
<1> DEFINE w == Bits(u)
<1>1. w \in Nat \ {0} /\ 2^w = 2 * Half(u) /\ x \in Int
  BY WidthOf, Ends
<1>2. PICK l \in Nat : l = y % w /\ l < w
  <2>1. w \in Nat \ {0}
    BY <1>1
  <2> HIDE DEF w
  <2> QED
    BY <2>1
<1>3. PICK n \in Nat : n = w - l /\ l + n = w
  BY <1>1, <1>2
<1>4. PICK A \in Nat \ {0}, B \in Nat \ {0}, m \in Nat \ {0} :
         A = 2^l /\ B = 2^n /\ m = 2 * Half(u) /\ m = A * B
  <2>1. 2^(l + n) = 2^l * 2^n
    BY PowerOfSum
  <2>2. 2^l \in Nat \ {0} /\ 2^n \in Nat \ {0} /\ 2 * Half(u) \in Nat \ {0}
    BY PowerIsPositive, Widths
  <2> QED
    BY <1>1, <1>3, <2>1, <2>2
<1>5. PICK s \in ShiftRight(u, x, n) : v = Store(u, x * A + Store(u, s % A))
  BY <1>2, <1>3, <1>4 DEF ocl_rotate
<1> HIDE DEF w
<1>6. PICK X \in Int, k \in Int : /\ X = Store(Unsigned(u), x) /\ X = x + k * m
                                 /\ 0 <= X /\ X < m
  <2>1. Unsigned(u) \in Types /\ Half(Unsigned(u)) = Half(u) /\ ~Unsigned(u).signed
    BY Variants, Widths
  <2>2. PICK k \in Int : Store(Unsigned(u), x) = x + k * m
    BY <1>1, <1>4, <2>1, StoreMultiple
  <2>3. Store(Unsigned(u), x) \in Values(Unsigned(u))
    BY <1>1, <2>1, StoreInType
  <2>4. /\ Store(Unsigned(u), x) \in Int
        /\ 0 <= Store(Unsigned(u), x) /\ Store(Unsigned(u), x) < m
    BY <1>4, <2>1, <2>3, Ends, Widths
  <2> QED
    BY <2>2, <2>4
<1>7. PICK q \in Int, r \in Int : X = q * B + r /\ 0 <= r /\ r < B
  <2>1. X \in Nat
    BY <1>6
  <2>2. /\ X \div B \in Int /\ X % B \in Int
        /\ X = (X \div B) * B + (X % B)
        /\ 0 <= X % B /\ X % B < B
    BY <2>1, Division
  <2> QED
    BY <2>2
<1>8. 0 <= q /\ q < A
  <2>1. q <= -1 => q * B <= -B
    OBVIOUS
  <2>2. q >= A => q * B >= A * B
    OBVIOUS
  <2> QED
    BY <1>4, <1>6, <1>7, <2>1, <2>2
<1>9. s % A = q
  <2>1. CASE l = 0
    <3>1. A = 1
      BY <1>4, <2>1
    <3>2. s \in Int
      BY <1>1, <1>4, <1>5, OperandAssumption DEF ShiftRight
    <3> QED
      BY <1>8, <3>1, <3>2
  <2>2. CASE l # 0
    <3>1. n < Bits(Promote(u))
      BY <1>1, <1>3, <2>2, PromotedIsWider, Variants, WidthOf DEF w
    <3>2. s = x \div B
      BY <1>4, <1>5, <3>1 DEF ShiftRight
    <3>3. PICK j \in Int : j = q - k * A
      OBVIOUS
    <3>4. x = j * B + r
      <4>1. x = q * B + r - k * (A * B)
        BY <1>1, <1>4, <1>6, <1>7
      <4>2. j * B = q * B - (k * A) * B /\ (k * A) * B = k * (A * B)
        BY <3>3
      <4> QED
        BY <4>1, <4>2
    <3>5. s = j
      BY <1>1, <1>7, <3>2, <3>4, DivisionOf
    <3>6. PICK i \in Int : i = -k /\ j = i * A + q
      BY <3>3
    <3> QED
      BY <1>8, <3>5, <3>6, DivisionOf
  <2> QED
    BY <2>1, <2>2
<1>10. PICK z \in Int : z = r * A + q /\ 0 <= z /\ z < m
  <2>1. r * A <= (B - 1) * A
    BY <1>7
  <2>2. (B - 1) * A = m - A
    BY <1>4
  <2>3. r * A >= 0 /\ r * A \in Int
    BY <1>7
  <2> QED
    BY <1>8, <2>1, <2>2, <2>3
<1>11. X * A = q * m + r * A /\ 0 <= r * A /\ r * A < m
  <2>1. X * A = (q * B) * A + r * A
    BY <1>7
  <2>2. (q * B) * A = q * m
    BY <1>4
  <2>3. 0 <= r * A
    BY <1>7
  <2> QED
    BY <1>8, <1>10, <2>1, <2>2, <2>3
<1>12. (X * A) \div m = q /\ (X * A) % m = r * A
  <2>1. PICK c \in Int, d \in Int : c = X * A /\ d = r * A
    OBVIOUS
  <2> QED
    BY <1>11, <2>1, DivisionOf
<1>13. /\ v \in Values(u)
       /\ \E i \in Int : v = z + i * m
  <2>1. q \in Int
    OBVIOUS
  <2>2. PICK i1 \in Int : Store(u, q) = q + i1 * m
    BY <1>4, StoreMultiple
  <2>3. PICK g \in Int : g = x * A + Store(u, q)
    BY <1>1, <2>2
  <2>4. PICK i2 \in Int : v = g + i2 * m
    BY <1>4, <1>5, <1>9, <2>3, StoreMultiple
  <2>5. x * A = X * A - (k * A) * m
    <3>1. x = X - k * m
      BY <1>1, <1>6
    <3>2. x * A = X * A - (k * m) * A
      BY <3>1
    <3>3. (k * m) * A = (k * A) * m
      OBVIOUS
    <3> QED
      BY <3>2, <3>3
  <2>6. PICK i \in Int : i = q - k * A + i1 + i2
    OBVIOUS
  <2>7. i * m = q * m - (k * A) * m + i1 * m + i2 * m
    BY <2>6
  <2>10. PICK xa \in Int, XA \in Int, qm \in Int, ra \in Int, ka \in Int, c1 \in Int, c2 \in Int :
           /\ xa = x * A /\ XA = X * A /\ qm = q * m /\ ra = r * A
           /\ ka = (k * A) * m /\ c1 = i1 * m /\ c2 = i2 * m
    BY <1>1
  <2>11. /\ v = xa + (q + c1) + c2 /\ xa = XA - ka /\ XA = qm + ra /\ z = ra + q
         /\ i * m = qm - ka + c1 + c2
    BY <1>10, <1>11, <2>2, <2>3, <2>4, <2>5, <2>7, <2>10
  <2>12. PICK im \in Int : im = i * m
    OBVIOUS
  <2>8. v = z + i * m
    BY <2>11, <2>12
  <2>9. v \in Values(u)
    BY <1>5, <1>9, <2>3, StoreInType
  <2> QED
    BY <2>8, <2>9
<1>14. Store(Unsigned(u), v) = z
  BY <1>4, <1>10, <1>13, StoreUnsigned, Ends
<1> QED
  BY <1>2, <1>4, <1>6, <1>10, <1>12, <1>13, <1>14 DEF w

LEMMA RotationStep == IInv /\ RotationsAreExact /\ [Next]_vars => RotationsAreExact'
<1> SUFFICES ASSUME IInv, RotationsAreExact, [Next]_vars PROVE RotationsAreExact'
  OBVIOUS
<1>1. CASE CallBuiltin("rotate")
  <2> DEFINE S == [i \in Elems |-> Builtin("rotate", t, a[i], b[i])]
  <2>1. /\ t \in Types /\ a \in Vectors(t) /\ b \in Vectors(t)
    BY <1>1 DEF IInv, OperandsTyped, CallBuiltin
  <2>2. \A i \in Elems : a[i] \in Values(t) /\ b[i] \in Values(t) /\ b[i] \in Int
    BY <2>1, Ends DEF Vectors
  <2>3. DOMAIN S = Elems /\ \A i \in Elems : S[i] = ocl_rotate(t, a[i], b[i])
    BY DEF Builtin
  <2>4. CASE Traps(S)
    BY <2>1, <2>3, <2>4, RotateSome DEF Traps
  <2>5. CASE ~Traps(S)
    <3>1. /\ \E v \in Stored(ResultType("rotate", t), S) :
               Returns("rotate", "none", ResultType("rotate", t), v)
          /\ t' = t
      BY <1>1, <2>5 DEF CallBuiltin
    <3>2. ResultType("rotate", t) = t
      BY DEF ResultType
    <3>3. PICK v \in Stored(t, S) : Returns("rotate", "none", t, v)
      BY <3>1, <3>2
    <3>4. call'.left = a /\ call'.right = b /\ call'.value = v
      BY <3>3, ReturnsFields
    <3> HIDE DEF S
    <3>5. ASSUME NEW i \in Elems
          PROVE  LET bits == Store(Unsigned(t), a[i]) * 2^(b[i] % Bits(t))
                 IN  Store(Unsigned(t), v[i]) =
                       (bits % (2 * Half(t))) + (bits \div (2 * Half(t)))
      <4>1. PICK x \in S[i] : v[i] = Store(t, x)
        BY <2>3, <3>3 DEF Stored
      <4>2. x \in ocl_rotate(t, a[i], b[i])
        BY <2>3, <4>1
      <4>3. x \in Values(t)
        BY <2>1, <2>2, <4>2, RotateExact
      <4>4. v[i] = x
        BY <2>1, <4>1, <4>3, StoreKeeps
      <4> QED
        BY <2>1, <2>2, <4>2, <4>4, RotateExact
    <3> QED
      BY <3>1, <3>4, <3>5 DEF RotationsAreExact
  <2> QED
    BY <2>4, <2>5
<1>2. ASSUME NEW op \in Builtins \ {"rotate"}, CallBuiltin(op) PROVE call'.op # "rotate"
  <2> DEFINE S == [i \in Elems |-> Builtin(op, t, a[i], b[i])]
  <2>1. \/ Trap(op, "none", Everywhere)
        \/ \E v \in Stored(ResultType(op, t), S) : Returns(op, "none", ResultType(op, t), v)
    BY <1>2 DEF CallBuiltin
  <2>2. call'.op = op
    BY <2>1, ReturnsFields DEF Trap, NoCall
  <2> QED
    BY <2>2
<1>3. ASSUME \/ CallAbs
             \/ \E dst \in Types : Convert(dst)
             \/ \E op \in Relations : Compare(op)
             \/ Select
             \/ \E op \in {"any", "all"} : AnyAll(op)
      PROVE  call'.op \in {"abs", "convert_sat", "select", "any", "all"} \cup Relations
  BY <1>3, ReturnsFields DEF CallAbs, Convert, Compare, Select, AnyAll
<1>4. ASSUME NEW op \in AssignOps, Assign(op) PROVE call'.op # "rotate"
  <2>1. \/ Trap("assign", op, Everywhere) \/ Returns("assign", op, t, b)
    BY <1>4 DEF Assign
  <2>2. CASE Trap("assign", op, Everywhere)
    BY <2>2 DEF Trap, NoCall
  <2>3. CASE Returns("assign", op, t, b)
    <3>1. call'.op = "assign"
      BY <2>3, ReturnsFields
    <3> QED
      BY <3>1
  <2> QED
    BY <2>1, <2>2, <2>3
<1>9. ASSUME NEW op \in AssignOps, NEW elem \in ElementLists, SetElements(op, elem)
      PROVE  call'.op # "rotate"
  BY <1>9 DEF SetElements, Trap, NoCall
<1>5. CASE call'.op # "rotate"
  BY <1>5 DEF RotationsAreExact
<1>6. CASE UNCHANGED vars
  BY <1>6 DEF vars, RotationsAreExact
<1>7. "rotate" \notin {"abs", "convert_sat", "select", "any", "all"} \cup Relations
  BY DEF Relations
<1>8. "rotate" \in Builtins
  BY DEF Builtins
<1> QED
  BY <1>1, <1>2, <1>3, <1>4, <1>5, <1>6, <1>7, <1>8, <1>9 DEF Next

\* For every width of the types: the bits that leave a rotated element at the
\* top enter it at the bottom, for any number of positions (ocl_rotate of
\* vector_builtins_integer.h).
THEOREM RotationsExactly == Spec => []RotationsAreExact
<1>1. Init => RotationsAreExact
  BY DEF Init, NoCall, RotationsAreExact
<1> QED
  BY <1>1, InvariantHolds, RotationStep, PTL DEF Spec
=============================================================================
