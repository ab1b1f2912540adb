--------------------------- MODULE VectorRuntime ---------------------------
(***************************************************************************)
(* The integer part of the C run-time library of AstC2C, the headers under *)
(* lib/include/src that a program with OpenCL vectors is compiled with:    *)
(* the operators of vector_operators.h and vector_elements.h, the          *)
(* saturated conversions of vector_convert.h, the builtins of              *)
(* vector_builtins_integer.h and the selection of                          *)
(* vector_builtins_relational.h.  Every header defines one function by     *)
(* macro for each type and number of elements; here the type is a value.   *)
(*                                                                         *)
(* What makes them hard is C's arithmetic, which is modelled: an operand   *)
(* narrower than int is promoted, an unsigned result is reduced, a signed  *)
(* one that does not fit is undefined, and a division may trap.  So an     *)
(* operator for one element returns the SET of values it may have, which   *)
(* is empty if the processor traps.                                        *)
(***************************************************************************)
EXTENDS Integers, FiniteSets

CONSTANTS
  CharHalf, ShortHalf, IntHalf, LongHalf, \* 2^(w-1) for the w bits of a type
  NbElem,       \* number of elements of a vector
  Operands(_),  \* the vectors of a type that a program loads
  Garbage       \* what an undefined operation may leave, if it fits the type

Ranks == 1..4
IntRank == 3
Types == [rank : Ranks, signed : BOOLEAN]
IntType  == [rank |-> 3, signed |-> TRUE]
LongType == [rank |-> 4, signed |-> TRUE]
Elems == 1..NbElem

\* A sum of two elements narrower than int fits in an int, whose width is not
\* one bit; a short has more bits than a char, and a long at least those of int.
ASSUME WidthAssumption ==
  /\ CharHalf \in Nat \ {0} /\ ShortHalf \in Nat /\ IntHalf \in Nat /\ LongHalf \in Nat
  /\ 2 * CharHalf <= ShortHalf /\ 4 * ShortHalf <= IntHalf
  /\ LongHalf = IntHalf \/ LongHalf >= 2 * IntHalf
  /\ IntHalf % 2 = 0 /\ LongHalf % 2 = 0
\* Integers are binary.
ASSUME BinaryAssumption ==
  \A h \in {CharHalf, ShortHalf, IntHalf, LongHalf} : \E n \in 1..h : 2^(n - 1) = h
ASSUME ElemAssumption == NbElem \in Nat \ {0}

Half(t) == CASE t.rank = 1 -> CharHalf  [] t.rank = 2 -> ShortHalf
             [] t.rank = 3 -> IntHalf   [] t.rank = 4 -> LongHalf

Low(t)  == IF t.signed THEN -Half(t) ELSE 0
High(t) == IF t.signed THEN Half(t) - 1 ELSE 2 * Half(t) - 1
Values(t) == Low(t)..High(t)
Vectors(t) == [Elems -> Values(t)]
Signed(t)   == [rank |-> t.rank, signed |-> TRUE]
Unsigned(t) == [rank |-> t.rank, signed |-> FALSE]

ASSUME OperandAssumption ==
  /\ \A t \in Types : Operands(t) \subseteq Vectors(t)
  /\ Garbage \subseteq Int

VARIABLES
  t,       \* the type of the elements of the operands
  a, b,    \* the two vector variables of the program
  call,    \* the last function called: its operands and its value
  trapped  \* a division raised an exception of the processor

vars == <<t, a, b, call, trapped>>

-----------------------------------------------------------------------------
(***************************************************************************)
(* The arithmetic of C.                                                    *)
(***************************************************************************)

\* An integer stored in an object of type u: a value that does not fit is
\* reduced modulo 2^w.
Store(u, x) ==
  IF x \in Values(u) THEN x
  ELSE ((x - Low(u)) % (2 * Half(u))) + Low(u)

\* The integer promotions.
Promote(u) ==
  IF u.rank < IntRank THEN IntType ELSE u

\* The value of one sum, difference or negation x of operands of type u.
Arith(u, x) ==
  LET p == Promote(u)
  IN  IF x \in Values(p) THEN {x}
      ELSE {Store(p, x)} \cup (IF p.signed THEN Garbage \cap Values(p) ELSE {})

\* The usual arithmetic conversions of operands of two types.
Common(u, v) ==
  LET p == Promote(u)
      q == Promote(v)
      s == IF p.signed THEN p ELSE q
      n == IF p.signed THEN q ELSE p
  IN  IF p.signed = q.signed THEN (IF p.rank < q.rank THEN q ELSE p)
      ELSE IF n.rank >= s.rank THEN n
      ELSE IF Half(s) >= 2 * Half(n) THEN s
      ELSE Unsigned(s)

\* x > y, for x of type u and y of type v.
Greater(u, x, v, y) ==
  Store(Common(u, v), x) > Store(Common(u, v), y)

Abs(x) == IF x < 0 THEN -x ELSE x

\* x / y and x % y; no value when the instruction traps.
Divides(u, x, y) ==
  /\ y # 0
  /\ ~(y = -1 /\ Promote(u).signed /\ x = Low(Promote(u)))

Quotient(x, y) ==
  LET q == Abs(x) \div Abs(y) IN IF (x < 0) = (y < 0) THEN q ELSE -q

Divide(u, x, y)    == IF Divides(u, x, y) THEN {Quotient(x, y)} ELSE {}
Remainder(u, x, y) == { x - q * y : q \in Divide(u, x, y) }

-----------------------------------------------------------------------------
(***************************************************************************)
(* The functions, for one element.                                         *)
(***************************************************************************)

ocl_abs(u, x) ==
  IF ~u.signed \/ x > 0 THEN {x}
  ELSE { Store(Unsigned(u), v) : v \in Arith(u, -x) }

Difference(u, x, y) == IF x < y THEN Arith(u, y - x) ELSE Arith(u, x - y)

ocl_abs_diff(u, x, y) ==
  LET n == Unsigned(u)
      \* (utype)(-(neg+1)) + (utype)pos + 1
      Apart(neg, pos) ==
        UNION { UNION { Arith(n, w + 1) : w \in Arith(n, Store(n, v) + Store(n, pos)) }
                : v \in UNION { Arith(u, -m) : m \in Arith(u, neg + 1) } }
  IN  { Store(n, v) : v \in
          IF x < 0 /\ y >= 0 THEN Apart(x, y)
          ELSE IF x >= 0 /\ y < 0 THEN Apart(y, x)
          ELSE Difference(u, x, y) }

ocl_add_sat(u, x, y) ==
  IF x < 0 /\ y < 0
  THEN UNION { IF y <= d THEN {Low(u)} ELSE Arith(u, x + y) : d \in Arith(u, Low(u) - x) }
  ELSE IF x >= 0 /\ y >= 0
  THEN UNION { IF y >= d THEN {High(u)} ELSE Arith(u, x + y) : d \in Arith(u, High(u) - x) }
  ELSE Arith(u, x + y)

ocl_sub_sat(u, x, y) ==
  IF ~u.signed THEN IF y >= x THEN {0} ELSE Arith(u, x - y)
  ELSE IF x < 0 /\ y >= 0
  THEN UNION { IF y >= d THEN {Low(u)} ELSE Arith(u, x - y) : d \in Arith(u, x - Low(u)) }
  ELSE IF x >= 0 /\ y < 0
  THEN UNION { IF y <= d THEN {High(u)} ELSE Arith(u, x - y) : d \in Arith(u, x - High(u)) }
  ELSE Arith(u, x - y)

\* (x>>1) + (y>>1) + carry
HalvesPlus(u, x, y, carry) ==
  UNION { Arith(u, s + carry) : s \in Arith(u, (x \div 2) + (y \div 2)) }

ocl_hadd(u, x, y) ==
  HalvesPlus(u, x, y, IF x % 2 = 1 /\ y % 2 = 1 THEN 1 ELSE 0)

ocl_rhadd(u, x, y) ==
  HalvesPlus(u, x, y, IF x % 2 = 1 \/ y % 2 = 1 THEN 1 ELSE 0)

\* Mutation of Saturation: a conversion to the same rank needs no limit.
SaturationOfNarrower(dst, src) ==
  CASE dst.rank >= src.rank -> IF ~dst.signed /\ src.signed THEN "SATZERO" ELSE "SATNOSAT"
    [] dst.rank < src.rank  -> IF ~src.signed THEN "SATMAX"
                               ELSE IF dst.signed THEN "SATMINMAX" ELSE "SATZEROMAX"

\* The macro of vector_convert.h that a pair of types is instantiated with.
Saturation(dst, src) ==
  CASE ~dst.signed /\ ~src.signed -> IF dst.rank < src.rank THEN "SATMAX" ELSE "SATNOSAT"
    [] ~dst.signed /\ src.signed  -> IF dst.rank < src.rank THEN "SATZEROMAX" ELSE "SATZERO"
    [] dst.signed /\ ~src.signed  -> IF dst.rank <= src.rank THEN "SATMAX" ELSE "SATNOSAT"
    [] dst.signed /\ src.signed   -> IF dst.rank < src.rank THEN "SATMINMAX" ELSE "SATNOSAT"

ocl_convert_sat(dst, src, x) ==
  LET kind == Saturation(dst, src)
  IN  IF kind \in {"SATMAX", "SATZEROMAX", "SATMINMAX"} /\ Greater(src, x, dst, High(dst))
      THEN High(dst)
      ELSE IF kind \in {"SATZERO", "SATZEROMAX"} /\ x < 0 THEN 0
      ELSE IF kind = "SATMINMAX" /\ Greater(dst, Low(dst), src, x) THEN Low(dst)
      ELSE Store(dst, x)

\* The number of bits of a type.  (The headers write 64 for a long, which is its
\* width in all programs but those in C for a target with a narrower one.)
Bits(u) == CHOOSE n \in 1..Half(u) : 2^(n - 1) = Half(u)

\* x >> n: undefined when n is the width of the promoted type.
ShiftRight(u, x, n) ==
  LET p == Promote(u)
  IN  IF n < Bits(p) THEN {x \div 2^n} ELSE {x} \cup (Garbage \cap Values(p))

\* Mutation of ocl_rotate: the bits that leave are those of a shift by one less.
RotateShort(u, x, y) ==
  LET lshift == y % Bits(u)
      Overflow == { v % 2^lshift : v \in ShiftRight(u, x, Bits(u) - lshift - 1) }
  IN  { Store(u, x * 2^lshift + Store(u, v)) : v \in Overflow }

\* The shift to the left keeps the low bits, as GCC defines it for signed types,
\* and the mask (1 << lshift) - 1 is taken as it is meant.
ocl_rotate(u, x, y) ==
  LET lshift == y % Bits(u)
      Overflow == { v % 2^lshift : v \in ShiftRight(u, x, Bits(u) - lshift) }
  IN  { Store(u, x * 2^lshift + Store(u, v)) : v \in Overflow }

\* Mutation of NonZero: the divisor is taken as it is.
Divisor(y) == y

\* Division, by 1 where the divisor is 0 and without the division where it is -1.
NonZero(y) == IF y = 0 THEN 1 ELSE y

DIV(u, x, y) == IF u.signed /\ y = -1 THEN Arith(u, -x) ELSE Divide(u, x, NonZero(y))
MOD(u, x, y) == IF u.signed /\ y = -1 THEN {0} ELSE Remainder(u, x, NonZero(y))

\* The relational operators, what they leave in an element of the result and
\* how the functions that take such a vector read it.
Relations == {"EQUAL", "NOT_EQUAL", "LT", "LTE", "GT", "GTE"}
Relational(op, x, y) ==
  CASE op = "EQUAL" -> x = y  [] op = "NOT_EQUAL" -> x # y
    [] op = "LT"    -> x < y  [] op = "LTE"       -> x <= y
    [] op = "GT"    -> x > y  [] op = "GTE"       -> x >= y
\* Mutation of Mask: true is 1, as for a scalar.
ScalarTruth(holds) == IF holds THEN 1 ELSE 0
Mask(holds) == IF holds THEN -1 ELSE 0
TopBit(u, c) == (c \div Half(u)) % 2

\* The value an element takes in an assignment: to the full vector, and to
\* chosen elements.
AssignOps == {"ASSIGN", "PLUS_ASSIGN", "MINUS_ASSIGN", "DIV_ASSIGN", "MOD_ASSIGN"}
Assigned(op, u, x, y) ==
  CASE op = "ASSIGN"       -> {y}
    [] op = "PLUS_ASSIGN"  -> Arith(u, x + y)
    [] op = "MINUS_ASSIGN" -> Arith(u, x - y)
    [] op = "DIV_ASSIGN"   -> DIV(u, x, y)
    [] op = "MOD_ASSIGN"   -> MOD(u, x, y)
ElementAssigned(op, u, x, y) ==
  CASE op = "DIV_ASSIGN" -> Divide(u, x, y)
    [] op = "MOD_ASSIGN" -> Remainder(u, x, y)
    [] OTHER             -> Assigned(op, u, x, y)

-----------------------------------------------------------------------------
(***************************************************************************)
(* The functions on vectors: the loop over the elements.                   *)
(***************************************************************************)

\* The vectors of type u with a value of S[i] at each i, as they are stored.
Stored(u, S) ==
  { v \in [DOMAIN S -> { Store(u, x) : x \in UNION { S[i] : i \in DOMAIN S } }] :
      \A i \in DOMAIN S : \E x \in S[i] : v[i] = Store(u, x) }

Traps(S) == \E i \in DOMAIN S : S[i] = {}

Everywhere == [i \in Elems |-> i]

NoCall == [op |-> "none", of |-> "none", elem |-> Everywhere,
           type |-> t, left |-> a, right |-> b, value |-> a]

Returns(op, of, u, v) ==
  call' = [NoCall EXCEPT !.op = op, !.of = of, !.type = u, !.value = v]

\* The processor stops the program in the middle of the function.
Trap(op, of, elem) ==
  /\ trapped' = TRUE
  /\ call' = [NoCall EXCEPT !.op = op, !.of = of, !.elem = elem]
  /\ UNCHANGED <<t, a, b>>

Ready == call.op = "none"

Builtins == {"abs_diff", "add_sat", "sub_sat", "hadd", "rhadd", "rotate", "DIV", "MOD"}
Builtin(op, u, x, y) ==
  CASE op = "abs_diff" -> ocl_abs_diff(u, x, y)
    [] op = "add_sat"  -> ocl_add_sat(u, x, y)
    [] op = "sub_sat"  -> ocl_sub_sat(u, x, y)
    [] op = "hadd"     -> ocl_hadd(u, x, y)
    [] op = "rhadd"    -> ocl_rhadd(u, x, y)
    [] op = "rotate"   -> ocl_rotate(u, x, y)
    [] op = "DIV"      -> DIV(u, x, y)
    [] op = "MOD"      -> MOD(u, x, y)
ResultType(op, u) == IF op = "abs_diff" THEN Unsigned(u) ELSE u

\* A builtin or an operator with two operands.
CallBuiltin(op) ==
  LET S == [i \in Elems |-> Builtin(op, t, a[i], b[i])]
  IN  /\ Ready
      /\ IF Traps(S) THEN Trap(op, "none", Everywhere)
         ELSE /\ \E v \in Stored(ResultType(op, t), S) :
                   Returns(op, "none", ResultType(op, t), v)
              /\ UNCHANGED <<t, a, b, trapped>>

CallAbs ==
  /\ Ready
  /\ \E v \in Stored(Unsigned(t), [i \in Elems |-> ocl_abs(t, a[i])]) :
       Returns("abs", "none", Unsigned(t), v)
  /\ UNCHANGED <<t, a, b, trapped>>

Convert(dst) ==
  /\ Ready
  /\ dst # t
  /\ Returns("convert_sat", "none", dst, [i \in Elems |-> ocl_convert_sat(dst, t, a[i])])
  /\ UNCHANGED <<t, a, b, trapped>>

Compare(op) ==
  /\ Ready
  /\ Returns(op, "none", Signed(t), [i \in Elems |-> Mask(Relational(op, a[i], b[i]))])
  /\ UNCHANGED <<t, a, b, trapped>>

\* The value of a comparison is the condition of a selection.
Select ==
  /\ call.op \in Relations
  /\ Returns("select", call.op, t,
             [i \in Elems |-> IF TopBit(call.type, call.value[i]) = 1 THEN b[i] ELSE a[i]])
  /\ UNCHANGED <<t, a, b, trapped>>

AnyAll(op) ==
  /\ call.op \in Relations
  /\ LET bits == { TopBit(call.type, call.value[i]) : i \in Elems }
         res  == IF op = "any" THEN 1 \in bits ELSE 0 \notin bits
     IN  Returns(op, call.op, IntType, [i \in {1} |-> IF res THEN 1 ELSE 0])
  /\ UNCHANGED <<t, a, b, trapped>>

\* A function of the form op-assign returns its second argument.
Assign(op) ==
  LET S == [i \in Elems |-> Assigned(op, t, a[i], b[i])]
  IN  /\ Ready
      /\ IF Traps(S) THEN Trap("assign", op, Everywhere)
         ELSE /\ a' \in Stored(t, S)
              /\ Returns("assign", op, t, b)
              /\ UNCHANGED <<t, b, trapped>>

\* elem lists the elements of a that the elements of b, from the first one,
\* are assigned to.
ElementLists == UNION { { e \in [1..n -> Elems] : \A i, j \in 1..n : e[i] = e[j] => i = j } :
                          n \in Elems }
\* Mutation of SetElements: the elements of b are taken at the places they are assigned to.
SetElementsInPlace(op, elem) ==
  LET S == [i \in DOMAIN elem |-> ElementAssigned(op, t, a[elem[i]], b[elem[i]])]
  IN  /\ Ready
      /\ IF Traps(S) THEN Trap("set", op, elem)
         ELSE /\ \E v \in Stored(t, S) :
                   a' = [k \in Elems |-> IF \E i \in DOMAIN elem : elem[i] = k
                                         THEN v[CHOOSE i \in DOMAIN elem : elem[i] = k]
                                         ELSE a[k]]
              /\ call' = [NoCall EXCEPT !.op = "set", !.of = op, !.elem = elem,
                                        !.value = [i \in DOMAIN elem |-> b[i]]]
              /\ UNCHANGED <<t, b, trapped>>
SetElements(op, elem) ==
  LET S == [i \in DOMAIN elem |-> ElementAssigned(op, t, a[elem[i]], b[i])]
  IN  /\ Ready
      /\ IF Traps(S) THEN Trap("set", op, elem)
         ELSE /\ \E v \in Stored(t, S) :
                   a' = [k \in Elems |-> IF \E i \in DOMAIN elem : elem[i] = k
                                         THEN v[CHOOSE i \in DOMAIN elem : elem[i] = k]
                                         ELSE a[k]]
              /\ call' = [NoCall EXCEPT !.op = "set", !.of = op, !.elem = elem,
                                        !.value = [i \in DOMAIN elem |-> b[i]]]
              /\ UNCHANGED <<t, b, trapped>>

Init ==
  /\ t \in Types
  /\ a \in Operands(t)
  /\ b \in Operands(t)
  /\ call = NoCall
  /\ trapped = FALSE

Next ==
  \/ \E op \in Builtins : CallBuiltin(op)
  \/ CallAbs
  \/ \E dst \in Types : Convert(dst)
  \/ \E op \in Relations : Compare(op)
  \/ Select
  \/ \E op \in {"any", "all"} : AnyAll(op)
  \/ \E op \in AssignOps : Assign(op)
  \/ \E op \in AssignOps, elem \in ElementLists : SetElements(op, elem)

Spec == Init /\ [][Next]_vars

-----------------------------------------------------------------------------
(***************************************************************************)
(* Properties.                                                             *)
(***************************************************************************)

\* The value of a type nearest to an integer.
Nearest(u, x) == IF x < Low(u) THEN Low(u) ELSE IF x > High(u) THEN High(u) ELSE x

\* A saturated sum, difference or conversion is the value of its type nearest
\* to the exact one: no comparison with a limit overflows or is made, between
\* a signed and an unsigned operand, in a type that cannot hold both.  The
\* conversion of an uint to a long compares nothing, which is wrong where the
\* C compiler's long is no wider than its int.
SaturationIsExact ==
  \A i \in Elems :
    /\ call.op = "add_sat" => call.value[i] = Nearest(t, call.left[i] + call.right[i])
    /\ call.op = "sub_sat" => call.value[i] = Nearest(t, call.left[i] - call.right[i])
    /\ call.op = "convert_sat" =>
         \/ call.value[i] = Nearest(call.type, call.left[i])
         \/ LongHalf < 2 * IntHalf /\ call.type = LongType /\ t = Unsigned(IntType)

\* hadd and rhadd are half of the sum, rounded down and up, also where the
\* sum does not fit the type.
AveragesAreExact ==
  \A i \in Elems :
    /\ call.op = "hadd"  => call.left[i] + call.right[i] - 2 * call.value[i] \in {0, 1}
    /\ call.op = "rhadd" => 2 * call.value[i] - call.left[i] - call.right[i] \in {0, 1}

\* The negation of the lowest value of a type as wide as an int is undefined.
Negatable(u, x) == x # Low(u) \/ ~u.signed \/ u.rank < IntRank

\* abs_diff and abs are the exact distances, which only the unsigned type may
\* hold; but abs relies on an undefined negation for the lowest int or long.
DistancesAreExact ==
  \A i \in Elems :
    /\ call.op = "abs_diff" => call.value[i] = Abs(call.left[i] - call.right[i])
    /\ call.op = "abs" /\ Negatable(t, call.left[i]) => call.value[i] = Abs(call.left[i])

\* None of these functions loses what an operation in between could not hold.
ArithmeticIsExact == SaturationIsExact /\ AveragesAreExact /\ DistancesAreExact

TakesSign(r, x) == r = 0 \/ (r < 0 <=> x < 0)
IsQuotient(q, x, y)  == Abs(x - q * y) < Abs(y) /\ TakesSign(x - q * y, x)
IsRemainder(r, x, y) == Abs(r) < Abs(y) /\ TakesSign(r, x) /\ (x - r) % Abs(y) = 0

\* A division of vectors raises no exception: by zero it leaves the dividend,
\* otherwise it is C's, unless the quotient does not fit the type.  The
\* assignment of a quotient or remainder to chosen elements has no such care,
\* and it alone traps.
DivisionsAreExact ==
  LET result == IF call.op = "assign" THEN a ELSE call.value
      Called(op, of) == call.op = op \/ (call.op = "assign" /\ call.of = of)
  IN  /\ trapped => /\ call.op = "set" /\ call.of \in {"DIV_ASSIGN", "MOD_ASSIGN"}
                    /\ \E i \in DOMAIN call.elem :
                         \/ call.right[i] = 0
                         \/ call.right[i] = -1 /\ ~Negatable(t, call.left[call.elem[i]])
      /\ \A i \in Elems :
           LET x == call.left[i]
               y == call.right[i]
           IN  /\ Called("DIV", "DIV_ASSIGN") =>
                    CASE y = 0 -> result[i] = x
                      [] y = -1 /\ x = Low(t) /\ t.signed -> TRUE
                      [] OTHER -> IsQuotient(result[i], x, y)
               /\ Called("MOD", "MOD_ASSIGN") =>
                    IF y = 0 THEN result[i] = 0 ELSE IsRemainder(result[i], x, y)

\* Bits that leave a rotated element at the top enter it at the bottom, for
\* any number of positions: none, negative, or more than the width.
RotationsAreExact ==
  call.op = "rotate" => \A i \in Elems :
    LET bits == Store(Unsigned(t), call.left[i]) * 2^(call.right[i] % Bits(t))
    IN  Store(Unsigned(t), call.value[i]) =
          (bits % (2 * Half(t))) + (bits \div (2 * Half(t)))

\* What a comparison of vectors leaves in its result is what a selection, any
\* and all take for true and false in it, for every type.
MasksSelect ==
  LET Holds(i) == Relational(call.of, call.left[i], call.right[i])
  IN  /\ call.op = "select" => \A i \in Elems :
           call.value[i] = IF Holds(i) THEN call.right[i] ELSE call.left[i]
      /\ call.op = "any" => call.value[1] = IF \E i \in Elems : Holds(i) THEN 1 ELSE 0
      /\ call.op = "all" => call.value[1] = IF \A i \in Elems : Holds(i) THEN 1 ELSE 0

\* An assignment to chosen elements leaves in them what an assignment of the
\* full vector would, in the order they are listed, and keeps the others; a
\* plain assignment has the value of the elements.
ElementsMatchWhole ==
  call.op = "set" /\ ~trapped =>
    LET e == call.elem
    IN  /\ \A i \in DOMAIN e : \E x \in Assigned(call.of, t, call.left[e[i]], call.right[i]) :
             a[e[i]] = Store(t, x)
        /\ \A k \in Elems : (\A i \in DOMAIN e : e[i] # k) => a[k] = call.left[k]
        /\ call.of = "ASSIGN" => \A i \in DOMAIN e : call.value[i] = a[e[i]]
=============================================================================
