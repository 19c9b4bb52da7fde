----------------------------- MODULE DataTypes -----------------------------
(***************************************************************************)
(* DataType and its instances for CHARS, INTS, FLOATS, VECTORS and         *)
(* BOOLEANS (src/observer/common/type), the getters of Value, the          *)
(* comparators of common/lang and SumAggregator.                           *)
(*                                                                         *)
(* A value is [type, v, s].  A float is a number of ticks, One of them to 1   *)
(* and Epsilon of them to EPSILON, rounded to Mantissa bits as the         *)
(* hardware does; an int wraps at Width bits; a string is the sequence s   *)
(* of characters, of which the digits stand for themselves.                *)
(***************************************************************************)
EXTENDS Integers, Sequences, SequencesExt

CONSTANTS
  One, Epsilon,       \* 1 and EPSILON, in ticks
  Mantissa, Width,    \* bits of a float's mantissa and of an int
  Operands,           \* the values of the rows
  MaxOperands         \* bound on the rows of a group

VARIABLES
  seen,       \* history: the values accumulated, or compared
  sum,        \* SumAggregator::value_
  alive       \* no ASSERT has failed

yvars == <<seen, sum, alive>>

Undef == [type |-> "UNDEFINED", v |-> 0, s |-> <<>>]
NotImplemented == 2      \* stands for INT32_MAX, which compare returns then
Sign(n) == IF n < 0 THEN -1 ELSE IF n > 0 THEN 1 ELSE 0
Abs(n) == IF n < 0 THEN -n ELSE n

\* A float holds the nearest number of ticks that Mantissa bits can write, ties to even.
RoundF(t) ==
  LET RECURSIVE Step(_)
      Step(s) == IF Abs(t) < s * 2 ^ Mantissa THEN s ELSE Step(2 * s)
      s == Step(1)
      low == (Abs(t) \div s) * s
      up == 2 * (Abs(t) - low) > s \/ (2 * (Abs(t) - low) = s /\ (low \div s) % 2 = 1)
  IN Sign(t) * (IF up THEN low + s ELSE low)

\* An int keeps the low Width bits.
Wrap(n) == LET h == 2 ^ (Width - 1) IN ((n + h) % (2 * h)) - h

\* stol and stof read the digits a string begins with; without any they throw.
Digit(c) == c \in 0 .. 9
ReadsNumber(s) == s # <<>> /\ Digit(s[1])
LeadingNumber(s) ==
  FoldLeft(LAMBDA acc, c : IF acc.go /\ Digit(c) THEN [go |-> TRUE, n |-> 10 * acc.n + c] ELSE [acc EXCEPT !.go = FALSE],
           [go |-> TRUE, n |-> 0], s).n

-----------------------------------------------------------------------------
(* The getters of Value convert; what cannot be converted is 0 *)

get_int(x) ==
  CASE x.type = "CHARS" -> IF ReadsNumber(x.s) THEN Wrap(LeadingNumber(x.s)) ELSE 0
    [] x.type = "FLOATS" -> Sign(x.v) * (Abs(x.v) \div One)
    [] x.type \in {"INTS", "BOOLEANS"} -> x.v
    [] OTHER -> 0

get_float(x) ==
  CASE x.type = "CHARS" -> IF ReadsNumber(x.s) THEN RoundF(One * LeadingNumber(x.s)) ELSE 0
    [] x.type = "FLOATS" -> x.v
    [] x.type \in {"INTS", "BOOLEANS"} -> RoundF(One * x.v)
    [] OTHER -> 0

\* A string is true, also "0": in the end its pointer is compared with null.
get_boolean(x) ==
  CASE x.type = "CHARS" -> TRUE
    [] x.type = "FLOATS" -> Abs(x.v) >= Epsilon
    [] x.type \in {"INTS", "BOOLEANS"} -> x.v # 0
    [] OTHER -> FALSE

-----------------------------------------------------------------------------
(* Comparisons: -1, 0, 1 *)

compare_int(a, b) == Sign(a - b)

\* Mutation: EPSILON is forgotten on one side.
compare_float_Skewed(a, b) ==
  LET cmp == RoundF(a - b) IN IF cmp > Epsilon THEN 1 ELSE IF cmp < 0 THEN -1 ELSE 0

compare_float(a, b) ==
  LET cmp == RoundF(a - b) IN IF cmp > Epsilon THEN 1 ELSE IF cmp < -Epsilon THEN -1 ELSE 0

\* The characters both have, and then the longer one is greater.
compare_string(s, t) ==
  LET n == IF Len(s) < Len(t) THEN Len(s) ELSE Len(t)
      differ == {i \in 1 .. n : s[i] # t[i]}
      first == CHOOSE i \in differ : \A j \in differ : i <= j
  IN IF differ # {} THEN Sign(s[first] - t[first]) ELSE Sign(Len(s) - Len(t))

IntegerCompare(a, b) ==
  IF b.type = "INTS" THEN compare_int(a.v, b.v) ELSE compare_float(get_float(a), get_float(b))
FloatCompare(a, b) == compare_float(get_float(a), get_float(b))
CharCompare(a, b) == compare_string(a.s, b.s)

\* The pairs for which no ASSERT of a compare fails.
Numeric == {"INTS", "FLOATS"}
Comparable(a, b) ==
  CASE a.type = "CHARS" -> b.type = "CHARS" [] a.type \in Numeric -> b.type \in Numeric [] OTHER -> TRUE

\* Value::compare, by the type of the left one.
Compare(a, b) ==
  CASE a.type = "INTS" -> IntegerCompare(a, b)
    [] a.type = "FLOATS" -> FloatCompare(a, b)
    [] a.type = "CHARS" -> CharCompare(a, b)
    [] OTHER -> NotImplemented

-----------------------------------------------------------------------------
(* Arithmetic and casts, by the type of the result *)

Done(type, v) == [rc |-> "SUCCESS", v |-> [Undef EXCEPT !.type = type, !.v = v]]
Failed(rc) == [rc |-> rc, v |-> Undef]

IntegerArithmetic(op, a, b) ==
  CASE op = "add" -> Done("INTS", Wrap(get_int(a) + get_int(b)))
    [] op = "subtract" -> Done("INTS", Wrap(get_int(a) - get_int(b)))
    [] op = "multiply" -> Done("INTS", Wrap(get_int(a) * get_int(b)))
    [] op = "negative" -> Done("INTS", Wrap(-get_int(a)))
    [] OTHER -> Failed("UNSUPPORTED")

FloatArithmetic(op, a, b) ==
  CASE op = "add" -> Done("FLOATS", RoundF(get_float(a) + get_float(b)))
    [] op = "subtract" -> Done("FLOATS", RoundF(get_float(a) - get_float(b)))
    [] op = "negative" -> Done("FLOATS", -get_float(a))
    [] OTHER -> Failed("UNSUPPORTED")

\* Value::add, subtract and negative.
Arithmetic(op, type, a, b) ==
  CASE type = "INTS" -> IntegerArithmetic(op, a, b)
    [] type = "FLOATS" -> FloatArithmetic(op, a, b)
    [] type = "VECTORS" -> Failed("UNIMPLEMENTED")
    [] OTHER -> Failed("UNSUPPORTED")

cast_to(x, type) ==
  CASE x.type = "INTS" -> IF type = "FLOATS" THEN Done("FLOATS", RoundF(One * get_int(x)))
                          ELSE Failed("SCHEMA_FIELD_TYPE_MISMATCH")
    [] x.type = "CHARS" -> Failed("UNIMPLEMENTED")
    [] OTHER -> Failed("UNSUPPORTED")

-----------------------------------------------------------------------------
(* SumAggregator *)

YInit == seen = <<>> /\ sum = Undef /\ alive = TRUE

\* Mutation: the first value only gives the sum its type.
accumulate_DropsFirst(x) ==
  IF sum.type = "UNDEFINED" THEN [x EXCEPT !.v = 0]
  ELSE LET r == Arithmetic("add", sum.type, x, sum) IN IF r.rc = "SUCCESS" THEN r.v ELSE sum

\* What add returns is not looked at: a sum that cannot be formed keeps its first value.
accumulate(x) ==
  IF sum.type = "UNDEFINED" THEN x
  ELSE LET r == Arithmetic("add", sum.type, x, sum) IN IF r.rc = "SUCCESS" THEN r.v ELSE sum

Row(x) ==
  /\ alive /\ Len(seen) < MaxOperands /\ (seen # <<>> => sum.type # "UNDEFINED")
  /\ alive' = (sum.type \in {"UNDEFINED", x.type})
  /\ sum' = IF alive' THEN accumulate(x) ELSE sum
  /\ seen' = Append(seen, x)

\* Keys are only compared.
Key(x) ==
  /\ Len(seen) < MaxOperands /\ sum.type = "UNDEFINED"
  /\ seen' = Append(seen, x)
  /\ UNCHANGED <<sum, alive>>

YNext == \E x \in Operands : Row(x) \/ Key(x)

YSpec == YInit /\ [][YNext]_yvars

-----------------------------------------------------------------------------
\* A sum of ints is exact as long as every partial sum fits an int, a sum of floats as long
\* as no partial sum is rounded (SumAggregator::accumulate).
SumExact ==
  LET total(n) == FoldLeft(LAMBDA t, x : t + x.v, 0, SubSeq(seen, 1, n))
  IN alive /\ seen # <<>> /\ sum.type \in Numeric =>
       \/ sum.v = total(Len(seen))
       \/ \E n \in DOMAIN seen :
            IF sum.type = "INTS" THEN Wrap(total(n)) # total(n) ELSE RoundF(total(n)) # total(n)

\* Value::compare orders ints, floats and strings whatever their mixture: turning a
\* comparison around turns its result around, "less" is transitive although floats within
\* EPSILON are equal and ints lose digits when they meet floats, and a cast to FLOATS never
\* turns an order around.
OrderSound ==
  \A i, j, k \in DOMAIN seen :
    LET a == seen[i]  b == seen[j]  c == seen[k]
        f(x) == IF x.type = "INTS" THEN cast_to(x, "FLOATS").v ELSE x
        ok(x, y) == x.type # "UNDEFINED" /\ Comparable(x, y) /\ Compare(x, y) # NotImplemented
    IN /\ ok(a, b) => Compare(b, a) = -Compare(a, b)
       /\ ok(a, b) /\ ok(b, c) /\ Compare(a, b) = -1 /\ Compare(b, c) = -1 => Compare(a, c) = -1
       /\ ok(a, b) => Compare(f(a), f(b)) \in {0, Compare(a, b)}
=============================================================================
