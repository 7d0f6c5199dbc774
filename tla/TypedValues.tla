---------------------------- MODULE TypedValues ----------------------------
(***************************************************************************)
(* The typed values of quantum.finance: a state, a signature (type, unit,  *)
(* currency) and, when the state is VALID, a number.  Decimals are exact   *)
(* rationals <<numerator, denominator>> with a positive denominator: the   *)
(* decimal context the code opens (_decimal_context) leaves sums and       *)
(* products exact, and quotients are only rounded far below every scale.   *)
(* Integers and truth values are rationals too.  Reason codes and source   *)
(* ids are left out.                                                       *)
(***************************************************************************)
EXTENDS Integers, Sequences

CONSTANT Policy   \* rounding policy: its mode, its calculation and money scales

ASSUME PolicyAssumption ==
  /\ Policy.mode \in {"FLOOR", "CEILING", "DOWN", "UP", "HALF_UP", "HALF_EVEN"}
  /\ {Policy.calculation, Policy.money} \subseteq Nat \ {0}

States == {"VALID", "CONFLICT", "BLOCKED", "UNAVAILABLE", "EMPTY"}
Precedence == <<"CONFLICT", "BLOCKED", "UNAVAILABLE", "EMPTY">>

Numbers == Int \X (Nat \ {0})
Number(n) == <<n, 1>>
Plus(a, b) == <<a[1] * b[2] + b[1] * a[2], a[2] * b[2]>>
Minus(a, b) == Plus(a, <<-b[1], b[2]>>)
Times(a, b) == <<a[1] * b[1], a[2] * b[2]>>
Over(a, b) ==
  IF b[1] > 0 THEN <<a[1] * b[2], a[2] * b[1]>> ELSE <<-(a[1] * b[2]), -(a[2] * b[1])>>
Less(a, b) == a[1] * b[2] < b[1] * a[2]
SameNumber(a, b) == a[1] * b[2] = b[1] * a[2]

(* The sum of a sequence of numbers, added in order.                       *)
SumOf(values) ==
  LET sum[n \in 0..Len(values)] == IF n = 0 THEN Number(0) ELSE Plus(sum[n - 1], values[n])
  IN sum[Len(values)]

(* A truth value as a number.                                              *)
Truth(b) == Number(IF b THEN 1 ELSE 0)

(* Decimal.quantize: a whole number of 1/scale parts.  `scale' is a power  *)
(* of ten in the code.                                                     *)
Quantized(a, mode, scale) ==
  LET n     == a[1] * scale
      floor == n \div a[2]
      rest  == n % a[2]
      up    == CASE mode = "FLOOR"   -> FALSE
                 [] mode = "CEILING" -> rest > 0
                 [] mode = "DOWN"    -> rest > 0 /\ n < 0
                 [] mode = "UP"      -> rest > 0 /\ n > 0
                 [] mode = "HALF_UP" -> \/ 2 * rest > a[2]
                                        \/ 2 * rest = a[2] /\ n > 0
                 [] mode = "HALF_EVEN" -> \/ 2 * rest > a[2]
                                          \/ 2 * rest = a[2] /\ floor % 2 = 1
  IN <<IF up THEN floor + 1 ELSE floor, scale>>

Type(signature) == signature[1]
NoCurrency == "-"
Money(currency) == <<"MONEY", "MONEY", currency>>
PerItem(currency) == <<"MONEY", "MONEY_PER_ITEM", currency>>
Items == <<"INTEGER", "ITEM", NoCurrency>>
Rate == <<"RATE", "RATE", NoCurrency>>
Decimal == <<"DECIMAL", "DIMENSIONLESS", NoCurrency>>
Boolean == <<"BOOLEAN", "BOOLEAN", NoCurrency>>

(* _make_valid, _make_nonvalid: only a VALID value has a number.           *)
Valid(number, signature) == [state |-> "VALID", value |-> number, signature |-> signature]
Nonvalid(state, signature) == [state |-> state, value |-> << >>, signature |-> signature]
IsValid(x) == x.state = "VALID"

(* TypedValue.parse: a VALID value has a number, a whole one if INTEGER.   *)
Typed(x) ==
  /\ x.state \in States
  /\ IsValid(x) => /\ x.value \in Numbers
                   /\ Type(x.signature) = "INTEGER" => x.value[2] = 1

(* _propagate: the worst state among the values, if one is not VALID.      *)
WorstState(values) ==
  LET found == {i \in DOMAIN Precedence :
                  \E j \in DOMAIN values : values[j].state = Precedence[i]}
  IN IF found = {} THEN "VALID" ELSE Precedence[CHOOSE i \in found : \A k \in found : i <= k]

(* _normalize_value: a decimal input at the calculation scale.             *)
Normalized(x) ==
  IF IsValid(x) /\ Type(x.signature) \in {"MONEY", "DECIMAL", "RATE"}
  THEN Valid(Quantized(x.value, Policy.mode, Policy.calculation), x.signature)
  ELSE x
=============================================================================
