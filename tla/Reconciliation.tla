--------------------------- MODULE Reconciliation ---------------------------
(***************************************************************************)
(* quantum.reconciliation: the totals of a source file against the totals  *)
(* that were calculated from it, metric by metric, within the tolerances   *)
(* of a policy.  The caller passes the admission record by value.          *)
(*                                                                         *)
(* A decimal is a coefficient and an exponent.  The difference is rounded  *)
(* to as many digits as the longest of the three coefficients has, and     *)
(* GuardDigits more, but no more than MaxDigits (8 and 1000 in the code).  *)
(***************************************************************************)
EXTENDS Integers, FiniteSets, FiniteSetsExt

CONSTANTS
  Requests,          \* the calls callers may make
  GuardDigits, MaxDigits,
  FractionDigits     \* the most digits after the point, the unit of Scaled

VARIABLES request, reconciliation

reconciliationVars == <<request, reconciliation>>

ASSUME DigitsAssumption ==
  GuardDigits \in Nat /\ MaxDigits \in Nat /\ MaxDigits > GuardDigits /\ FractionDigits \in Nat

(* The decimals of the requests have no more digits after the point.       *)
Decimal(x) == /\ x.coefficient \in Int /\ x.exponent \in Int
              /\ x.exponent + FractionDigits >= 0
ASSUME DecimalsAssumption ==
  \A r \in Requests :
    /\ \A m \in DOMAIN r.policy.metrics : Decimal(r.policy.metrics[m].absolute)
    /\ \A s \in {r.source, r.calculated} : \A m \in DOMAIN s.totals : Decimal(s.totals[m].value)

Size(n) == IF n < 0 THEN -n ELSE n

PowerOfTen[n \in Nat] == IF n = 0 THEN 1 ELSE 10 * PowerOfTen[n - 1]
DigitsOf[n \in Nat] == IF n < 10 THEN 1 ELSE 1 + DigitsOf[n \div 10]
NumberOfDigits(n) == DigitsOf[Size(n)]

(* The integer a decimal is, counted in units of the last such digit.      *)
Scaled(x) == x.coefficient * PowerOfTen[x.exponent + FractionDigits]

(* A number to so many digits, half to even, as a decimal context does.    *)
ToPrecision(n, digits) ==
  LET unit == PowerOfTen[Max({0, NumberOfDigits(n) - digits})]
      down == n \div unit
      rest == 2 * (n % unit)
  IN unit * (IF rest > unit \/ (rest = unit /\ down % 2 = 1) THEN down + 1 ELSE down)

(* A slip: the precision is that of the longest operand.                   *)
LongestOperand(s, c, t) ==
  Max({NumberOfDigits(x.coefficient) : x \in {s, c, t}})

Precision(s, c, t) ==
  Min({MaxDigits, Max({NumberOfDigits(x.coefficient) : x \in {s, c, t}}) + GuardDigits})

TooLong(x) == NumberOfDigits(x.coefficient) > MaxDigits

(* The policy is hashed, not empty, and its tolerances are not negative.   *)
PolicyRaises(p) ==
  \/ ~p.sealed \/ p.rowTolerance < 0 \/ DOMAIN p.metrics = {}
  \/ \E m \in DOMAIN p.metrics : p.metrics[m].absolute.coefficient < 0 \/ TooLong(p.metrics[m].absolute)

MetricsDiffer(r) == \E s \in {r.source, r.calculated} : DOMAIN s.totals # DOMAIN r.policy.metrics

TotalRaises(r) ==
  \E s \in {r.source, r.calculated} : \E m \in DOMAIN r.policy.metrics :
    \/ s.totals[m].state # "VALID"
    \/ s.totals[m].signature # r.policy.metrics[m].signature
    \/ TooLong(s.totals[m].value)

(* Why a request is refused, in the order of the checks.                   *)
Refusal(r) ==
  CASE r.expired -> "RECONCILIATION_RETENTION_EXPIRED"
    [] ~r.expired /\ r.record.state # "ADMITTED" -> "RECONCILIATION_DATASET_NOT_ADMITTED"
    [] ~r.expired /\ r.record.state = "ADMITTED" /\ r.caller # r.record.owner ->
         "RECONCILIATION_DATASET_NOT_FOUND"
    [] OTHER ->
         CASE PolicyRaises(r.policy) -> "RECONCILIATION_POLICY_INVALID"
           [] ~PolicyRaises(r.policy) /\ MetricsDiffer(r) -> "RECONCILIATION_METRIC_SET_MISMATCH"
           [] OTHER ->
                IF \E s \in {r.source, r.calculated} : s.dataset # r.record.dataset
                THEN "RECONCILIATION_BINDING_MISMATCH"
                ELSE IF TotalRaises(r) THEN "RECONCILIATION_TOTAL_INVALID" ELSE "NONE"

RowsMatch(r) ==
  /\ Size(r.source.rows - r.calculated.rows) <= r.policy.rowTolerance
  /\ r.record.expectedRows \in {-1, r.source.rows}

MetricMatches(r, m) ==
  LET s == r.source.totals[m].value
      c == r.calculated.totals[m].value
      t == r.policy.metrics[m].absolute
  IN ToPrecision(Size(Scaled(s) - Scaled(c)), Precision(s, c, t)) <= Scaled(t)

(* reconcile_source_totals.                                                *)
Reconcile ==
  /\ reconciliation = "NONE"
  /\ reconciliation' =
       IF Refusal(request) # "NONE" THEN Refusal(request)
       ELSE IF RowsMatch(request)
                 /\ \A m \in DOMAIN request.policy.metrics : MetricMatches(request, m)
            THEN "RECONCILED" ELSE "CONFLICT"
  /\ UNCHANGED request

ReconciliationInit == request \in Requests /\ reconciliation = "NONE"
ReconciliationSpec == ReconciliationInit /\ [][Reconcile]_reconciliationVars
-----------------------------------------------------------------------------
(* Totals that differ by no more than the tolerance never conflict, and    *)
(* totals that are reconciled differ by no more than the tolerance and one *)
(* part in twice ten to the GuardDigits of their difference, however far   *)
(* apart the exponents of the numbers are.  If the difference needs no     *)
(* more digits than it is given, the answer is exact.                      *)
ReconciledWithinTolerance ==
  LET delta(m) == Size(Scaled(request.source.totals[m].value)
                         - Scaled(request.calculated.totals[m].value))
      tolerance(m) == Scaled(request.policy.metrics[m].absolute)
      within(m) == delta(m) <= tolerance(m)
      nearly(m) == 2 * (delta(m) - tolerance(m)) * PowerOfTen[GuardDigits] <= delta(m)
  IN /\ reconciliation = "RECONCILED" =>
          /\ RowsMatch(request)
          /\ \A m \in DOMAIN request.policy.metrics :
               /\ nearly(m)
               /\ delta(m) < PowerOfTen[GuardDigits + 1] => within(m)
     /\ reconciliation = "CONFLICT" =>
          ~RowsMatch(request) \/ \E m \in DOMAIN request.policy.metrics : ~within(m)
=============================================================================
