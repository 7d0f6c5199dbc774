-------------------------- MODULE FinancialKernel --------------------------
(***************************************************************************)
(* quantum.finance.calculate: from a request (inputs, cost and tax rules,  *)
(* expense components) to net units, product cost, income, tax and profit, *)
(* every one of them a typed value.  A client changes a request and asks   *)
(* again.  quantum.finance.oracle is the reference the code is tested by.  *)
(* The metric profitability_of_costs, BLOCKED in every result, is left out.*)
(***************************************************************************)
EXTENDS TypedValues, FiniteSets, SequencesExt

CONSTANTS
  BaseRequest,     \* the request a client starts from
  Edits,           \* changes it may make
  EditLimit        \* bound on the changes of a behaviour

(* A request as it was parsed: its inputs, cost, rate and components are   *)
(* typed values.                                                           *)
Components(s) == s \in Seq(ToSet(s)) /\ \A i \in DOMAIN s : Typed(s[i].value)
TypedRequest(q) ==
  /\ DOMAIN q = {"mode", "scenario", "profile", "currency", "inputs", "cost", "expenses",
                  "rate", "base"}
  /\ \A n \in DOMAIN q.inputs : Typed(q.inputs[n])
  /\ Typed(q.cost) /\ Typed(q.rate)
  /\ Components(q.expenses)

ASSUME RequestAssumption == TypedRequest(BaseRequest)
ASSUME EditsAssumption ==
  \A e \in Edits :
     /\ e.part = "inputs" /\ e.value # << >> => Typed(e.value[1])
     /\ e.part \in {"cost", "rate"} => Typed(e.value)
     /\ e.part = "expenses" => Components(e.value)

VARIABLES
  request,
  calculated,      \* the results for the request, or Pending or Refused
  edits            \* changes made so far

kernelVars == <<request, calculated, edits>>

Pending == [outcome |-> "pending"]
Refused == [outcome |-> "refused"]

UnitInputs ==
  {"gross_sales_units", "returned_units", "resalable_returned_units", "compensated_returned_units"}
Compensation == "return_compensation_amount"

(* The amounts of the income and their signs; the code adds them in order. *)
IncomeTerms ==
  << <<1, "gross_sales_amount">>, <<-1, "discounts_amount">>,
     <<1, "subsidies_excluding_return_compensation_amount">>, <<1, Compensation>>,
     <<-1, "marketplace_commission_amount">>, <<-1, "forward_logistics_amount">>,
     <<-1, "reverse_logistics_amount">>, <<-1, "storage_amount">>,
     <<-1, "advertising_amount">>, <<-1, "fines_withholdings_amount">> >>

AmountInputs == {IncomeTerms[i][2] : i \in DOMAIN IncomeTerms}
InputNames == UnitInputs \cup AmountInputs

(* _expect: a missing input or one of another signature is BLOCKED.        *)
Expect(inputs, name, signature) ==
  IF name \in DOMAIN inputs /\ inputs[name].signature = signature
  THEN inputs[name]
  ELSE Nonvalid("BLOCKED", signature)

Units(inputs, name) == Expect(inputs, name, Items)
Amount(inputs, name, q) == Expect(inputs, name, Money(q.currency))

(* _money_sum.                                                             *)
MoneySum(terms, q) ==
  LET worst == WorstState([i \in DOMAIN terms |-> terms[i][2]])
      total == SumOf([i \in DOMAIN terms |-> Times(Number(terms[i][1]), terms[i][2].value)])
  IN IF worst # "VALID" THEN Nonvalid(worst, Money(q.currency))
                        ELSE Valid(total, Money(q.currency))

(* A slip: the amounts are looked at only after they have been rounded.    *)
CompensationAsGiven(inputs, q) == inputs

(* _prevalidate_return_compensation, on the amounts as they were parsed.   *)
CompensationPrevalidated(inputs, q) ==
  LET name == Compensation
      units == "compensated_returned_units"
      counted == /\ units \in DOMAIN inputs
                 /\ IsValid(inputs[units])
                 /\ inputs[units].signature = Items
      amount == inputs[name].value[1]
      count == inputs[units].value[1]
  IN IF /\ name \in DOMAIN inputs
        /\ IsValid(inputs[name])
        /\ inputs[name].signature = Money(q.currency)
        /\ \/ amount < 0
           \/ counted /\ count = 0 /\ amount # 0
           \/ counted /\ count > 0 /\ amount <= 0
     THEN [inputs EXCEPT ![name] = Nonvalid("BLOCKED", Money(q.currency))]
     ELSE inputs

(* net_sold_units.                                                         *)
NetUnits(inputs) ==
  LET x == <<Units(inputs, "gross_sales_units"), Units(inputs, "returned_units")>>
      gross == x[1].value[1]
      returned == x[2].value[1]
  IN IF WorstState(x) # "VALID" THEN Nonvalid(WorstState(x), Items)
     ELSE IF gross < 0 \/ returned < 0 \/ returned > gross THEN Nonvalid("BLOCKED", Items)
     ELSE Valid(Number(gross - returned), Items)

(* The units whose cost is recognized: those sold and not back in stock.   *)
CostUnits(inputs) ==
  LET x == <<Units(inputs, "gross_sales_units"), Units(inputs, "returned_units"),
             Units(inputs, "resalable_returned_units"),
             Units(inputs, "compensated_returned_units")>>
      n == [i \in 1..4 |-> x[i].value[1]]
  IN IF WorstState(x) # "VALID" THEN Nonvalid(WorstState(x), Items)
     ELSE IF (\E i \in 1..4 : n[i] < 0) \/ n[2] > n[1] \/ n[3] + n[4] > n[2]
     THEN Nonvalid("BLOCKED", Items)
     ELSE Valid(Number(n[1] - n[3]), Items)

(* product_cost_amount: the state of the units first, then the signature   *)
(* of the cost rule's value, then its state.                               *)
ProductCost(inputs, q) ==
  LET units == CostUnits(inputs)
      cost == Normalized(q.cost)
  IN IF ~IsValid(units) THEN Nonvalid(units.state, Money(q.currency))
     ELSE IF cost.signature # PerItem(q.currency) THEN Nonvalid("BLOCKED", Money(q.currency))
     ELSE IF ~IsValid(cost) THEN Nonvalid(cost.state, Money(q.currency))
     ELSE Valid(Times(units.value, cost.value), Money(q.currency))

(* calculate_other_expense.  The components are taken in order: the first  *)
(* one that repeats an id raises, the first of another signature blocks.   *)
Repeats(q, i) == \E j \in 1..(i - 1) : q.expenses[j].id = q.expenses[i].id
Misfits(q, i) == q.expenses[i].value.signature \notin {Money(q.currency), PerItem(q.currency)}
ExpensesRaise(q) ==
  \E i \in DOMAIN q.expenses : Repeats(q, i) /\ \A j \in 1..(i - 1) : ~Misfits(q, j)

OtherExpense(inputs, q) ==
  LET net == NetUnits(inputs)
      amount(x) ==
        IF x.signature = Money(q.currency) THEN x
        ELSE LET worst == WorstState(<<net, x>>)
             IN IF worst # "VALID" THEN Nonvalid(worst, Money(q.currency))
                ELSE Valid(Times(net.value, x.value), Money(q.currency))
  IN IF q.expenses = << >> \/ \E i \in DOMAIN q.expenses : Misfits(q, i)
     THEN Nonvalid("BLOCKED", Money(q.currency))
     ELSE MoneySum([i \in DOMAIN q.expenses |->
                      <<1, amount(Normalized(q.expenses[i].value))>>], q)

(* _validated_return_compensation, on the amounts at calculation scale.    *)
ReturnCompensation(inputs, q) ==
  LET units == Units(inputs, "compensated_returned_units")
      amount == Amount(inputs, Compensation, q)
      worst == WorstState(<<units, amount>>)
      count == units.value[1]
      paid == amount.value[1]
  IN IF worst # "VALID" THEN Nonvalid(worst, Money(q.currency))
     ELSE IF count < 0 \/ paid < 0 \/ (count = 0 /\ paid # 0)
     THEN Nonvalid("BLOCKED", Money(q.currency))
     ELSE amount

(* net_marketplace_income_amount: the state of the return compensation     *)
(* goes before the states of the other amounts.                            *)
Income(inputs, q) ==
  LET compensation == ReturnCompensation(inputs, q)
      value(name) == IF name = Compensation THEN compensation ELSE Amount(inputs, name, q)
  IN IF ~IsValid(compensation) THEN Nonvalid(compensation.state, Money(q.currency))
     ELSE MoneySum([i \in DOMAIN IncomeTerms |->
                      <<IncomeTerms[i][1], value(IncomeTerms[i][2])>>], q)

Computed == {"net_marketplace_income_amount", "product_cost_amount", "other_expense_amount"}

(* tax_amount: on an input or on one of the amounts just calculated.       *)
Tax(inputs, q) ==
  LET rate == Normalized(q.rate)
      base == CASE q.base = "net_marketplace_income_amount" -> Income(inputs, q)
                [] q.base = "product_cost_amount"           -> ProductCost(inputs, q)
                [] q.base = "other_expense_amount"          -> OtherExpense(inputs, q)
                [] OTHER -> inputs[q.base]
      known == q.base \in DOMAIN inputs \cup Computed
      worst == WorstState(<<rate, base>>)
  IN IF ~known \/ rate.signature # Rate \/ base.signature # Money(q.currency)
     THEN Nonvalid("BLOCKED", Money(q.currency))
     ELSE IF worst # "VALID" THEN Nonvalid(worst, Money(q.currency))
     ELSE Valid(Times(base.value, rate.value), Money(q.currency))

Profit(inputs, q) ==
  MoneySum(<< <<1, Income(inputs, q)>>, <<-1, ProductCost(inputs, q)>>,
              <<-1, OtherExpense(inputs, q)>>, <<-1, Tax(inputs, q)>> >>, q)

ProfitPerUnit(inputs, q) ==
  LET profit == Profit(inputs, q)
      net == NetUnits(inputs)
      worst == WorstState(<<profit, net>>)
  IN IF worst # "VALID" THEN Nonvalid(worst, PerItem(q.currency))
     ELSE IF net.value[1] <= 0 THEN Nonvalid("BLOCKED", PerItem(q.currency))
     ELSE Valid(Over(profit.value, net.value), PerItem(q.currency))

(* _metric with final_round.                                               *)
Published(x) ==
  IF IsValid(x) THEN Valid(Quantized(x.value, Policy.mode, Policy.money), x.signature) ELSE x

(* calculate, after the request itself has been checked.                   *)
Calculation(q) ==
  LET parsed == CompensationPrevalidated(q.inputs, q)
      inputs == [n \in DOMAIN parsed |-> Normalized(parsed[n])]
  IN [outcome |-> "calculated",
      net_sold_units |-> NetUnits(inputs),
      product_cost_amount |-> Published(ProductCost(inputs, q)),
      other_expense_amount |-> Published(OtherExpense(inputs, q)),
      tax_amount |-> Published(Tax(inputs, q)),
      net_marketplace_income_amount |-> Published(Income(inputs, q)),
      net_profit_amount |-> Published(Profit(inputs, q)),
      profit_per_sold_unit |-> Published(ProfitPerUnit(inputs, q))]

(* A request calculate refuses: a scenario exactly in SCENARIO mode, a     *)
(* profile that is not in trial, an unknown input, a repeated component.   *)
Refuses(q) ==
  \/ (q.mode = "SCENARIO") # q.scenario
  \/ q.profile \notin {"SHADOW", "PILOT"}
  \/ ~DOMAIN q.inputs \subseteq InputNames
  \/ ExpensesRaise(q)

Calculate ==
  /\ calculated = Pending
  /\ calculated' = IF Refuses(request) THEN Refused ELSE Calculation(request)
  /\ UNCHANGED <<request, edits>>

(* An edit replaces a part of the request, or one of its inputs, or drops  *)
(* one (no value).                                                         *)
Edited(q, e) ==
  CASE e.part # "inputs" -> [q EXCEPT ![e.part] = e.value]
    [] e.part = "inputs" /\ e.value = << >> ->
         [q EXCEPT !.inputs = [n \in DOMAIN @ \ {e.name} |-> @[n]]]
    [] e.part = "inputs" /\ e.value # << >> ->
         [q EXCEPT !.inputs = [n \in DOMAIN @ \cup {e.name} |->
                                 IF n = e.name THEN e.value[1] ELSE @[n]]]

Edit(e) ==
  /\ edits < EditLimit
  /\ request' = Edited(request, e)
  /\ calculated' = Pending
  /\ edits' = edits + 1

KernelInit ==
  /\ request = BaseRequest
  /\ calculated = Pending
  /\ edits = 0

KernelNext == Calculate \/ \E e \in Edits : Edit(e)

KernelSpec == KernelInit /\ [][KernelNext]_kernelVars
-----------------------------------------------------------------------------
(* reference_calculate of oracle.py: untyped arithmetic on the amounts as  *)
(* they are given, rounded once, at money scale; of a case whose return    *)
(* units and return compensation are consistent, or an exception.          *)
OracleAccepts(q) ==
  LET n(name) == q.inputs[name].value[1]
  IN /\ \A name \in UnitInputs : n(name) >= 0
     /\ n("returned_units") <= n("gross_sales_units")
     /\ n("resalable_returned_units") + n("compensated_returned_units") <= n("returned_units")
     /\ n(Compensation) >= 0
     /\ (n("compensated_returned_units") = 0) = (n(Compensation) = 0)

Oracle(q) ==
  LET in(name) == q.inputs[name].value
      net == Minus(in("gross_sales_units"), in("returned_units"))
      cost == Times(q.cost.value, Minus(in("gross_sales_units"), in("resalable_returned_units")))
      other == SumOf([i \in DOMAIN q.expenses |->
                        LET x == q.expenses[i].value
                        IN IF x.signature[2] = "MONEY_PER_ITEM" THEN Times(x.value, net)
                                                                ELSE x.value])
      income == SumOf([i \in DOMAIN IncomeTerms |->
                         Times(Number(IncomeTerms[i][1]), in(IncomeTerms[i][2]))])
      base == CASE q.base = "net_marketplace_income_amount" -> income
                [] q.base = "product_cost_amount"           -> cost
                [] q.base = "other_expense_amount"          -> other
                [] OTHER -> in(q.base)
      tax == Times(base, q.rate.value)
      profit == Minus(Minus(Minus(income, cost), other), tax)
      rounded(x) == Quantized(x, Policy.mode, Policy.money)
  IN [net |-> net, cost |-> rounded(cost), other |-> rounded(other), tax |-> rounded(tax),
      income |-> rounded(income), profit |-> rounded(profit),
      perUnit |-> IF net[1] > 0 THEN rounded(Over(profit, net)) ELSE << >>]

(* Every value a profit rests on is there, VALID and of its signature.     *)
Complete(q) ==
  LET fits(x, signatures) == IsValid(x) /\ x.signature \in signatures
  IN /\ DOMAIN q.inputs = InputNames
     /\ \A n \in UnitInputs : fits(q.inputs[n], {Items})
     /\ \A n \in AmountInputs : fits(q.inputs[n], {Money(q.currency)})
     /\ fits(q.cost, {PerItem(q.currency)})
     /\ fits(q.rate, {Rate})
     /\ q.expenses # << >>
     /\ \A i \in DOMAIN q.expenses :
          fits(q.expenses[i].value, {Money(q.currency), PerItem(q.currency)})
     /\ q.base \in AmountInputs \cup Computed

(* A request with every amount at calculation scale.                       *)
AtCalculationScale(q) ==
  [q EXCEPT !.inputs = [n \in DOMAIN @ |-> Normalized(@[n])],
            !.cost = Normalized(@),
            !.expenses = [i \in DOMAIN @ |-> [id |-> @[i].id, value |-> Normalized(@[i].value)]],
            !.rate = Normalized(@)]

(* The kernel publishes a profit exactly for the requests the reference    *)
(* accepts: every value the profit rests on is VALID and the return units  *)
(* and compensation are consistent on the amounts as given, before any     *)
(* rounding.  Its metrics are then the reference's on the amounts at       *)
(* calculation scale, so the reference's as it stands where no amount has  *)
(* more digits than that.  Where one has, they need not be: the kernel     *)
(* rounds what it is given (RULE_INPUT_NORMALIZATION of ROUNDING_POLICY.md)*)
(* and oracle.py does not.  A rent of 5 and wages of 5/2 on one unit, in   *)
(* whole numbers and half to even, are 7 here and 8 there.                 *)
AgreesWithOracle ==
  calculated.outcome = "calculated" =>
    LET c == calculated
        o == Oracle(AtCalculationScale(request))
    IN IF Complete(request) /\ OracleAccepts(request)
       THEN /\ <<c.net_sold_units.value, c.product_cost_amount.value,
                 c.other_expense_amount.value, c.tax_amount.value,
                 c.net_marketplace_income_amount.value, c.net_profit_amount.value,
                 c.profit_per_sold_unit.value>>
               = <<o.net, o.cost, o.other, o.tax, o.income, o.profit, o.perUnit>>
            /\ c.profit_per_sold_unit.state = IF o.net[1] > 0 THEN "VALID" ELSE "BLOCKED"
       ELSE c.net_profit_amount.state # "VALID"
=============================================================================
