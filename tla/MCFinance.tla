----------------------------- MODULE MCFinance -----------------------------
(***************************************************************************)
(* Rules, expressions and the kernel share no state: a behaviour exercises *)
(* one of them, chosen at the start, and the others stay at their initial  *)
(* state, so that the run explores their union and not their product.      *)
(***************************************************************************)
EXTENDS RuleResolution, SafeExpression, FinancialKernel

VARIABLE part

vars == <<part, ruleVars, expressionVars, kernelVars>>

Init ==
  /\ part \in {"rules", "expression", "kernel"}
  /\ RuleInit /\ ExpressionInit /\ KernelInit

Next ==
  /\ UNCHANGED part
  /\ \/ part = "rules" /\ RuleNext /\ UNCHANGED <<expressionVars, kernelVars>>
     \/ part = "expression" /\ ExpressionNext /\ UNCHANGED <<ruleVars, kernelVars>>
     \/ part = "kernel" /\ KernelNext /\ UNCHANGED <<ruleVars, expressionVars>>

Spec == Init /\ [][Next]_vars
-----------------------------------------------------------------------------
MCPolicy == [mode |-> "HALF_EVEN", calculation |-> 1, money |-> 1]
Rub == Money("RUB")

Literal(n, d, s) == [kind |-> "LITERAL", value |-> <<n, d>>, signature |-> s]
Variable(name, s) == [kind |-> "VARIABLE", name |-> name, signature |-> s]

MCLeaves ==
  {Literal(0, 1, Rub), Literal(3, 2, Rub), Variable("x", Rub), Variable("b", Boolean)}
MCDeclared == {Rub, Decimal, Boolean}

(* An amount that is zero, odd or in another state, with a condition that  *)
(* is true, false or in another state; an amount of another currency that  *)
(* is asked for, and none where none is needed.                            *)
MCInputs ==
  LET amounts == {Valid(Number(0), Rub), Valid(Number(3), Rub), Nonvalid("BLOCKED", Rub)}
      true == Valid(Truth(TRUE), Boolean)
      false == Valid(Truth(FALSE), Boolean)
  IN [x : amounts, b : {true, false, Nonvalid("CONFLICT", Boolean)}]
     \cup {[x |-> Valid(Number(1), Money("USD")), b |-> true], [b |-> false],
           [b |-> Nonvalid("CONFLICT", Boolean)]}

(* The names the code gives.                                               *)
MCSyntheticName(n) == "if_state." \o ToString(n)

-----------------------------------------------------------------------------
(* Rules of one organization.                                              *)
Rule(id, scope, status, priority) ==
  [id |-> id, version |-> 1, organization |-> "o", scope |-> scope, status |-> status,
   from |-> 0, to |-> None, priority |-> priority, exclusivity |-> None,
   method |-> "FIXED_VALUE", unit |-> "MONEY", currency |-> "RUB", dependencies |-> {},
   expression |-> None]

General == Rule("general", << >>, "ACTIVE", 5)
ForProduct == Rule("product", [product |-> "p"], "PILOT", 0)
ForGroup == Rule("group", [group |-> "g"], "ACTIVE", 9)
Draft == Rule("draft", [product |-> "p"], "DRAFT", 0)
Twin == Rule("twin", << >>, "ACTIVE", 5)
WhatIf == Rule("whatif", [scenario |-> "s"], "ACTIVE", 0)
Ended == [Rule("ended", [product |-> "p"], "ACTIVE", 0) EXCEPT !.to = 1]
Revision == [General EXCEPT !.version = 2]
Exclusive(r) == [r EXCEPT !.exclusivity = "cost"]
Malformed == Rule("both", [product |-> "p", group |-> "g"], "ACTIVE", 0)
ARate == [Rule("rate", [product |-> "p"], "ACTIVE", 1)
            EXCEPT !.method = "RATE", !.unit = "RATE", !.currency = None, !.dependencies = {"x"}]
AnExpression(s) ==
  [Rule("expression", [product |-> "p"], "ACTIVE", 1)
     EXCEPT !.method = "SAFE_EXPRESSION", !.dependencies = {"x"}, !.unit = s,
            !.currency = IF s = "MONEY" THEN "RUB" ELSE None,
            !.expression = [kind |-> "OPERATION", operator |-> "ADD", signature |-> Rub,
                            arguments |-> <<Variable("x", Rub), Variable("x", Rub)>>]]

MCCatalogues ==
  {{General, ForProduct}, {General, ForProduct, ForGroup}, {Draft}, {General, Twin},
   {General, WhatIf, Ended}, {Exclusive(General), Exclusive(ForGroup)}, {General, Malformed},
   {ARate, General, Revision}, {AnExpression("MONEY"), General}, {AnExpression("RATE")}}

Context(scenario, instant) ==
  [organization |-> "o", instant |-> instant,
   scope |-> [product |-> "p", group |-> "g", account |-> "a", marketplace |-> "m",
              profile |-> "f", scenario |-> scenario]]

MCContexts == {Context("-", 1), Context("s", 0)}

MCEnvironments == {<< >>, [x |-> "VALID"], [x |-> "BLOCKED"]}

TypedInputs(v) ==
  [n \in DOMAIN v |-> IF v[n] = "VALID" THEN Valid(Number(1), Rub) ELSE Nonvalid(v[n], Rub)]

MCIsExpression(e, dependencies) == ValidExpression(e, dependencies)
MCExpressionValue(e, v) ==
  LET value[inputs \in {TypedInputs(w) : w \in MCEnvironments}] == Lazy(e, inputs, DOMAIN inputs)
  IN value[TypedInputs(v)]

-----------------------------------------------------------------------------
(* Three sold, two returned, one of them back in stock and one paid for.   *)
MCBaseRequest ==
  [mode |-> "ACTUAL", scenario |-> FALSE, profile |-> "PILOT", currency |-> "RUB",
   inputs |-> [n \in InputNames |->
     CASE n = "gross_sales_units" -> Valid(Number(3), Items)
       [] n = "returned_units" -> Valid(Number(2), Items)
       [] n \in UnitInputs \ {"gross_sales_units", "returned_units"} -> Valid(Number(1), Items)
       [] n = "gross_sales_amount" -> Valid(Number(90), Rub)
       [] OTHER -> Valid(Number(2), Rub)],
   cost |-> Valid(Number(7), PerItem("RUB")),
   expenses |-> <<[id |-> "rent", value |-> Valid(Number(5), PerItem("RUB"))]>>,
   rate |-> Valid(<<1, 1>>, Rate), base |-> "net_marketplace_income_amount"]

Replace(part_, value) == [part |-> part_, value |-> value]
Supply(name, value) == [part |-> "inputs", name |-> name, value |-> <<value>>]
Drop(name) == [part |-> "inputs", name |-> name, value |-> << >>]

MCEdits ==
  {Supply(n, Valid(Number(k), Items)) : n \in UnitInputs, k \in {-1, 0, 2, 3}}
    \cup {Supply("return_compensation_amount", Valid(<<k, 10>>, Rub)) : k \in {-4, 0, 4, 15}}
    \cup {Supply(n, x) : n \in {"storage_amount", "returned_units", "return_compensation_amount"},
                         x \in {Nonvalid("EMPTY", Rub), Nonvalid("CONFLICT", Items),
                                Valid(Number(1), Money("USD"))}}
    \cup {Drop(n) : n \in {"gross_sales_units", "advertising_amount", "return_compensation_amount"}}
    \cup {Supply("legacy_subsidies_amount", Valid(Number(1), Rub))}
    \cup {Replace("cost", x) : x \in {Nonvalid("BLOCKED", PerItem("RUB")), Valid(Number(7), Rub)}}
    \cup {Replace("expenses", x) :
            x \in {<< >>,
                   <<[id |-> "rent", value |-> Valid(Number(5), Rub)],
                     [id |-> "rent", value |-> Valid(Number(5), Rub)]>>,
                   <<[id |-> "rent", value |-> Valid(Number(5), PerItem("RUB"))],
                     [id |-> "wages", value |-> Valid(<<5, 2>>, Rub)]>>}}
    \cup {Replace("rate", x) : x \in {Valid(<<1, 2>>, Decimal), Nonvalid("UNAVAILABLE", Rate)}}
    \cup {Replace("base", x) : x \in {"gross_sales_units", "product_cost_amount", "storage_amount",
                                      "other_expense_amount", "unknown"}}
    \cup {Replace("profile", "ACTIVE"), Replace("mode", "SCENARIO"), Replace("scenario", TRUE)}
=============================================================================
