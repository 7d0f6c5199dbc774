--------------------------- MODULE MCPublication ---------------------------
(***************************************************************************)
(* The way from a calculated snapshot to a screen, on small instances.     *)
(* The parts share no state in the code but what a caller hands from one   *)
(* to the next, so each is explored alone, with part saying which: the     *)
(* evidence graph under edits, a report record for every snapshot, pages   *)
(* and exports of collections, one reconciliation, forms and the inbox.    *)
(***************************************************************************)
EXTENDS ReportRecord, MCReportDelivery, Reconciliation, Presentation

VARIABLE part

(* A request of the file's owner whose totals agree.                       *)
Dec(c, e) == [coefficient |-> c, exponent |-> e]
Total(x) == [state |-> "VALID", signature |-> "RUB", value |-> x]
Totals(rows, x) == [dataset |-> "d", rows |-> rows, totals |-> [sales |-> Total(x)]]
MCRequest ==
  [expired |-> FALSE, caller |-> "c",
   record |-> [state |-> "ADMITTED", owner |-> "c", dataset |-> "d", expectedRows |-> 2],
   policy |-> [sealed |-> TRUE, rowTolerance |-> 1,
               metrics |-> [sales |-> [absolute |-> Dec(1, 0), signature |-> "RUB"]]],
   source |-> Totals(2, Dec(1, 1)), calculated |-> Totals(2, Dec(1, 1))]

MCSnapshot ==
  [ref |-> "s", chain |-> "chain", tenant |-> "o", mode |-> "ACTUAL", period |-> "ordered",
   sealed |-> TRUE, state |-> "VALID", value |-> "decimal", type |-> "MONEY", unit |-> "MONEY",
   currency |-> TRUE, reason |-> FALSE, limitations |-> <<"PARTIAL_PERIOD">>]

vars == <<part, recordVars, deliveryVars, reconciliationVars, presentationVars>>

Init ==
  /\ part \in {"evidence", "record", "delivery", "reconciliation", "presentation"}
  /\ RecordInit /\ (part # "record" => snapshot = MCSnapshot)
  /\ DeliveryInit /\ (part # "delivery" => collection = << >>)
  /\ ReconciliationInit /\ (part # "reconciliation" => request = MCRequest)
  /\ PresentationInit

Next ==
  /\ UNCHANGED part
  /\ \/ /\ part = "evidence" /\ EvidenceNext
        /\ UNCHANGED <<snapshot, report, deliveryVars, reconciliationVars, presentationVars>>
     \/ /\ part = "record" /\ RecordNext
        /\ snapshot = MCSnapshot \/ graphEdits' = 0
        /\ UNCHANGED <<deliveryVars, reconciliationVars, presentationVars>>
     \/ /\ part = "delivery" /\ DeliveryNext
        /\ UNCHANGED <<recordVars, reconciliationVars, presentationVars>>
     \/ /\ part = "reconciliation" /\ Reconcile
        /\ UNCHANGED <<recordVars, deliveryVars, presentationVars>>
     \/ /\ part = "presentation" /\ PresentationNext
        /\ UNCHANGED <<recordVars, deliveryVars, reconciliationVars>>

Spec == Init /\ [][Next]_vars
-----------------------------------------------------------------------------
Node(type, ref) ==
  [type |-> type, tenant |-> "o", mode |-> "ACTUAL", ref |-> ref, approved |-> FALSE,
   retained |-> "none", locator |-> "none"]
File(ref) == [Node("SOURCE_FILE", ref) EXCEPT !.retained = ref, !.locator = "here"]
Approval(given) == [Node("APPROVAL", "a") EXCEPT !.approved = given]

Edge(from, to, type) == [from |-> from, to |-> to, type |-> type, sequence |-> 0]

BaseNodes ==
  [root |-> Node("METRIC_SNAPSHOT", "s"), earlier |-> Node("METRIC_SNAPSHOT", "s0"),
   definition |-> Node("METRIC_DEFINITION", "d"), profile |-> Node("CALCULATION_PROFILE", "p"),
   resolution |-> Node("RULE_RESOLUTION", "r"), rule |-> Node("CONFIGURATION_RULE", "c"),
   rounding |-> Node("ROUNDING_POLICY", "q"), authority |-> Node("SOURCE_AUTHORITY", "u"),
   step |-> Node("TRANSFORMATION", "t"), event |-> Node("CANONICAL_EVENT", "e"),
   line |-> Node("SOURCE_RECORD", "l"), file |-> File("bytes"),
   fresh |-> Node("FRESHNESS_ASSESSMENT", "f"), sure |-> Node("CONFIDENCE_ASSESSMENT", "k"),
   master |-> Node("PRODUCT_MASTER", "m"), match |-> Node("RECONCILIATION_RESULT", "x"),
   approval |-> Approval(TRUE)]

BaseEdges ==
  {Edge("root", "earlier", "SNAPSHOT_SUPERSEDES"), Edge("root", "definition", "RESULT_DEFINED_BY"),
   Edge("root", "profile", "RESULT_CALCULATED_WITH"),
   Edge("root", "resolution", "RESULT_USES_RESOLUTION"),
   Edge("resolution", "rule", "RESOLUTION_SELECTS_RULE"),
   Edge("profile", "rule", "PROFILE_SELECTS_RULE"),
   Edge("profile", "rounding", "PROFILE_USES_ROUNDING"),
   Edge("profile", "authority", "PROFILE_USES_SOURCE_AUTHORITY"),
   Edge("rounding", "approval", "ARTIFACT_APPROVED_BY"),
   Edge("authority", "approval", "ARTIFACT_APPROVED_BY"),
   Edge("root", "step", "RESULT_USES_TRANSFORMATION"),
   Edge("root", "event", "RESULT_DERIVED_FROM_EVENT"),
   Edge("event", "line", "EVENT_NORMALIZED_FROM_RECORD"),
   Edge("line", "file", "RECORD_READ_FROM_FILE"),
   Edge("root", "master", "RESULT_USES_PRODUCT_MASTER"),
   Edge("root", "match", "RESULT_RECONCILED_BY"),
   Edge("root", "fresh", "RESULT_HAS_FRESHNESS"), Edge("root", "sure", "RESULT_HAS_CONFIDENCE")}

MCBaseGraph ==
  [id |-> "chain", tenant |-> "o", mode |-> "ACTUAL", sealed |-> TRUE, root |-> "s",
   nodes |-> BaseNodes, edges |-> BaseEdges]
MCBaseStore == [here |-> "bytes"]
MCStoreChanges == {[here |-> "other"], << >>}

Change(node, value) == [edit |-> "change", node |-> node, value |-> value]
Draw(edge) == [edit |-> "draw", edge |-> edge]

MCGraphEdits ==
  {[edit |-> "drop", node |-> n] : n \in {"earlier", "rule", "line", "file", "approval", "sure"}}
    \cup {[edit |-> "erase", edge |-> e] : e \in BaseEdges}
    \cup {Draw(Edge(e[1], e[2], e[3])) :
            e \in {<<"earlier", "root", "SNAPSHOT_SUPERSEDES">>,
                   <<"root", "root", "SNAPSHOT_RESTATES">>,
                   <<"root", "earlier", "SNAPSHOT_RESTATES">>,
                   <<"approval", "approval", "ARTIFACT_APPROVED_BY">>,
                   <<"earlier", "event", "RESULT_DERIVED_FROM_EVENT">>,
                   <<"earlier", "definition", "RESULT_DEFINED_BY">>,
                   <<"event", "file", "RECORD_READ_FROM_FILE">>,
                   <<"root", "absent", "RESULT_DEFINED_BY">>,
                   <<"root", "fresh", "RESULT_SUPPORTED_BY">>}}
    \cup {Draw([Edge("root", "step", "RESULT_USES_TRANSFORMATION") EXCEPT !.sequence = 1])}
    \cup {Change("approval", Approval(FALSE)), Change("line", Node("TRANSFORMATION", "l")),
          Change("earlier", Node("METRIC_SNAPSHOT", "s")),
          Change("earlier", Node("CALCULATION_PROFILE", "p2")),
          Change("event", [Node("CANONICAL_EVENT", "e") EXCEPT !.tenant = "o2"]),
          Change("sure", [Node("CONFIDENCE_ASSESSMENT", "k") EXCEPT !.mode = "s1"]),
          Change("file", [File("bytes") EXCEPT !.retained = "other"]),
          Change("file", File("other")), [edit |-> "unseal"]}

(* The snapshot with every combination of value, type, unit, currency and  *)
(* reason in three states, and with each other part changed.               *)
MCSnapshots ==
  {[MCSnapshot EXCEPT !.state = s, !.value = v, !.type = t, !.unit = u, !.currency = c,
                      !.reason = r] :
     s \in {"VALID", "BLOCKED", "FINE"}, v \in {"none", "decimal", "integer"},
     t \in {"none", "MONEY", "INTEGER", "RATE"}, u \in {"none", "MONEY", "ITEM"},
     c \in BOOLEAN, r \in BOOLEAN}
    \cup {[MCSnapshot EXCEPT !.ref = "s0"], [MCSnapshot EXCEPT !.chain = "chain2"],
          [MCSnapshot EXCEPT !.chain = "none"], [MCSnapshot EXCEPT !.tenant = "o2"],
          [MCSnapshot EXCEPT !.mode = "s1"], [MCSnapshot EXCEPT !.mode = "contaminated"],
          [MCSnapshot EXCEPT !.period = "reversed"], [MCSnapshot EXCEPT !.period = "malformed"],
          [MCSnapshot EXCEPT !.sealed = FALSE],
          [MCSnapshot EXCEPT !.limitations = <<NotVerified>>],
          [MCSnapshot EXCEPT !.limitations = <<"PARTIAL_PERIOD", NotVerified>>],
          [MCSnapshot EXCEPT !.limitations = <<"PARTIAL_PERIOD", "PARTIAL_PERIOD">>]}
-----------------------------------------------------------------------------
(* Totals of different length, sign and exponent against tolerances that   *)
(* some differences meet exactly; and a request wrong in each of its parts.*)
Decimals == {Dec(c, e) : c \in {-4, 0, 1, 15, 99}, e \in {-2, 0, 1}}

MCRequests ==
  {[MCRequest EXCEPT !.source.totals.sales.value = s, !.calculated.totals.sales.value = c,
                     !.policy.metrics.sales.absolute = t] :
     s \in Decimals, c \in Decimals, t \in {Dec(0, 0), Dec(1, 0), Dec(1, 1), Dec(99, 1)}}
    \cup {[MCRequest EXCEPT !.source.rows = s, !.calculated.rows = c, !.record.expectedRows = e] :
            s \in 1..3, c \in 1..3, e \in {-1, 2}}
    \cup {[MCRequest EXCEPT !.expired = TRUE], [MCRequest EXCEPT !.record.state = "REVOKED"],
          [MCRequest EXCEPT !.caller = "x"], [MCRequest EXCEPT !.policy.sealed = FALSE],
          [MCRequest EXCEPT !.policy.metrics.sales.absolute = Dec(-1, 0)],
          [MCRequest EXCEPT !.policy.metrics = << >>],
          [MCRequest EXCEPT !.source.totals = << >>],
          [MCRequest EXCEPT !.calculated.dataset = "d2"],
          [MCRequest EXCEPT !.calculated.totals.sales.state = "BLOCKED"],
          [MCRequest EXCEPT !.source.totals.sales.signature = "USD"],
          [MCRequest EXCEPT !.source.totals.sales.value = Dec(123, 0)]}
-----------------------------------------------------------------------------
FormRequest(id, from, to, currency) ==
  [id |-> id, context |-> <<"o", "-">>, from |-> from, to |-> to, currency |-> currency,
   scope |-> [organization |-> "o", product |-> TRUE, group |-> FALSE, scenario |-> "-"]]

MCFormRequests ==
  {FormRequest("f1", 1, -1, TRUE), FormRequest("f1", -1, -1, TRUE), FormRequest("f2", 1, 2, FALSE),
   FormRequest("f2", 2, 1, TRUE), [FormRequest("f2", 1, -1, TRUE) EXCEPT !.scope.group = TRUE],
   [FormRequest("f3", 1, -1, TRUE) EXCEPT !.context[2] = "s", !.scope.scenario = "s"],
   [FormRequest("f3", 1, -1, TRUE) EXCEPT !.context[2] = "s"]}

MCFormValues ==
  LET all == [f \in Fields |-> IF f = "tax_base" THEN "base" ELSE "decimal"]
  IN {<< >>, all, [cost |-> "decimal"], [all EXCEPT !["tax_base"] = "decimal"],
      [all EXCEPT !["cost"] = "words"], [all EXCEPT !["other_expense"] = ""]}

UxRecord(id, state, value) ==
  [id |-> id, context |-> <<"o", "-">>, metric |-> id, state |-> state, value |-> value,
   reason |-> IF state = "VALID" THEN "none" ELSE "why", verified |-> state = "VALID"]
UxImport(id, state) == [id |-> id, tenant |-> "t", state |-> state, diagnostic |-> "why"]

MCUxRecords ==
  {<< >>,
   <<UxRecord("m1", "VALID", "0.00"), UxRecord("m2", "BLOCKED", "none")>>,
   <<UxRecord("m2", "EMPTY", "none"), UxRecord("m1", "VALID", "5"),
     UxRecord("m3", "NOT_APPLICABLE", "none")>>,
   <<UxRecord("m1", "VALID", "5"), UxRecord("m1", "CONFLICT", "none")>>,
   <<[UxRecord("m1", "VALID", "5") EXCEPT !.context[2] = "s"]>>}
MCUxImports ==
  {<< >>, <<UxImport("i1", "QUARANTINED"), UxImport("i2", "VALID")>>,
   <<UxImport("i1", "REJECTED"), UxImport("i1", "REJECTED")>>}
=============================================================================
