---------------------------- MODULE Presentation ----------------------------
(***************************************************************************)
(* quantum.ux: the form in which an organization configures cost and tax,  *)
(* the views of a report record, and the inbox of everything that needs    *)
(* somebody's attention: records without a value, forms that are not       *)
(* ready and files that were not accepted.                                 *)
(*                                                                         *)
(* The context of a record or a form is organization, mode and scenario.   *)
(* The id of an exception is the tuple the code takes the hash of.         *)
(***************************************************************************)
EXTENDS Integers, Sequences, SequencesExt, FiniteSets

CONSTANTS
  FormRequests,        \* how forms may be asked for
  FormValues,          \* what users type: a value for some of the fields
  UxRecords, UxImports,     \* sequences of records and of imported files
  FormLimit, ApplyLimit     \* bounds on forms and on fillings

(* A record that is VALID has a number, which is not written as a dash.    *)
ASSUME UxAssumption ==
  /\ \A rs \in UxRecords :
       /\ rs \in Seq(ToSet(rs))
       /\ \A i \in DOMAIN rs : rs[i].state = "VALID" => rs[i].value # "dash"
  /\ \A is \in UxImports : is \in Seq(ToSet(is))

VARIABLES forms, applied, inbox

presentationVars == <<forms, applied, inbox>>

Fields == {"cost", "tax_rate", "tax_base", "other_expense"}
NeedsCurrency == {"cost", "other_expense"}

EmptyField == [value |-> "none", state |-> "EMPTY", diagnostic |-> "CONFIGURATION_REQUIRED"]

(* build_configuration_form, with _validate_scope: the scope is the        *)
(* organization's, of one product or one group, and of the form's scenario *)
(* if it has one; the interval, if it has an end, does not end before it   *)
(* starts.                                                                 *)
FormRaises(q) ==
  \/ q.scope.organization # q.context[1]
  \/ q.scope.product /\ q.scope.group
  \/ q.scope.scenario # q.context[2]
  \/ q.from # -1 /\ q.to # -1 /\ q.to <= q.from

BuildForm(q) ==
  /\ Len(forms) < FormLimit
  /\ ~FormRaises(q)
  /\ forms' = Append(forms, [id |-> q.id, context |-> q.context, from |-> q.from,
                             currency |-> q.currency, fields |-> [f \in Fields |-> EmptyField],
                             problems |-> {}, status |-> "BLOCKED"])
  /\ UNCHANGED <<applied, inbox>>

(* One field of apply_configuration_values.  A field that is not given is  *)
(* empty again, whatever it was before.                                    *)
Filled(f, typed, currency) ==
  LET failed(state, diagnostic) == [value |-> "none", state |-> state, diagnostic |-> diagnostic]
      raw == IF f \in DOMAIN typed THEN typed[f] ELSE ""
  IN CASE raw = "" -> EmptyField
       [] raw # "" /\ raw # (IF f = "tax_base" THEN "base" ELSE "decimal") ->
            failed("INVALID", IF f = "tax_base" THEN "TAX_BASE_INVALID" ELSE "DECIMAL_INPUT_INVALID")
       [] OTHER -> IF f \in NeedsCurrency /\ ~currency THEN failed("BLOCKED", "CURRENCY_REQUIRED")
                   ELSE [value |-> raw, state |-> "VALID", diagnostic |-> "none"]

ProblemsOf(form, fields) ==
  {<<f, fields[f].diagnostic>> : f \in {g \in Fields : fields[g].state \in {"INVALID", "BLOCKED"}}}
    \cup (IF form.from = -1 THEN {<<"valid_from", "VALID_FROM_REQUIRED">>} ELSE {})

(* A slip: what was typed decides, and the start of validity is forgotten. *)
StatusOfFields(form, fields) ==
  LET valid == {f \in Fields : fields[f].state = "VALID"}
  IN CASE valid = Fields -> "READY_FOR_RULE_DRAFT"
       [] valid # Fields -> "BLOCKED"

Status(form, fields) ==
  LET valid == {f \in Fields : fields[f].state = "VALID"}
  IN CASE ProblemsOf(form, fields) # {} -> "BLOCKED"
       [] ProblemsOf(form, fields) = {} /\ valid = Fields -> "READY_FOR_RULE_DRAFT"
       [] ProblemsOf(form, fields) = {} /\ valid \notin {{}, Fields} -> "PARTIAL"
       [] ProblemsOf(form, fields) = {} /\ valid = {} -> "BLOCKED"

ApplyConfigurationValues(i, typed) ==
  LET fields == [f \in Fields |-> Filled(f, typed, forms[i].currency)]
  IN /\ applied < ApplyLimit
     /\ forms' = [forms EXCEPT ![i] = [@ EXCEPT !.fields = fields,
                                                !.problems = ProblemsOf(forms[i], fields),
                                                !.status = Status(forms[i], fields)]]
     /\ applied' = applied + 1
     /\ UNCHANGED inbox
-----------------------------------------------------------------------------
(* render_report_record: a record without a value shows a dash, and a zero *)
(* is said to be one however it is written.                                *)
View(r) ==
  [text |-> IF r.state = "VALID" THEN r.value ELSE "dash",
   zero |-> r.state = "VALID" /\ r.value \in {"0", "0.00"},
   evidence |-> r.verified]

(* build_report_drilldown.                                                 *)
Drilldown(r) == [claimsVerified |-> r.verified]

(* The exceptions of a record, of a form and of an imported file.          *)
Severity(state) == IF state \in {"BLOCKED", "CONFLICT", "INVALID"} THEN "ERROR" ELSE "WARNING"

OfRecord(r) ==
  IF r.state \in {"VALID", "NOT_APPLICABLE"} THEN {}
  ELSE {[id |-> <<"metric", r.id, r.reason>>, severity |-> Severity(r.state)]}

OfForm(form) ==
  {[id |-> <<"configuration", form.id, f, form.fields[f].diagnostic>>,
    severity |-> Severity(form.fields[f].state)] :
     f \in {g \in Fields : form.fields[g].state # "VALID"}}
    \cup (IF form.from # -1 THEN {}
          ELSE {[id |-> <<"configuration", form.id, "valid_from", "VALID_FROM_REQUIRED">>,
                 severity |-> "ERROR"]})

OfImport(file) ==
  IF file.state \notin {"QUARANTINED", "REJECTED"} THEN {}
  ELSE {[id |-> <<"import", file.id, file.diagnostic>>, severity |-> "ERROR"]}

Exceptions(rs, fs, is) ==
  (UNION {OfRecord(rs[i]) : i \in DOMAIN rs})
    \cup (UNION {OfForm(fs[i]) : i \in DOMAIN fs})
    \cup (UNION {OfImport(is[i]) : i \in DOMAIN is})

Unique(s) == \A i, j \in DOMAIN s : s[i].id = s[j].id => i = j

(* build_exception_inbox: one context for records and forms, one tenant    *)
(* for the imports, and nothing twice.                                     *)
InboxRaises(rs, fs, is, tenant) ==
  LET contexts == {rs[i].context : i \in DOMAIN rs} \cup {fs[i].context : i \in DOMAIN fs}
  IN \/ ~Unique(rs) \/ ~Unique(fs) \/ ~Unique(is)
     \/ Cardinality(contexts) > 1
     \/ \E i \in DOMAIN is : is[i].tenant # tenant
     \/ contexts = {} /\ is = << >>

BuildExceptionInbox(rs, is, tenant) ==
  /\ inbox' =
       IF InboxRaises(rs, forms, is, tenant) THEN [state |-> "REFUSED"]
       ELSE [state |-> "BUILT", records |-> rs, imports |-> is, forms |-> forms,
             exceptions |-> Exceptions(rs, forms, is),
             available |-> {rs[i].metric : i \in {j \in DOMAIN rs : rs[j].state = "VALID"}}]
  /\ UNCHANGED <<forms, applied>>

PresentationInit == forms = << >> /\ applied = 0 /\ inbox = [state |-> "NONE"]

PresentationNext ==
  \/ \E q \in FormRequests : BuildForm(q)
  \/ \E i \in DOMAIN forms, typed \in FormValues : ApplyConfigurationValues(i, typed)
  \/ \E rs \in UxRecords, is \in UxImports, tenant \in {"t", "t2"} :
       BuildExceptionInbox(rs, is, tenant)

PresentationSpec == PresentationInit /\ [][PresentationNext]_presentationVars
-----------------------------------------------------------------------------
(* What an inbox says about the forms, records and files behind it.        *)
CompleteInbox(box) ==
  LET ids == {e.id : e \in box.exceptions}
      of(kind, x) == {e \in box.exceptions : e.id[1] = kind /\ e.id[2] = x.id}
  IN /\ Cardinality(ids) = Cardinality(box.exceptions)
     /\ \A i \in DOMAIN box.forms :
          LET form == box.forms[i]
          IN /\ form.status = "READY_FOR_RULE_DRAFT" <=> of("configuration", form) = {}
             /\ form.problems # {} =>
                  \E e \in of("configuration", form) : e.severity = "ERROR"
     /\ \A i \in DOMAIN box.records :
          LET r == box.records[i]
          IN /\ of("metric", r) # {} => View(r).text = "dash" /\ ~View(r).zero
             /\ View(r).text # "dash" => r.metric \in box.available
             /\ of("metric", r) = {} => View(r).text # "dash" \/ r.state = "NOT_APPLICABLE"
             /\ Drilldown(r).claimsVerified <=> View(r).evidence
     /\ \A i \in DOMAIN box.imports :
          Cardinality(of("import", box.imports[i]))
            = IF box.imports[i].state \in {"QUARANTINED", "REJECTED"} THEN 1 ELSE 0

(* The inbox and the forms and views behind it say the same: a form is     *)
(* ready exactly when it raises no exception, and raises an error if it    *)
(* lists a problem; a record is a value that is available, an exception    *)
(* shown as a dash, or not applicable; a file raises an exception exactly  *)
(* when it was not accepted; and no two causes share an exception.         *)
InboxIsComplete == inbox.state = "BUILT" => CompleteInbox(inbox)
=============================================================================
