------------------------ MODULE MCDatasetAdmission ------------------------
(***************************************************************************)
(* Two invites; a tenant with two datasets whose files hold the same       *)
(* workbook, one packed; a colleague who declares the same file again; and *)
(* a second tenant with the same dataset id, file and source.              *)
(***************************************************************************)
EXTENDS DatasetAdmission, TLC

Declared(tenant, dataset, uploader, source, file, rows, retention) ==
  [tenant |-> tenant, dataset |-> dataset, uploader |-> uploader, source |-> source,
   file |-> file, terms |-> "terms", rows |-> rows, retention |-> retention, declared |-> 0, attested |-> TRUE, personal |-> FALSE]

MCDeclarations ==
  {[Declared("a1", "d1", "a1", "s3", "other", None, 2) EXCEPT !.personal = TRUE],
   Declared("a1", "d1", "a1", "s1", "plain", None, 2),
   Declared("a1", "d2", "a1", "s2", "packed", 2, 1),
   Declared("a1", "d2", "a1", "s1", "other", None, 2),
   Declared("a1", "d2", "b1", "s1", "plain", None, 2),
   Declared("a1", "d2", "b1", "s1", "other", 1, 2),
   Declared("a2", "d1", "a2", "s1", "plain", None, 2)}

(* The old policy does not know the schema of the plain file; the packed   *)
(* file breaks its limits.  The other file has two rows.                   *)
MCInspect ==
  [f \in {"plain", "packed", "other"} |->
     [p \in {"old", "new"} |->
        IF f = "packed" /\ p = "old" THEN InspectionFails
        ELSE [workbook |-> IF f = "other" THEN "w2" ELSE "w1", rows |-> 2,
              clean |-> p = "new"]]]

(* The colleague in the tenant of the first account.                       *)
MCDirect == {[tenant |-> "a1", account |-> "b1"]}

(* What a verifier may have looked at: a dataset, its file, its workbook.  *)
About == {<<"d1", "plain", "w1">>, <<"d2", "packed", "w1">>, <<"d2", "other", "w2">>}

Evidence(ids, abouts, policies, verified, verifiers, controls) ==
  {[id |-> i, tenant |-> "a1", dataset |-> a[1], file |-> a[2], workbook |-> a[3],
    terms |-> "terms", policy |-> p, verified |-> v, verifier |-> u, controls |-> controls] :
     i \in ids, a \in abouts, p \in policies, v \in verified, u \in verifiers}

MCDatasetEvidence ==
  Evidence({"e1"}, {<<"d1", "plain", "w1">>}, {"old", "new"}, {0, 1}, {"a1", "auditor"},
           DatasetControls)
    \cup Evidence({"e1", "e2"}, About, {"new"}, {1}, {"auditor"}, DatasetControls)
    \cup Evidence({"e2"}, {<<"d2", "other", "w1">>}, {"new"}, {1}, {"auditor"}, DatasetControls)
    \cup Evidence({"e2"}, About, {"new"}, {0}, {"auditor"}, DatasetControls \ {"malware_scan"})

MCStorageEvidence ==
  Evidence({"g1"}, {<<"d1", "plain", "w1">>}, {"new"}, {0, 1}, {"auditor", "a1"}, StorageControls)
    \cup Evidence({"g1", "g2"}, About, {"new"}, {1}, {"auditor"}, StorageControls)
=============================================================================
