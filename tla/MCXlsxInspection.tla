-------------------------- MODULE MCXlsxInspection --------------------------
(***************************************************************************)
(* The inspection on two packages a spreadsheet program writes, one with   *)
(* inline strings and one with shared strings, changed up to EditLimit     *)
(* times: worksheets added at proper and at doubled paths and shared       *)
(* strings under both names, worksheets exchanged, gaps and descriptors in *)
(* the archive, sheets and relationships renamed, added and retargeted,    *)
(* the package wrapped.                                                    *)
(***************************************************************************)
EXTENDS XlsxInspection, TLC

Inline(t) == [index |-> 0, text |-> t, formula |-> FALSE]
Shared(i) == [index |-> i, text |-> "", formula |-> FALSE]
Formula == [index |-> 0, text |-> "7", formula |-> TRUE]

Report == (1 :> <<Inline("Sku"), Inline("Sum")>>) @@ (2 :> <<Inline("a"), Inline("7")>>)
SharedReport == (1 :> <<Shared(1), Shared(2)>>) @@ (2 :> <<Inline("a"), Formula>>)
Blank == (1 :> <<Inline("")>>)
Wide == (1 :> <<Inline("Sku"), Inline("Sum")>>) @@ (2 :> <<Inline("a"), Inline("7"), Inline("x")>>)
Named == (1 :> <<Inline("Phone"), Inline("Sum")>>)
MCWorksheets == {Report, Blank, Wide, Named}

AName == <<"xl", "worksheets", "a.xml">>
Doubled == <<"xl", "xl", "worksheets", "a.xml">>
Recased == <<"xl", "SharedStrings.xml">>
MCStringParts == {SharedPart, Recased}
MCStringTables == {<<"hidden">>}
MCPartNames == {<<"xl", "worksheets", "b.xml">>, <<"xl", "worksheets", "A.xml">>, Doubled}

To(path) == [path |-> path, absolute |-> FALSE, external |-> FALSE]
MCTargets == {To(<<"worksheets", "a.xml">>), To(<<"worksheets", "b.xml">>),
              To(<<"Worksheets", "a.xml">>), To(AName), To(<<"..">> \o AName),
              [To(AName) EXCEPT !.absolute = TRUE],
              [To(<<"worksheets", "a.xml">>) EXCEPT !.external = TRUE]}

MCFold ==
  [s \in {"xl", "worksheets", "a.xml", "b.xml", "workbook.xml", "styles.xml",
          "sharedstrings.xml", ".."} |-> s]
  @@ ("Worksheets" :> "worksheets") @@ ("A.xml" :> "a.xml")
  @@ ("sharedStrings.xml" :> "sharedstrings.xml")
  @@ ("SharedStrings.xml" :> "sharedstrings.xml")

Part(at, sheet) == [at |-> at, size |-> 2, descriptor |-> 0, sheet |-> sheet, strings |-> <<>>]
Strings(at, strings) == [Part(at, Blank) EXCEPT !.strings = strings]
Sheet == [id |-> "r1", type |-> "worksheet", target |-> To(<<"worksheets", "a.xml">>)]
Plain == [parts |-> (WorkbookPart :> Part(0, Blank)) @@ (AName :> Part(2, Report)),
          central |-> 4, wrapper |-> "none",
          sheets |-> <<[name |-> "Data", id |-> "r1"]>>, relations |-> <<Sheet>>]
WithShared == [parts |-> (WorkbookPart :> Part(0, Blank)) @@ (AName :> Part(2, SharedReport))
                         @@ (SharedPart :> Strings(4, <<"Sku", "Sum">>)),
               central |-> 6, wrapper |-> "none",
               sheets |-> <<[name |-> "Data", id |-> "r1"]>>,
               relations |-> <<Sheet, [id |-> "rSharedStrings", type |-> "sharedStrings",
                                       target |-> To(<<"sharedStrings.xml">>)]>>]
MCWritten == {Plain, WithShared}

Schema(id, kind, sheet, sheets) ==
  [id |-> id, kind |-> kind, sheet |-> sheet, sheets |-> sheets, row |-> 1,
   headers |-> <<"Sku", "Sum">>, minRows |-> 1, maxRows |-> 1, formulas |-> 1]
MCSchemas == {Schema("one", "XLSX", "Data", 1), Schema("two", "XLSX", "Data", 2),
              Schema("other", "XLSX", "Other", 2), Schema("zipped", "ZIP_XLSX", "Data", 1),
              [Schema("strict", "ZIP_XLSX", "Data", 1) EXCEPT !.formulas = 0]}
=============================================================================
