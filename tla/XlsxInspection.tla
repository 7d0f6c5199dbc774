--------------------------- MODULE XlsxInspection ---------------------------
(***************************************************************************)
(* Inspection of an XLSX upload: XlsxPackageInspector.inspect.  A package  *)
(* is an archive of parts (their place in the file, and the worksheet or   *)
(* the shared strings they hold), the workbook's list of sheets and its    *)
(* relationships.  inspect runs its checks in order, each reading the      *)
(* archive again by its own rules, and then matches the one sheet it chose *)
(* with the schemas of the policy.  Part names and targets are sequences   *)
(* of path segments.                                                       *)
(*                                                                         *)
(* Left out: the checks of XML syntax and attributes (lexical content,     *)
(* r19 hardening, content types, auxiliary parts), which look at one part  *)
(* each, and the size limits.                                              *)
(***************************************************************************)
EXTENDS Integers, Sequences, FiniteSets, FiniteSetsExt, TLC

CONSTANTS
  Written,        \* the packages a spreadsheet program writes
  Worksheets,     \* worksheet contents: row |-> column |-> cell
  PartNames,      \* names a worksheet part may be given
  StringParts,    \* names a part of shared strings may be given
  StringTables,   \* shared strings a part may be given
  Targets,        \* targets a relationship may be given
  SheetNames,     \* names of sheets
  RelationIds,    \* ids of relationships
  Fold,           \* casefold of a path segment
  XmlNames,       \* the path segments that end in .xml
  Schemas,        \* the schemas of the policy, a set
  Prohibited,     \* headers that hold a prohibited token
  MaxColumns,     \* limits.max_columns; a wider sheet is refused, and left out
  EditLimit       \* bound on the changes to a package

VARIABLES
  package,        \* the payload
  edits,          \* how often it was changed
  inspection      \* what inspect returned for it

xlsxVars == <<package, edits, inspection>>

----------------------------------------------------------------------------
(* What packages are made of.                                              *)

Paths == Seq(DOMAIN Fold)
ResolvedTargets == [path : Paths, absolute : BOOLEAN, external : BOOLEAN]
Relations == [id : RelationIds, type : {"worksheet", "sharedStrings", "styles"},
              target : ResolvedTargets]
Sheets == [name : SheetNames, id : RelationIds]
SharedPart == <<"xl", "sharedStrings.xml">>
Folded(name) == [i \in DOMAIN name |-> Fold[name[i]]]
\* what the content model takes for shared strings, in any letter case
IsStringsName(name) == Folded(name) = <<"xl", "sharedstrings.xml">>

IsGrid(w) == \A r \in DOMAIN w : /\ DOMAIN w[r] \subseteq 1..MaxColumns
                                 /\ \A c \in DOMAIN w[r] : w[r][c].index \in Nat
\* parts that are no worksheets have no cells
IsBlank(w) ==
  \A r \in DOMAIN w : \A c \in DOMAIN w[r] :
     w[r][c].index = 0 /\ w[r][c].text = "" /\ ~w[r][c].formula

IsPart(name, part) ==
  /\ DOMAIN part = {"at", "size", "descriptor", "sheet", "strings"}
  /\ part.at \in Nat /\ part.size \in Nat \ {0} /\ part.descriptor \in Nat
  /\ IsGrid(part.sheet)
  /\ Len(name) < 3 => IsBlank(part.sheet)
  /\ part.strings # <<>> => IsStringsName(name)

IsPackage(p) ==
  /\ DOMAIN p = {"parts", "central", "wrapper", "sheets", "relations"}
  /\ IsFiniteSet(DOMAIN p.parts) /\ DOMAIN p.parts \subseteq Paths
  /\ \A n \in DOMAIN p.parts : IsPart(n, p.parts[n])
  /\ p.central \in Nat
  /\ p.sheets \in Seq(Sheets)
  /\ p.relations \in Seq(Relations)

ASSUME PackageAssumption ==
  /\ \A p \in Written : IsPackage(p)
  /\ \A w \in Worksheets : IsGrid(w)
  /\ PartNames \subseteq {n \in Paths : Len(n) >= 3}
  /\ StringParts \subseteq {n \in Paths : IsStringsName(n)}
  /\ Targets \subseteq ResolvedTargets
ASSUME FoldAssumption == Fold["xl"] = "xl"
ASSUME SchemaAssumption == \A s \in Schemas : s.headers \in Seq(STRING)
ASSUME ColumnAssumption == MaxColumns \in Nat

----------------------------------------------------------------------------
(* The archive.                                                            *)

Names(p) == {Folded(n) : n \in DOMAIN p.parts}
WorkbookPart == <<"xl", "workbook.xml">>

\* _validate_local_records: the part's record ends where the next one, or
\* the central directory, begins
NextOffset(p, n) ==
  Min({p.central} \cup {p.parts[o].at : o \in {o \in DOMAIN p.parts \ {n} :
                                               p.parts[o].at >= p.parts[n].at}})
Tiled(p) ==
  /\ \E n \in DOMAIN p.parts : p.parts[n].at = 0
  /\ \A n \in DOMAIN p.parts :
       p.parts[n].at + p.parts[n].size + p.parts[n].descriptor = NextOffset(p, n)

\* _extract_workbook
PackageKind(p) == IF p.wrapper = "none" THEN "XLSX" ELSE "ZIP_XLSX"
Extracted(p) == p.wrapper # "several"

\* _validate_archive: no two names that differ only by case
NamesUnique(p) == Cardinality(Names(p)) = Cardinality(DOMAIN p.parts)

\* the parts that every package has, and those without cells, are left out
AllowedParts == {WorkbookPart, <<"xl", "sharedstrings.xml">>, <<"xl", "styles.xml">>}
\* slip: the pattern of worksheet parts searched for instead of full-matched
EndsInWorksheet(name) ==
  \/ name \in AllowedParts
  \/ Len(name) >= 3 /\ name[Len(name) - 1] = "worksheets" /\ name[Len(name)] \in XmlNames
\* _ALLOWED_EXACT_PARTS, _WORKSHEET_PART
IsWorksheetPart(name) ==
  Len(name) = 3 /\ name[1] = "xl" /\ name[2] = "worksheets" /\ name[3] \in XmlNames
ModelledPart(name) == name \in AllowedParts \/ IsWorksheetPart(name)
PackagePartsModelled(p) == \A n \in Names(p) : ModelledPart(n)

\* what the readers of cells take for a worksheet: a prefix and a suffix
InWorksheetFolder(name) ==
  Len(name) >= 3 /\ name[1] = "xl" /\ name[2] = "worksheets" /\ name[Len(name)] \in XmlNames

----------------------------------------------------------------------------
(* The relationships, resolved once by the check and once by the reader.   *)

Proper(path) == path # <<>> /\ \A i \in DOMAIN path : path[i] \notin {"", ".", ".."}
ReferencedIds(p) == {p.sheets[i].id : i \in DOMAIN p.sheets}

\* _workbook_target
WorkbookTarget(t) == <<"xl">> \o Folded(t.path)

AuxiliaryTargets == [sharedStrings |-> <<"xl", "sharedstrings.xml">>,
                     styles |-> <<"xl", "styles.xml">>]

\* validate_relationships
RelationshipsValid(p) ==
  LET R == DOMAIN p.relations
      Target(i) == WorkbookTarget(p.relations[i].target)
      IsSheet(i) == p.relations[i].type = "worksheet"
  IN  /\ \A i \in R : LET t == p.relations[i].target
                      IN  ~t.external /\ ~t.absolute /\ Proper(t.path)
      /\ Cardinality(ReferencedIds(p)) = Len(p.sheets)
      /\ \A i, j \in R : i # j => /\ p.relations[i].id # p.relations[j].id
                                  /\ Target(i) # Target(j)
      /\ \A i \in R : Target(i) \in Names(p)
      /\ \A i \in R : ~IsSheet(i) =>
           /\ p.relations[i].id \notin ReferencedIds(p)
           /\ Target(i) = AuxiliaryTargets[p.relations[i].type]
      /\ {p.relations[i].id : i \in {i \in R : IsSheet(i)}} = ReferencedIds(p)

\* _relationship_target, the reader's
RelationshipTarget(t) ==
  IF t.absolute \/ (t.path # <<>> /\ t.path[1] = "xl") THEN t.path
  ELSE <<"xl">> \o t.path

SheetPaths(p) ==
  [s \in DOMAIN p.sheets |->
     LET i == CHOOSE i \in DOMAIN p.relations : p.relations[i].id = p.sheets[s].id
     IN  RelationshipTarget(p.relations[i].target)]

\* the topology checks of _workbook_shape; getinfo distinguishes case
TopologyValid(p) ==
  LET paths == SheetPaths(p)
      folded == {Folded(paths[s]) : s \in DOMAIN paths}
  IN  /\ p.sheets # <<>>
      /\ Cardinality({p.sheets[s].name : s \in DOMAIN p.sheets}) = Len(p.sheets)
      /\ \A s \in DOMAIN paths : Proper(paths[s])
      /\ Cardinality(folded) = Len(p.sheets)
      /\ folded = {n \in Names(p) : InWorksheetFolder(n)}
      /\ \A s \in DOMAIN paths : paths[s] \in DOMAIN p.parts

----------------------------------------------------------------------------
(* Cells.  A cell has a text of its own or, with index > 0, a shared one.  *)

Cells(sheet) == UNION {{r} \X DOMAIN sheet[r] : r \in DOMAIN sheet}
\* the part is looked for under one spelling, though the checks of part
\* names, relationships and content admit any
SharedStrings(p) == IF SharedPart \in DOMAIN p.parts THEN p.parts[SharedPart].strings ELSE <<>>

\* validate_cell_structures: every reference exists, every string is used
SharedStringsUsed(p) ==
  LET sheets == {p.parts[n].sheet : n \in {n \in DOMAIN p.parts : InWorksheetFolder(Folded(n))}}
      used == (UNION {{w[x[1]][x[2]].index : x \in Cells(w)} : w \in sheets}) \ {0}
  IN  used = DOMAIN SharedStrings(p)

Text(p, cell) == IF cell.index > 0 THEN SharedStrings(p)[cell.index] ELSE cell.text
HasContent(p, cell) == cell.formula \/ Text(p, cell) # ""

\* _parse_worksheet
ContentCells(p, sheet) == {x \in Cells(sheet) : HasContent(p, sheet[x[1]][x[2]])}
NonemptyRows(p, sheet) == {x[1] : x \in ContentCells(p, sheet)}
FormulaCount(sheet) == Cardinality({x \in Cells(sheet) : sheet[x[1]][x[2]].formula})
MaxUsedColumn(p, sheet) == Max({0} \cup {x[2] : x \in ContentCells(p, sheet)})

----------------------------------------------------------------------------
(* The shape of the workbook, and the schemas.                             *)

Candidates(p) == {s \in Schemas : s.kind = PackageKind(p)}

\* the first sheet some candidate names, else the first sheet
Selected(p) ==
  LET named == {i \in DOMAIN p.sheets : \E s \in Candidates(p) : s.sheet = p.sheets[i].name}
  IN  IF named = {} THEN 1 ELSE Min(named)

HeaderRow(p) ==
  LET rows == {s.row : s \in {s \in Candidates(p) : s.sheet = p.sheets[Selected(p)].name}}
  IN  IF rows = {} THEN 1 ELSE Min(rows)

Headers(p, sheet) ==
  LET row == sheet[HeaderRow(p)]
  IN  [c \in 1..Max(DOMAIN row) |-> IF c \in DOMAIN row THEN Text(p, row[c]) ELSE ""]

HeaderValid(p, sheet) ==
  /\ HeaderRow(p) \in DOMAIN sheet
  /\ DOMAIN sheet[HeaderRow(p)] # {}
  /\ \A c \in DOMAIN Headers(p, sheet) : Headers(p, sheet)[c] # ""

\* _workbook_shape
Shape(p) ==
  LET paths == SheetPaths(p)
      sheet == p.parts[paths[Selected(p)]].sheet
      others == {p.parts[paths[i]].sheet : i \in DOMAIN paths \ {Selected(p)}}
  IN  [name |-> p.sheets[Selected(p)].name,
       count |-> Len(p.sheets),
       headers |-> Headers(p, sheet),
       used |-> MaxUsedColumn(p, sheet),
       unmodelled |-> \E w \in others : ContentCells(p, w) # {},
       rows |-> Cardinality({r \in NonemptyRows(p, sheet) : r > HeaderRow(p)}),
       formulas |-> FormulaCount(sheet)]

\* header_sha256 and column_count are both determined by the headers
Matches(p, shape) ==
  {s \in Candidates(p) : /\ shape.name = s.sheet
                         /\ shape.count = s.sheets
                         /\ HeaderRow(p) = s.row
                         /\ shape.headers = s.headers
                         /\ shape.used <= Len(s.headers)
                         /\ ~shape.unmodelled
                         /\ shape.rows \in s.minRows..s.maxRows
                         /\ shape.formulas <= s.formulas}

NoSchema == "NO_SCHEMA"
Matched(p, shape) ==
  LET matches == Matches(p, shape)
      prohibited == \E c \in DOMAIN shape.headers : shape.headers[c] \in Prohibited
  IN  IF Cardinality(matches) = 1 /\ ~prohibited THEN (CHOOSE s \in matches : TRUE).id
      ELSE NoSchema

\* the checks in inspect's order; what follows reads what they passed
Accepted(p) ==
  /\ Tiled(p)
  /\ Extracted(p)
  /\ WorkbookPart \in DOMAIN p.parts
  /\ NamesUnique(p)
  /\ PackagePartsModelled(p)
  /\ RelationshipsValid(p)
  /\ SharedStringsUsed(p)
  /\ TopologyValid(p)
  /\ HeaderValid(p, p.parts[SheetPaths(p)[Selected(p)]].sheet)

Pending == [state |-> "pending", matched |-> NoSchema]
Inspect ==
  /\ inspection = Pending
  /\ inspection' = IF Accepted(package)
                   THEN [state |-> "returned", matched |-> Matched(package, Shape(package))]
                   ELSE [state |-> "raised", matched |-> NoSchema]
  /\ UNCHANGED <<package, edits>>

----------------------------------------------------------------------------
(* Packages: what programs write, and changes other programs make.         *)

NewPart(p, sheet, strings) ==
  [at |-> p.central, size |-> 2, descriptor |-> 0, sheet |-> sheet, strings |-> strings]
AddPart(p, name, part) ==
  [p EXCEPT !.parts = [n \in DOMAIN @ \cup {name} |-> IF n = name THEN part ELSE @[n]],
            !.central = @ + 2]
WithSheet(p, name, id, target) ==
  [p EXCEPT !.sheets = Append(@, [name |-> name, id |-> id]),
            !.relations = Append(@, [id |-> id, type |-> "worksheet", target |-> target])]

WithPart(p, name, part) == [p EXCEPT !.parts = [@ EXCEPT ![name] = part]]
WithRelation(p, i, relation) == [p EXCEPT !.relations = [@ EXCEPT ![i] = relation]]
WithSheetAt(p, i, sheet) == [p EXCEPT !.sheets = [@ EXCEPT ![i] = sheet]]

ChangedParts(p) ==
       {AddPart(p, n, NewPart(p, w, <<>>)) : n \in PartNames \ DOMAIN p.parts, w \in Worksheets}
  \cup {AddPart(p, n, NewPart(p, <<>>, t)) : n \in StringParts \ DOMAIN p.parts, t \in StringTables}
  \cup {WithPart(p, n, [p.parts[n] EXCEPT !.sheet = w]) :
          n \in {m \in DOMAIN p.parts : Len(m) >= 3}, w \in Worksheets}
ChangedSheets(p) ==
       {WithSheetAt(p, i, [p.sheets[i] EXCEPT !.name = s]) : i \in DOMAIN p.sheets, s \in SheetNames}
  \cup {WithSheet(p, s, r, t) : s \in SheetNames, r \in RelationIds, t \in Targets}
ChangedRelations(p) ==
       {WithRelation(p, i, [p.relations[i] EXCEPT !.target = t]) :
          i \in DOMAIN p.relations, t \in Targets}
  \cup {WithRelation(p, i, [p.relations[i] EXCEPT !.id = r]) :
          i \in DOMAIN p.relations, r \in RelationIds}
ChangedRecords(p) ==
       {WithPart(p, n, [p.parts[n] EXCEPT !.descriptor = 1]) : n \in DOMAIN p.parts}
  \cup {WithPart(p, n, [p.parts[n] EXCEPT !.at = @ + 1]) : n \in DOMAIN p.parts}
ChangedArchive(p) ==
  {[p EXCEPT !.central = @ + 1]} \cup {[p EXCEPT !.wrapper = w] : w \in {"none", "single", "several"}}

Changed(p) == ChangedParts(p) \cup ChangedSheets(p) \cup ChangedRelations(p)
              \cup ChangedRecords(p) \cup ChangedArchive(p)

ChangePackage ==
  /\ inspection = Pending
  /\ edits < EditLimit
  /\ edits' = edits + 1
  /\ package' \in Changed(package)
  /\ UNCHANGED inspection

XlsxInit ==
  /\ package \in Written
  /\ edits = 0
  /\ inspection = Pending

XlsxNext == Inspect \/ ChangePackage
XlsxSpec == XlsxInit /\ [][XlsxNext]_xlsxVars

----------------------------------------------------------------------------
(* What a matched schema promises about the bytes.                         *)

Span(part) == part.at..(part.at + part.size + part.descriptor - 1)

\* the part a relationship of the workbook means: its target is relative to
\* the workbook's folder
PartOf(p, id) ==
  {n \in DOMAIN p.parts : \E i \in DOMAIN p.relations :
     /\ p.relations[i].id = id
     /\ n = <<"xl">> \o p.relations[i].target.path}

\* all content of p, cells and the shared strings the readers find, is in
\* part n
HoldsOnly(p, n) ==
  /\ \A o \in DOMAIN p.parts \ {n} : ContentCells(p, p.parts[o].sheet) = {}
  /\ LET sheet == p.parts[n].sheet
     IN  {k \in DOMAIN SharedStrings(p) : SharedStrings(p)[k] # ""}
           \subseteq {sheet[x[1]][x[2]].index : x \in Cells(sheet)}

\* the sheet is as s describes it
Fits(s, p, sheet) ==
  LET cells == ContentCells(p, sheet)
  IN  /\ \A c \in 1..Len(s.headers) : Text(p, sheet[s.row][c]) = s.headers[c]
      /\ \A x \in cells : x[2] <= Len(s.headers)
      /\ Cardinality({x[1] : x \in {x \in cells : x[1] > s.row}}) \in s.minRows..s.maxRows
      /\ FormulaCount(sheet) <= s.formulas

Describes(s, p) ==
  \E i \in DOMAIN p.sheets : \E n \in PartOf(p, p.sheets[i].id) :
    p.sheets[i].name = s.sheet /\ HoldsOnly(p, n) /\ Fits(s, p, p.parts[n].sheet)

\* The hazard: the checks and the reader resolve names by different rules
\* (relative or absolute, folded or not), and only the list of allowed parts
\* makes their answers agree.
\* When inspect matches a schema, every byte before the central directory is
\* in exactly one part, and all content of the package, cells of any part and
\* the strings of xl/sharedStrings.xml, is in the one part that the workbook's
\* relationships give the schema's sheet, with the schema's header, columns
\* and row count.  Strings under that name in another letter case are not
\* spoken of: EverySharedStringIsUsed does not hold.
MatchedIsAllThereIs ==
  inspection.matched # NoSchema =>
    /\ \A b \in 0..(package.central - 1) :
         Cardinality({n \in DOMAIN package.parts : b \in Span(package.parts[n])}) = 1
    /\ \E s \in Schemas : s.id = inspection.matched /\ Describes(s, package)

\* No package with a shared string that no cell uses is matched
\* (tests/test_p16_rt_shared_strings.py, test_unreferenced_shared_string_is_rejected),
\* whatever the letter case of the part it is in.
EverySharedStringIsUsed ==
  inspection.matched # NoSchema =>
    \A n \in DOMAIN package.parts : \A k \in DOMAIN package.parts[n].strings :
      \E o \in DOMAIN package.parts : LET sheet == package.parts[o].sheet
                                     IN  \E x \in Cells(sheet) : sheet[x[1]][x[2]].index = k

=============================================================================
