------------------------------ MODULE MCFiles ------------------------------
(***************************************************************************)
(* The two readers of whole files, the import of a CSV file into the proof *)
(* ledger and the inspection of an XLSX package.  They share no state: a   *)
(* behaviour exercises one of them, chosen at the start, and the other     *)
(* stays at its initial state.                                             *)
(***************************************************************************)
EXTENDS MCProofPipeline, MCXlsxInspection

VARIABLE part

filesVars == <<part, vars, xlsxVars>>

FilesInit ==
  /\ part \in {"proof", "workbook"}
  /\ Init
  /\ XlsxInit /\ (part # "workbook" => package = Plain)

FilesNext ==
  /\ UNCHANGED part
  /\ \/ part = "proof" /\ Next /\ UNCHANGED xlsxVars
     \/ part = "workbook" /\ XlsxNext /\ UNCHANGED vars

FilesSpec == FilesInit /\ [][FilesNext]_filesVars
=============================================================================
