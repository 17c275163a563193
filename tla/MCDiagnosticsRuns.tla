--------------------------- MODULE MCDiagnosticsRuns ---------------------------
(***************************************************************************)
(* The scheduling of diagnostics, and beside it the analyses that a        *)
(* document gets, told apart by part: the flow of a procedure, SELECTs that*)
(* must return one row, assignments, names, and what locals and aliases    *)
(* are bound to.  The variables of Diagnostics are those of the scheduling;*)
(* the analyses share s1, ..., s10.                                        *)
(***************************************************************************)
EXTENDS Diagnostics, MCDiagnosticsData

CONSTANTS
  d1,
  Prepared   \* the scripts whose names are checked, and those that are renamed in

VARIABLES part, s1, s2, s3, s4, s5, s6, s7, s8, s9, s10
slots == <<s1, s2, s3, s4, s5, s6, s7, s8, s9, s10>>
runVars == <<vars, part, slots>>

Flow == INSTANCE FlowAnalysis WITH
  Local <- Locals, Output <- {"o"}, Procedure <- Procedures,
  proc <- s1, report <- s2, todo <- s3, value <- s4, assigned <- s5, sure <- s6, store <- s7, raised <- s8,
  missed <- s9, wrong <- s10

Singleton == INSTANCE SingletonSelect WITH
  Column <- QueryColumns, Query <- Queries, Contents <- TableContents, query <- s1, tables <- s2

Assigning == INSTANCE Assignments WITH
  Unit <- 100, Number <- NumberTokens, Text <- TextTokens, Base <- BaseTypes, Domain <- DomainTypes, MaxDomains <- 2,
  Local <- LocalTypes, Catalog <- CatalogColumns, Actual <- ActualColumns, Altered <- {"S"},
  Input <- <<"SMALLINT", "CHAR2">>, Output <- <<"NUMERIC1", "INTEGER">>, Statements <- AssignmentStatements,
  statement <- s1, claims <- s2

Written == INSTANCE MCScriptData WITH Delimited <- {"w", "q", "u"}
PreparedScripts ==
  LET clear == Written!ClearScripts
  IN [clear |-> clear, checked |-> clear \cup Written!DoubtfulScripts, renamable |-> Written!Renamable]

Checking == INSTANCE NameChecks WITH
  Scripts <- Prepared.checked, Clear <- Prepared.clear, Keywords <- Written!KeywordsUsed, SystemNames <- {"RDB$R"},
  Tables <- Written!TableColumns, Views <- Written!ViewColumns, StoredProcedures <- Written!ProcedureOutputs,
  StoredTriggers <- Written!TriggerRelations, Folded <- Written!FoldedNames, script <- s1, ready <- s2

Naming == INSTANCE SymbolBinding WITH
  Scripts <- Prepared.renamable, NewNames <- Written!AskedNames, Reserved <- Written!ReservedWords, MaxRenames <- 2,
  source <- s1, text <- s2, renames <- s3

\* FreeN: the slots from the Nth on are not used.
Free4 == s4 = 0 /\ s5 = 0 /\ s6 = 0 /\ s7 = 0 /\ s8 = 0 /\ s9 = 0 /\ s10 = 0
Free3 == s3 = 0 /\ Free4
Free1 == s1 = 0 /\ s2 = 0 /\ Free3
Keep4 == UNCHANGED <<s4, s5, s6, s7, s8, s9, s10>>
Keep3 == UNCHANGED s3 /\ Keep4

RunInit ==
  /\ Init
  /\ \/ part = "scheduling"  /\ Free1
     \/ part = "flow"        /\ Flow!FlowInit
     \/ part = "singleton"   /\ Singleton!SingletonInit /\ Free3
     \/ part = "assignments" /\ Assigning!AssignmentInit /\ Free3
     \/ part = "names"       /\ Checking!NameInit /\ Free3
     \/ part = "binding"     /\ Naming!BindingInit /\ Free4

Analyses ==
  \/ part = "flow"        /\ Flow!FlowNext
  \/ part = "assignments" /\ Assigning!Judge /\ Keep3
  \/ part = "names"       /\ Checking!NameNext /\ Keep3
  \/ part = "binding"     /\ Naming!BindingNext /\ Keep4

\* An analysis ends; the scheduling does not.
AnalysisEnds == part # "scheduling" /\ UNCHANGED slots

RunNext ==
  /\ UNCHANGED part
  /\ \/ part = "scheduling" /\ Next /\ UNCHANGED slots
     \/ (Analyses \/ AnalysisEnds) /\ UNCHANGED vars

RunSpec == RunInit /\ [][RunNext]_runVars /\ Fairness

\* Runs bear out the flow findings (analyzeFlowScope), unless an exception diverts
\* them: a handler after EXIT is called unreachable, see FlowAnalysis; the assignments
\* bear out what is said of them (valueDiagnostics, widthDiagnostics), except of widths
\* where a relation is read that the document has altered (ReadsAltered), see
\* Assignments; what the names of a script denote bears out what is said of them
\* (nameFindings, localFindings), except of those that are IsMisjudged or Overlooked:
\* the name of a procedure in its own body, tables behind a CTE of their name, INTO
\* targets without a colon, clause words taken for aliases, and locals after a
\* procedural FROM or named as LIMIT is, see NameChecks; and the SELECTs that the
\* singleton check finds nothing against return at most one row (keysBound), see
\* SingletonSelect.  Each exception occurs in the inputs.
FindingsAreBorneOut ==
  /\ part = "flow" => Flow!ReportMeetsTheRun
  /\ part = "singleton" => Singleton!SafeMeansOneRow
  /\ part = "assignments" => Assigning!FindingsHold
  /\ part = "names" => Checking!NamesAreJudgedRight

\* References, renames, alias definitions and the outline follow what the names of a
\* script denote, and a rename changes nothing of that (Analysis.Rename,
\* interBaseAliasDefinition, QueryOutline); see SymbolBinding.  References and renames
\* pass over the occurrences of a local that are Overlooked: after a procedural FROM,
\* and under a name such as LIMIT, which a rename may give.  Both occur in the inputs.
SymbolsAreWhatTheyName == part = "binding" => Naming!SymbolsAreWhatTheyName
=============================================================================
