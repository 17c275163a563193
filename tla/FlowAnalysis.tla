------------------------------ MODULE FlowAnalysis ------------------------------
(***************************************************************************)
(* The flow diagnostics of procedures and triggers                         *)
(* (internal/sqlsymbol/diagnostic_flow.go), beside the procedures they     *)
(* speak of: a procedure is chosen, its report is computed the way         *)
(* analyzeFlowScope does, and then the procedure runs in every possible    *)
(* way, so that what the report claims can be held against what happens.   *)
(*                                                                         *)
(* A statement is a record; its place in the procedure is the path of      *)
(* child numbers that leads to it.  Tokens are left out: a statement says  *)
(* which locals it reads and writes, whether it calls a function and       *)
(* whether the parser can complete it.  How a procedure runs is InterBase's*)
(* doing and not the program's: the actions model it from what the         *)
(* analysis takes for granted.  The bounds on nodes, work and paths, which *)
(* abandon a procedure without a finding, are left out.                    *)
(***************************************************************************)
EXTENDS ProcedureSyntax, Naturals, Sequences, FiniteSets, SequencesExt, FiniteSetsExt

CONSTANTS
  Local,      \* variables and output parameters
  Output,     \* the output parameters among them: Output \subseteq Local
  Procedure   \* the bodies: block statements

(* ------------------------------ the report ------------------------------ *)

\* The parser's node for a statement: what it does not model is "unknown".
NodeKind(s) == CASE s.kind \in {"sql", "when"} -> "unknown" [] OTHER -> s.kind

\* An abstract state: what is known of every local, and whether EXIT was reached.
Start == [known |-> [x \in Local |-> "none"], terminated |-> FALSE]
Marked(st, xs) == [st EXCEPT !.known = [x \in Local |-> IF x \in xs THEN "set" ELSE @[x]]]
Invalidated(st) == [st EXCEPT !.known = [x \in Local |-> "unknown"]]

Finding(code, path, x) == [code |-> code, path |-> path, local |-> x]
Going(sts) == {st \in sts : ~st.terminated}
ReadsOf(s, path, sts) ==
  {Finding("read", path, x) : x \in {y \in s.reads \ s.tested : \E st \in Going(sts) : st.known[y] = "none"}}
\* An output is reported at its declaration, wherever it was observed.
Observed(sts) ==
  {Finding("output", <<>>, x) : x \in {y \in Output : \E st \in Going(sts) : st.known[y] = "none"}}

\* What execute yields: the states after it and what it adds to the report.
Result(sts, found) == [states |-> sts, found |-> found]
Join(a, b) == Result(a.states \cup b.states, a.found \cup b.found)
AfterCall(s, sts) == IF s.call THEN (sts \ Going(sts)) \cup {Invalidated(st) : st \in Going(sts)} ELSE sts

\* A plausible mistake: a SELECT INTO is taken to find a row.
SelectedAlways(s, sts) == (sts \ Going(sts)) \cup {Marked(st, s.writes) : st \in Going(sts)}
\* No row leaves the targets of a SELECT INTO as they were.
Selected(s, sts) ==
  (IF s.oneRow THEN sts \ Going(sts) ELSE sts) \cup {Marked(st, s.writes) : st \in Going(sts)}

RECURSIVE Execute(_, _, _), ExecuteAll(_, _, _, _), Rounds(_, _, _, _, _)

\* executeSequence and the children of a block, which also notes where no state goes on.
ExecuteAll(body, path, n, sts) ==
  IF n > Len(body) THEN Result(sts, {})
  ELSE LET cut == IF sts # {} /\ Going(sts) = {} THEN {Finding("unreachable", Append(path, n), "")} ELSE {}
           one == Execute(body[n], Append(path, n), sts)
           rest == ExecuteAll(body, path, n + 1, one.states)
       IN Result(rest.states, cut \cup one.found \cup rest.found)

\* The back-edges of a loop, to a fixed point; a FOR SELECT assigns its targets.
Rounds(s, path, frontier, visited, acc) ==
  IF frontier = {} THEN acc
  ELSE LET one == ExecuteAll(s.body, path, 1, {IF s.rows THEN Marked(st, s.writes) ELSE st : st \in frontier})
       IN Rounds(s, path, Going(one.states) \ visited, visited \cup one.states, Join(acc, one))

Execute(s, path, sts) ==
  LET kind == NodeKind(s)
      found == ReadsOf(s, path, sts)
      entry == AfterCall(s, sts)
      over == Result(sts \ Going(sts), found)
      then == {Marked(st, s.then) : st \in Going(entry)}
      else == {Marked(st, s.else) : st \in Going(entry)}
  IN CASE kind = "block"   -> ExecuteAll(s.body, path, 1, sts)
       [] kind = "if"      -> Join(over, Join(ExecuteAll(s.body, Append(path, 1), 1, then),
                                              ExecuteAll(s.otherwise, Append(path, 2), 1, else)))
       [] kind = "loop"    -> Rounds(s, path, Going(entry), entry, Result(entry, found))
       [] kind = "set"     -> Join(over, Result({Marked(st, s.writes) : st \in Going(entry)}, {}))
       [] kind = "select"  -> Result(Selected(s, sts), found)
       [] kind = "suspend" -> Result(sts, Observed(sts))
       [] kind = "exit"    -> Result({[st EXCEPT !.terminated = TRUE] : st \in sts}, Observed(sts))
       [] kind = "unknown" -> Result(over.states \cup {Invalidated(st) : st \in Going(sts)}, {})
       [] OTHER            -> Result(sts, {})

\* findDeadStores: pending[x] is the last store of x in this basic block that
\* nothing has read; a block that is entered or left, a branch, a loop and an
\* unknown effect clear it, SUSPEND reads the outputs.
NonePending == [x \in Local |-> <<>>]
Scanned(pending, found, reachable) == [pending |-> pending, found |-> found, reachable |-> reachable]
Cleared(found, reachable) == Scanned(NonePending, found, reachable)

\* A plausible mistake: the read in x = x + 1 is not seen.
OverwrittenByItself(s, pending) == {Finding("dead", pending[x], x) : x \in {y \in s.writes : pending[y] # <<>>}}
Overwritten(s, pending) == {Finding("dead", pending[x], x) : x \in {y \in s.writes \ s.reads : pending[y] # <<>>}}

RECURSIVE Scan(_, _, _, _)
ScanStatement(s, path, pending) ==
  LET kind == NodeKind(s) IN
  CASE s.call -> Cleared({}, TRUE)
    [] kind = "set" -> Scanned([x \in Local |-> IF x \in s.writes THEN path ELSE IF x \in s.reads THEN <<>> ELSE pending[x]],
                               Overwritten(s, pending), TRUE)
    [] kind = "suspend" -> Scanned([x \in Local |-> IF x \in Output THEN <<>> ELSE pending[x]], {}, TRUE)
    [] kind = "noop" -> Scanned(pending, {}, TRUE)
    [] kind = "block" -> LET in == Scan(s.body, path, 1, NonePending) IN Cleared(in.found, in.reachable)
    [] kind = "if" -> LET a == Scan(s.body, Append(path, 1), 1, NonePending)
                          b == Scan(s.otherwise, Append(path, 2), 1, NonePending)
                      IN Cleared(a.found \cup b.found, a.reachable \/ b.reachable)
    [] kind = "loop" -> Cleared(Scan(s.body, path, 1, NonePending).found, TRUE)
    [] kind = "exit" -> Cleared({}, FALSE)
    [] OTHER -> Cleared({}, TRUE)
Scan(body, path, n, pending) ==
  IF n > Len(body) THEN Cleared({}, TRUE)
  ELSE LET one == ScanStatement(body[n], Append(path, n), pending)
           rest == IF one.reachable THEN Scan(body, path, n + 1, one.pending) ELSE Cleared({}, FALSE)
       IN Cleared(one.found \cup rest.found, rest.reachable)

\* analyzeFlowScope: what execute and the end of the body find, with the dead stores.
ReportOf(p) ==
  LET run == Execute(p, <<>>, {Start})
  IN UNION {run.found, Observed(run.states), Scan(p.body, <<>>, 1, NonePending).found}

(* ------------------------------ the machine ----------------------------- *)

VARIABLES
  proc,      \* the procedure
  report,    \* its report
  todo,      \* statements still to run, each [path, s]
  value,     \* of every local: "null" | "some"
  assigned,  \* the locals that were assigned
  sure,      \* nothing has run whose effects the analysis calls unknown
  store,     \* of every local: the path of the store whose value it holds and nothing has read
  raised,    \* an exception has diverted control
  missed,    \* reads and observations the report owed
  wrong      \* findings the run refutes
flowVars == <<proc, report, todo, value, assigned, sure, store, raised, missed, wrong>>

At(path, n, s) == [path |-> Append(path, n), s |-> s]
Items(body, path) == [n \in DOMAIN body |-> At(path, n, body[n])]
Now == Head(todo).s
Here == Head(todo).path
Runs(kind) == todo # <<>> /\ Now.kind = kind

FlowInit ==
  /\ proc \in Procedure /\ report = ReportOf(proc)
  /\ todo = <<[path |-> <<>>, s |-> proc], At(<<>>, 0, [Bare EXCEPT !.kind = "end"])>>
  /\ value = [x \in Local |-> "null"] /\ assigned = {} /\ sure = TRUE
  /\ store = [x \in Local |-> <<>>] /\ raised = FALSE /\ missed = {} /\ wrong = {}

\* The statement at Here uses the values of xs; owed is what the report should say.
Refuted(xs) == {f \in report : f.code = "dead" /\ f.local \in xs /\ f.path = store[f.local]}
Uses(xs, owed) ==
  /\ missed' = missed \cup (IF sure THEN owed \ report ELSE {})
  /\ wrong' = wrong \cup Refuted(xs) \cup {f \in report : f.code = "unreachable" /\ f.path = Here}
Stores(xs, read, v) ==
  /\ value' = [x \in Local |-> IF x \in xs THEN v[x] ELSE value[x]]
  /\ assigned' = assigned \cup xs
  /\ store' = [x \in Local |-> IF x \in xs THEN Here ELSE IF x \in read THEN <<>> ELSE store[x]]
Reads == {Finding("read", Here, x) : x \in Now.reads \ (Now.tested \cup assigned)}
Seen == {Finding("output", <<>>, x) : x \in Output \ assigned}

SetStatement ==
  /\ Runs("set")
  /\ Uses(Now.reads, Reads)
  /\ \E v \in [Now.writes -> {"null", "some"}] : Stores(Now.writes, Now.reads, v)
  /\ sure' = (sure /\ ~Now.call) /\ todo' = Tail(todo) /\ UNCHANGED <<proc, report, raised>>

\* No row leaves the targets as they are.
SelectStatement ==
  /\ Runs("select")
  /\ Uses(Now.reads, Reads)
  /\ \E row \in {TRUE, Now.oneRow} :
       \E v \in [Now.writes -> {"null", "some"}] : Stores(IF row THEN Now.writes ELSE {}, Now.reads, v)
  /\ todo' = Tail(todo) /\ UNCHANGED <<proc, report, sure, raised>>

SqlStatement ==
  /\ Runs("sql")
  /\ Uses(Now.reads, {})
  /\ \E v \in [Now.writes -> {"null", "some"}] : Stores(Now.writes, Now.reads, v)
  /\ sure' = FALSE /\ todo' = Tail(todo) /\ UNCHANGED <<proc, report, raised>>

EnterBlock ==
  /\ Runs("block")
  /\ Uses({}, {}) /\ Stores({}, {}, value)
  /\ todo' = Items(Now.body, Here) \o Tail(todo) /\ UNCHANGED <<proc, report, sure, raised>>

Branch ==
  /\ Runs("if")
  /\ Uses(Now.reads, Reads) /\ Stores({}, Now.reads, value)
  /\ sure' = (sure /\ ~Now.call)
  /\ \/ /\ \A x \in Now.then : value[x] = "some"
        /\ \A x \in Now.else : value[x] = "null"
        /\ todo' = Items(Now.body, Append(Here, 1)) \o Tail(todo)
     \/ /\ \A x \in Now.then : value[x] = "null"
        /\ \A x \in Now.else : value[x] = "some"
        /\ todo' = Items(Now.otherwise, Append(Here, 2)) \o Tail(todo)
  /\ UNCHANGED <<proc, report, raised>>

Iterate ==
  /\ Runs("loop")
  /\ Uses(Now.reads, Reads) /\ sure' = (sure /\ ~Now.call)
  /\ \/ \E v \in [Now.writes -> {"null", "some"}] :
          /\ Stores(Now.writes, Now.reads, v)
          /\ todo' = Items(Now.body, Here) \o todo
     \/ Stores({}, Now.reads, value) /\ todo' = Tail(todo)
  /\ UNCHANGED <<proc, report, raised>>

SuspendStatement ==
  /\ Runs("suspend")
  /\ Uses(Output, Seen) /\ Stores({}, Output, value)
  /\ todo' = Tail(todo) /\ UNCHANGED <<proc, report, sure, raised>>

\* EXIT and the end of the body return the outputs.
Leave ==
  /\ Runs("exit") \/ Runs("end")
  /\ Uses(Output, Seen) /\ Stores({}, Output, value)
  /\ todo' = <<>> /\ UNCHANGED <<proc, report, sure, raised>>

\* Control passes an empty statement; it passes a handler by.
PassBy ==
  /\ Runs("noop") \/ Runs("when")
  /\ IF Now.kind = "noop" THEN Uses({}, {}) ELSE UNCHANGED <<missed, wrong>>
  /\ sure' = (sure /\ Now.kind = "noop")
  /\ Stores({}, {}, value) /\ todo' = Tail(todo) /\ UNCHANGED <<proc, report, raised>>

\* The statement fails and the nearest handler that is still to come runs.
Raise ==
  /\ todo # <<>> /\ Now.kind \in {"set", "select", "sql"} /\ ~raised
  /\ \E n \in DOMAIN todo :
       /\ todo[n].s.kind = "when" /\ \A m \in 1..n - 1 : todo[m].s.kind # "when"
       /\ todo' = <<At(todo[n].path, 1, todo[n].s.body[1])>> \o SubSeq(todo, n + 1, Len(todo))
       /\ wrong' = wrong \cup {f \in report : f.code = "unreachable" /\ f.path = todo[n].path}
  /\ raised' = TRUE /\ sure' = FALSE
  /\ UNCHANGED <<proc, report, value, assigned, store, missed>>

FlowNext == \/ SetStatement \/ SelectStatement \/ SqlStatement \/ EnterBlock \/ Branch \/ Iterate
            \/ SuspendStatement \/ Leave \/ PassBy \/ Raise

(* ------------------------------ properties ------------------------------ *)

\* Whatever happens when a procedure runs, the report told of it: a local that is
\* read, or an output that is returned, before anything assigned it was reported,
\* as long as nothing ran whose effects the analysis cannot know; and unless an
\* exception diverts control, a store reported dead is never read or observed
\* and a statement reported unreachable never runs.  An exception can: a WHEN handler
\* that follows an EXIT is reported (diagnostic_flow.go:882), and runs when a statement
\* before the EXIT raises one.
ReportMeetsTheRun == missed = {} /\ (~raised => wrong = {})
================================================================================
