------------------------------- MODULE ProcedureSyntax -------------------------------
(***************************************************************************)
(* The statements of a procedure, twice: as the flow analysis tells them   *)
(* apart (flowNode and parseStatement of                                   *)
(* internal/sqlsymbol/diagnostic_flow.go), and as the trees that           *)
(* assignments are and the tokens they are written with.                   *)
(***************************************************************************)
EXTENDS Naturals, Sequences, SequencesExt

(* --------------------------------- flow --------------------------------- *)

\* A statement says which locals it reads and writes, whether it calls a function,
\* whether a SELECT may find no row, which locals a test shows not to be NULL in its
\* branches, and the statements inside it.
Bare == [kind |-> "noop", reads |-> {}, writes |-> {}, call |-> FALSE, oneRow |-> FALSE,
         then |-> {}, else |-> {}, tested |-> {}, rows |-> FALSE, body |-> <<>>, otherwise |-> <<>>]
Set(x, reads)        == [Bare EXCEPT !.kind = "set", !.writes = {x}, !.reads = reads]
Call(x)              == [Set(x, {}) EXCEPT !.call = TRUE]
SelectInto(xs, one)  == [Bare EXCEPT !.kind = "select", !.writes = xs, !.oneRow = one]
Sql(reads, writes)   == [Bare EXCEPT !.kind = "sql", !.reads = reads, !.writes = writes]
Suspend              == [Bare EXCEPT !.kind = "suspend"]
Exit                 == [Bare EXCEPT !.kind = "exit"]
Block(body)          == [Bare EXCEPT !.kind = "block", !.body = body]
While(reads, body)   == [Bare EXCEPT !.kind = "loop", !.reads = reads, !.body = <<body>>]
ForSelect(xs, body)  == [Bare EXCEPT !.kind = "loop", !.writes = xs, !.rows = TRUE, !.body = <<body>>]
When(body)           == [Bare EXCEPT !.kind = "when", !.body = <<body>>]
If(reads, call, s, t) == [Bare EXCEPT !.kind = "if", !.reads = reads, !.call = call, !.body = <<s>>, !.otherwise = t]
\* IF (x IS NULL) and IF (x IS NOT NULL): the branch where x is known not to be
\* NULL; a tested read is never reported.
IfNull(x, s, t)    == [If({x}, FALSE, s, t) EXCEPT !.tested = {x}, !.else = {x}]
IfNotNull(x, s, t) == [If({x}, FALSE, s, t) EXCEPT !.tested = {x}, !.then = {x}]

(* ------------------------------ expressions ----------------------------- *)

\* "||" is one token, and so are a literal, a type and the condition of a CASE.
Node(op, word, by, args) == [op |-> op, word |-> word, by |-> by, args |-> args]
Null            == Node("null", "NULL", "", <<>>)
Num(w)          == Node("num", w, "", <<>>)
Neg(w)          == Node("neg", w, "", <<>>)
Str(w)          == Node("str", w, "", <<>>)
Name(q, w)      == Node("name", w, q, <<>>)
Param(w)        == Node("param", w, "", <<>>)
Op(op, a, b)    == Node(op, "", "", <<a, b>>)
CastTo(e, t)    == Node("cast", "", t, <<e>>)
Cases(results)  == Node("case", "", "", results)     \* without an ELSE
CasesElse(results) == Node("else", "", "", results)  \* the last is the ELSE
Coalesce(args)  == Node("coalesce", "", "", args)
Substr(e, n)    == Node("substr", "", n, <<e>>)
TrimOf(e)       == Node("trim", "", "", <<e>>)

Binary == {"+", "-", "*", "/", "||"}
Binding == [op \in Binary |-> CASE op \in {"+", "-"} -> 1 [] op \in {"*", "/"} -> 2 [] op = "||" -> 3]
\* Whether an operand needs parentheses under op.
Looser(e, op, right) ==
  e.op \in Binary /\ (Binding[e.op] < Binding[op] \/ (right /\ Binding[e.op] = Binding[op]) \/ (op = "||" /\ e.op # "||"))

Commas(parts) == FlattenSeq([k \in DOMAIN parts |-> IF k = 1 THEN parts[k] ELSE <<",">> \o parts[k]])
Parens(s) == <<"(">> \o s \o <<")">>

RECURSIVE Spell(_)
Operand(e, op, right) == IF Looser(e, op, right) THEN Parens(Spell(e)) ELSE Spell(e)
Whens(results) == FlattenSeq([k \in DOMAIN results |-> <<"WHEN", "COND", "THEN">> \o Spell(results[k])])
Spell(e) ==
  CASE e.op \in {"null", "num", "str"} -> <<e.word>>
    [] e.op = "neg"   -> <<"-", e.word>>
    [] e.op = "name"  -> IF e.by = "" THEN <<e.word>> ELSE <<e.by, ".", e.word>>
    [] e.op = "param" -> <<":", e.word>>
    [] e.op \in Binary -> Operand(e.args[1], e.op, FALSE) \o <<e.op>> \o Operand(e.args[2], e.op, TRUE)
    [] e.op = "cast"  -> <<"CAST">> \o Parens(Spell(e.args[1]) \o <<"AS", e.by>>)
    [] e.op = "case"  -> <<"CASE">> \o Whens(e.args) \o <<"END">>
    [] e.op = "else"  -> <<"CASE">> \o Whens(Front(e.args)) \o <<"ELSE">> \o Spell(Last(e.args)) \o <<"END">>
    [] e.op = "coalesce" -> <<"COALESCE">> \o Parens(Commas([k \in DOMAIN e.args |-> Spell(e.args[k])]))
    [] e.op = "substr" -> <<"SUBSTRING">> \o Parens(Spell(e.args[1]) \o <<"FROM", "1", "FOR", e.by>>)
    [] e.op = "trim"  -> <<"TRIM">> \o Parens(Spell(e.args[1]))

(* ------------------------------ assignments ----------------------------- *)

\* targets get sources, one by one; rel is the table that is written; from and
\* outer are the relations of the query that yields the sources and of the one
\* around it; tested is a column the WHERE says IS NOT NULL.
Source(name, alias, left) == [name |-> name, alias |-> alias, left |-> left]
Statement(kind, rel, targets, sources) ==
  [kind |-> kind, rel |-> rel, targets |-> targets, sources |-> sources,
   from |-> <<>>, outer |-> <<>>, tested |-> Null]
Assign(v, e)             == Statement("set", "", <<v>>, <<e>>)
Update(rel, cols, es)    == Statement("update", rel, cols, es)
InsertValues(rel, cols, es) == Statement("values", rel, cols, es)
InsertSelect(rel, cols, es, from) == [Statement("select", rel, cols, es) EXCEPT !.from = from]
SelectIntoVars(vs, es, from) == [Statement("into", "", vs, es) EXCEPT !.from = from]
CallWith(es)             == Statement("call", "", <<>>, es)
CallBare(es)             == Statement("bare", "", <<>>, es)
Returning(vs)            == Statement("returning", "", vs, <<>>)
NewField(rel, col, e)    == Statement("new", rel, <<col>>, <<e>>)
NotIn(e, from, outer)    == [Statement("notin", "", <<>>, <<e>>) EXCEPT !.from = from, !.outer = outer]

SpellFrom(from) ==
  FlattenSeq([k \in DOMAIN from |->
    (IF k = 1 THEN <<>> ELSE IF from[k].left THEN <<"LEFT", "JOIN">> ELSE <<",">>)
    \o (IF from[k].alias = from[k].name THEN <<from[k].name>> ELSE <<from[k].name, from[k].alias>>)
    \o (IF from[k].left THEN <<"ON", "COND">> ELSE <<>>)])
SpellWhere(tested) == IF tested = Null THEN <<>> ELSE <<"WHERE">> \o Spell(tested) \o <<"IS", "NOT", "NULL">>
SpellQuery(st, into) ==
  <<"SELECT">> \o Commas([k \in DOMAIN st.sources |-> Spell(st.sources[k])]) \o into
  \o <<"FROM">> \o SpellFrom(st.from) \o SpellWhere(st.tested)

SpellColumns(st) == Parens(Commas([k \in DOMAIN st.targets |-> <<st.targets[k]>>]))
SpellValues(st) == Commas([k \in DOMAIN st.sources |-> Spell(st.sources[k])])
SpellStatement(st) ==
  (CASE st.kind = "set"    -> <<st.targets[1], "=">> \o Spell(st.sources[1])
     [] st.kind = "update" -> <<"UPDATE", st.rel, "SET">>
                              \o Commas([k \in DOMAIN st.targets |-> <<st.targets[k], "=">> \o Spell(st.sources[k])])
                              \o SpellWhere(st.tested)
     [] st.kind = "values" -> <<"INSERT", "INTO", st.rel>> \o SpellColumns(st) \o <<"VALUES">> \o Parens(SpellValues(st))
     [] st.kind = "select" -> <<"INSERT", "INTO", st.rel>> \o SpellColumns(st) \o SpellQuery(st, <<>>)
     [] st.kind = "into"   -> SpellQuery(st, <<"INTO">> \o Commas([k \in DOMAIN st.targets |-> <<":", st.targets[k]>>]))
     [] st.kind = "call"   -> <<"EXECUTE", "PROCEDURE", "P">> \o Parens(SpellValues(st))
     [] st.kind = "bare"   -> <<"EXECUTE", "PROCEDURE", "P">> \o SpellValues(st)
     [] st.kind = "returning" -> <<"EXECUTE", "PROCEDURE", "P", "RETURNING_VALUES">>
                                 \o Commas([k \in DOMAIN st.targets |-> <<":", st.targets[k]>>])
     [] st.kind = "new"    -> <<"NEW", ".", st.targets[1], "=">> \o Spell(st.sources[1])
     [] st.kind = "notin"  -> <<"SELECT", "*", "FROM">> \o SpellFrom(st.outer) \o <<"WHERE", "LEFT_SIDE", "NOT", "IN">>
                              \o Parens(SpellQuery(st, <<>>))) \o <<";">>
======================================================================================
