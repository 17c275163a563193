------------------------------ MODULE ScriptSyntax ------------------------------
(***************************************************************************)
(* SQL scripts as InterBase reads them: procedures, triggers, WITH and     *)
(* other statements as trees, spelled as the sequence of tokens that the   *)
(* analyses see.  The language is not part of this repository.  This module*)
(* says what each occurrence of a name denotes (means) and whether it is   *)
(* wrong, so that what the analyses make of the tokens can be compared with*)
(* it.                                                                     *)
(*                                                                         *)
(* A name stands for its key: an unquoted name folds, one in Delimited is  *)
(* quoted.  In SQL a local is written with a colon and a bare name is a    *)
(* column; a query sees its own sources, then those of the queries around, *)
(* a procedure itself, and a query of a WITH the CTEs before it.           *)
(* A table under an alias is no longer called by its name.                 *)
(***************************************************************************)
EXTENDS Integers, Sequences, SequencesExt, FiniteSetsExt, TLC

CONSTANT Delimited   \* the names that are written in quotes

Denotes(as, of, wrong) == [as |-> as, of |-> of, wrong |-> wrong]
Token(is, key, means)  == <<[is |-> is, key |-> key, means |-> means, ends |-> FALSE]>>
Word(w)    == Token("word", w, Denotes("word", <<>>, ""))
Sign(c)    == Token(c, "", Denotes("sign", <<>>, ""))
Value      == Token("value", "", Denotes("value", <<>>, ""))
Name(k, m) == Token(IF k \in Delimited THEN "quoted" ELSE "word", k, m)
Semicolon  == Sign(";")

Separated(parts, sep) == FlattenSeq([i \in DOMAIN parts |-> IF i = 1 THEN parts[i] ELSE sep \o parts[i]])
Words(ws)  == FlattenSeq([i \in DOMAIN ws |-> Word(ws[i])])
Parens(s)  == Sign("(") \o s \o Sign(")")
Given(condition, tokens) == IF condition THEN tokens ELSE <<>>
Many(parts) == parts # <<>>

-----------------------------------------------------------------------------
(* Trees.  An absent part is the empty sequence or the empty name.         *)

Literal          == [is |-> "value"]
Local(n)         == [is |-> "local", name |-> n]
Column(of, c)    == [is |-> "column", of |-> of, name |-> c]
Row(which, c)    == [is |-> "row", which |-> which, name |-> c]
Star(of)         == [is |-> "star", of |-> of]
Call(f, args)    == [is |-> "call", name |-> f, args |-> args]
Compare(l, r)    == [is |-> "compare", args |-> <<l, r>>]
When(test, e)    == [is |-> "case", args |-> <<test, e>>]
Scalar(q)        == [is |-> "scalar", query |-> q]
Exists(q)        == [is |-> "exists", query |-> q]
Among(l, q)      == [is |-> "among", left |-> l, query |-> q]
Extract(e)       == [is |-> "extract", expr |-> e]     \* of procedural code

Item(e)               == [expr |-> e, alias |-> "", as |-> FALSE]
ItemAs(e, alias)      == [expr |-> e, alias |-> alias, as |-> TRUE]
ItemCalled(e, alias)  == [expr |-> e, alias |-> alias, as |-> FALSE]

Table(rel, alias)     == [rel |-> rel, alias |-> alias, query |-> <<>>, args |-> <<>>, join |-> ",", on |-> <<>>]
Derived(q, alias)     == [Table("", alias) EXCEPT !.query = <<q>>]
Selectable(p, args, alias) == [Table(p, alias) EXCEPT !.args = args]
Joined(source, on)    == [source EXCEPT !.join = "JOIN", !.on = <<on>>]

Select(items, from)   == [items |-> items, from |-> from, first |-> FALSE, where |-> <<>>, having |-> <<>>, order |-> <<>>,
                          into |-> <<>>, early |-> FALSE, union |-> <<>>, rows |-> FALSE]
Where(q, e)           == [q EXCEPT !.where = <<e>>]
Into(q, targets)      == [q EXCEPT !.into = targets]
Union(q, r)           == [q EXCEPT !.union = <<r>>]

\* A target of INTO or RETURNING_VALUES, with or without its colon.
Target(n, colon) == [name |-> n, colon |-> colon]

Assign(n, e)             == [is |-> "assign", name |-> n, expr |-> e]
IfThen(e, s)             == [is |-> "IF", test |-> e, body |-> s]
WhileDo(e, s)            == [is |-> "WHILE", test |-> e, body |-> s]
ForSelect(q, s)          == [is |-> "for", query |-> q, body |-> s]
Fetch(q)                 == [is |-> "select", query |-> q]
InsertValues(rel, cs, es) == [is |-> "values", rel |-> rel, columns |-> cs, exprs |-> es]
InsertSelect(rel, cs, q) == [is |-> "insert", rel |-> rel, columns |-> cs, query |-> q]
Update(rel, c, e, where) == [is |-> "update", rel |-> rel, column |-> c, expr |-> e, where |-> where]
Delete(rel, where)       == [is |-> "delete", rel |-> rel, where |-> where]
Execute(p, args, into)   == [is |-> "execute", name |-> p, args |-> args, into |-> into]
Dynamic(n)               == [is |-> "dynamic", name |-> n]
Block(ss)                == [is |-> "block", statements |-> ss]
Broken(q)                == [is |-> "broken", query |-> q]     \* "SELECT a, FROM ..."

\* Units of a script.  A declaration may lack its type or its semicolon.
Declared(n, how)  == [name |-> n, how |-> how]
Procedure(head, p, inputs, outputs, locals, body) ==
  [is |-> "procedure", head |-> head, name |-> p, inputs |-> inputs, outputs |-> outputs, locals |-> locals, body |-> body]
Trigger(head, g, rel, locals, body) ==
  [is |-> "trigger", head |-> head, name |-> g, rel |-> rel, locals |-> locals, body |-> body]
Plainly(s)        == [is |-> "statement", statement |-> s]
With(ctes, q)     == [is |-> "with", ctes |-> ctes, query |-> q]
Cte(n, columns, q) == [name |-> n, columns |-> columns, query |-> q]
Ddl(verb, rel, columns) == [is |-> "ddl", verb |-> verb, name |-> rel, columns |-> columns]

-----------------------------------------------------------------------------
(* What names mean.  A place: the database (name -> its columns), the      *)
(* number of the unit, the names declared, the relation of NEW and OLD,    *)
(* whether it is in SQL, the sources of the queries around it, nearest     *)
(* first, the role of a query written here, names an ORDER BY may use, and *)
(* a path that tells places apart.                                         *)

Anything == {"*"}
NameOfItem(item) == IF item.alias # "" THEN item.alias ELSE IF item.expr.is = "column" THEN item.expr.name ELSE ""
ColumnsOf(db, rel) == IF rel \in DOMAIN db THEN db[rel] ELSE Anything

RECURSIVE ColumnsOfSource(_, _)
ColumnsOfItem(db, q, item) ==
  IF item.expr.is # "star" THEN {NameOfItem(item)}
  ELSE UNION {ColumnsOfSource(db, q.from[k]) : k \in {n \in DOMAIN q.from : item.expr.of \in {"", q.from[n].alias, q.from[n].rel}}}
ColumnsOfQuery(db, q) == UNION {ColumnsOfItem(db, q, q.items[i]) : i \in DOMAIN q.items}
ColumnsOfSource(db, s) == IF Many(s.query) THEN ColumnsOfQuery(db, s.query[1]) ELSE ColumnsOf(db, s.rel)

Called(s) == IF s.alias # "" THEN s.alias ELSE s.rel
SourceAt(db, s, at, k) == [called |-> Called(s), id |-> Append(at, k), aliased |-> s.alias # "", columns |-> ColumnsOfSource(db, s)]
Open(s) == "*" \in s.columns
Has(s, c) == c \in s.columns \/ Open(s)

\* The sources of the nearest query that has one of those wanted.
NearestHits(scopes, Wanted(_)) ==
  LET having == {n \in DOMAIN scopes : \E s \in ToSet(scopes[n]) : Wanted(s)}
  IN IF having = {} THEN {} ELSE {s \in ToSet(scopes[Min(having)]) : Wanted(s)}

ColumnMeans(place, of, c) ==
  LET hits == NearestHits(place.scopes, LAMBDA s : IF of = "" THEN Has(s, c) ELSE s.called = of)
      wrong == IF of = "" /\ c \in place.outputs THEN ""
               ELSE IF hits = {} THEN IF of = "" THEN "interbase-unknown-column" ELSE ""
               ELSE IF \E s \in hits : Open(s) THEN ""
               ELSE IF \A s \in hits : ~Has(s, c) THEN "interbase-unknown-column"
               ELSE IF of = "" /\ \E s, t \in hits : s # t THEN "interbase-ambiguous-column" ELSE ""
  IN Denotes("column", <<>>, wrong)
QualifierMeans(place, of) ==
  LET hits == NearestHits(place.scopes, LAMBDA s : s.called = of)
  IN IF hits = {} THEN Denotes("alias", <<>>, "interbase-unknown-qualifier")
     ELSE LET s == CHOOSE s \in hits : TRUE IN Denotes("alias", IF s.aliased THEN s.id ELSE <<>>, "")
LocalMeans(place, use, n) == Denotes(use, <<place.unit, n>>, IF n \in place.locals THEN "" ELSE "interbase-unknown-variable")
RelationMeans(place, rel) == Denotes("relation", <<>>, IF rel \in DOMAIN place.db THEN "" ELSE "interbase-unknown-relation")
FieldMeans(place, rel, c) ==
  Denotes("column", <<>>, IF ColumnsOf(place.db, rel) \cap {c, "*"} = {} THEN "interbase-unknown-column" ELSE "")

InSQL(place)  == [place EXCEPT !.sql = TRUE]
At(place, n)  == [place EXCEPT !.at = Append(@, n)]
\* Where a query would be written next: its role, its name and its predicate.
Role(place, role, called)  == [place EXCEPT !.role = <<role, called, "">>]
Predicate(place, p) == IF place.role[1] \in {"where", "having", "join"} THEN [place EXCEPT !.role[3] = p] ELSE place
NoPredicate(place)  == [place EXCEPT !.role[3] = ""]
Nameless(place)     == [place EXCEPT !.role[2] = ""]

-----------------------------------------------------------------------------
(* Spelling.                                                               *)

RECURSIVE SpellExpression(_, _), SpellQuery(_, _)

SpellLocal(place, use, n, colon) == Given(colon, Sign(":")) \o Name(n, LocalMeans(place, use, n))
SpellTargets(place, targets) ==
  Separated([k \in DOMAIN targets |-> SpellLocal(place, "written", targets[k].name, targets[k].colon)], Sign(","))
SpellArgs(place, n, args) ==
  Separated([k \in DOMAIN args |-> SpellExpression(args[k], NoPredicate(Nameless(At(place, n + k))))], Sign(","))

SpellExpression(e, place) ==
  CASE e.is = "value"   -> Value
    [] e.is = "star"    -> Given(e.of # "", Name(e.of, QualifierMeans(place, e.of)) \o Sign(".")) \o Sign("*")
    [] e.is = "local"   -> SpellLocal(place, "local", e.name, place.sql)
    [] e.is = "column"  -> Given(e.of # "", Name(e.of, QualifierMeans(place, e.of)) \o Sign("."))
                           \o Name(e.name, ColumnMeans(place, e.of, e.name))
    [] e.is = "row"     -> Name(e.which, Denotes("row", <<>>, "")) \o Sign(".") \o Name(e.name, FieldMeans(place, place.row, e.name))
    [] e.is = "call"    -> Name(e.name, Denotes("function", <<>>, "")) \o Parens(SpellArgs(place, 0, e.args))
    [] e.is = "compare" -> SpellExpression(e.args[1], Nameless(At(place, 1))) \o Sign("=") \o SpellExpression(e.args[2], Nameless(At(place, 2)))
    [] e.is = "case"    -> Words(<<"CASE", "WHEN">>) \o SpellExpression(e.args[1], Nameless(At(place, 1))) \o Word("THEN")
                           \o SpellExpression(e.args[2], Nameless(At(place, 2))) \o Word("END")
    [] e.is = "scalar"  -> Parens(SpellQuery(e.query, At(place, 1)))
    [] e.is = "exists"  -> Word("EXISTS") \o Parens(SpellQuery(e.query, Predicate(At(place, 1), "EXISTS")))
    [] e.is = "among"   -> SpellExpression(e.left, Nameless(At(place, 1))) \o Word("IN") \o Parens(SpellQuery(e.query, Predicate(At(place, 2), "IN")))
    [] e.is = "extract" -> Word("EXTRACT") \o Parens(Words(<<"YEAR", "FROM">>) \o SpellExpression(e.expr, Nameless(At(place, 1))))

SpellSource(s, k, place, inner) ==
  Given(k > 1, IF s.join = "," THEN Sign(",") ELSE Word(s.join))
  \o (IF Many(s.query) THEN Parens(SpellQuery(s.query[1], Role(At(place, k), "derived", s.alias))) ELSE Name(s.rel, RelationMeans(place, s.rel)))
  \o Given(Many(s.args), Parens(SpellArgs(place, 10 * k, s.args)))
  \o Given(s.alias # "", Name(s.alias, Denotes("declared", Append(place.at, k), "")))
  \o Given(Many(s.on), Word("ON") \o FlattenSeq([n \in DOMAIN s.on |-> SpellExpression(s.on[n], Role(At(inner, 20 + k), "join", ""))]))

SpellItem(item, i, inner) ==
  SpellExpression(item.expr, Role(At(inner, 60 + i), "column", item.alias))
  \o Given(item.as, Word("AS")) \o Given(item.alias # "", Name(item.alias, Denotes("output", <<>>, "")))

SpellQuery(q, place) ==
  LET outer == [InSQL(place) EXCEPT !.outputs = {}]
      inner == [outer EXCEPT !.scopes = <<[k \in DOMAIN q.from |-> SourceAt(place.db, q.from[k], place.at, k)]>> \o @]
      Part(es, n, role, words, at) == Given(Many(es), Words(words) \o FlattenSeq([k \in DOMAIN es |-> SpellExpression(es[k], Role(At(at, n), role, ""))]))
      into  == Given(Many(q.into), Word("INTO") \o SpellTargets(place, q.into))
      \* The order of a union is by the names of its first query.
      names == IF place.role[1] = "union" THEN place.outputs ELSE {NameOfItem(q.items[i]) : i \in DOMAIN q.items}
  IN Token("word", "SELECT", Denotes("query", place.role, ""))
     \o Given(q.first, Word("FIRST") \o Value)
     \o Separated([i \in DOMAIN q.items |-> SpellItem(q.items[i], i, inner)], Sign(","))
     \o Given(q.early, into)
     \o Word("FROM") \o FlattenSeq([k \in DOMAIN q.from |-> SpellSource(q.from[k], k, outer, inner)])
     \o Part(q.where, 80, "where", <<"WHERE">>, inner)
     \o Part(q.having, 81, "having", <<"GROUP", "BY", "ID", "HAVING">>, inner)
     \o Given(Many(q.union), Word("UNION")
              \o FlattenSeq([k \in DOMAIN q.union |-> SpellQuery(q.union[k], [Role(At(place, 82), "union", "") EXCEPT !.outputs = names])]))
     \o Part(q.order, 83, "other", <<"ORDER", "BY">>, [inner EXCEPT !.outputs = names])
     \o Given(q.rows, Word("ROWS") \o Value)
     \o Given(~q.early, into)

\* The columns of the table a statement writes.
SpellFields(place, rel, cs) == Separated([k \in DOMAIN cs |-> Name(cs[k], FieldMeans(place, rel, cs[k]))], Sign(","))
Writing(place, rel) == [InSQL(place) EXCEPT !.scopes = <<<<[called |-> rel, id |-> <<>>, aliased |-> FALSE, columns |-> ColumnsOf(place.db, rel)]>>>>]
SpellRelation(place, rel) == Name(rel, RelationMeans(place, rel))
SpellWhere(place, rel, where) ==
  Given(Many(where), Word("WHERE") \o FlattenSeq([k \in DOMAIN where |-> SpellExpression(where[k], Role(At(Writing(place, rel), 3), "where", ""))]))

RECURSIVE SpellStatement(_, _)
SpellStatement(s, place) ==
  CASE s.is = "assign"  -> SpellLocal(place, "written", s.name, FALSE) \o Sign("=") \o SpellExpression(s.expr, At(place, 1)) \o Semicolon
    [] s.is \in {"IF", "WHILE"} ->
         Word(s.is) \o Parens(SpellExpression(s.test, At(place, 1))) \o Word(IF s.is = "IF" THEN "THEN" ELSE "DO") \o SpellStatement(s.body, At(place, 2))
    [] s.is = "for"     -> Word("FOR") \o SpellQuery(s.query, At(place, 1)) \o Word("DO") \o SpellStatement(s.body, At(place, 2))
    [] s.is = "select"  -> SpellQuery(s.query, At(place, 1)) \o Semicolon
    [] s.is = "values"  -> Words(<<"INSERT", "INTO">>) \o SpellRelation(place, s.rel) \o Parens(SpellFields(place, s.rel, s.columns))
                           \o Word("VALUES") \o Parens(SpellArgs(Role(InSQL(place), "other", ""), 0, s.exprs)) \o Semicolon
    [] s.is = "insert"  -> Words(<<"INSERT", "INTO">>) \o SpellRelation(place, s.rel) \o Parens(SpellFields(place, s.rel, s.columns))
                           \o SpellQuery(s.query, At(place, 1)) \o Semicolon
    [] s.is = "update"  -> Word("UPDATE") \o SpellRelation(place, s.rel) \o Word("SET") \o SpellFields(place, s.rel, <<s.column>>) \o Sign("=")
                           \o SpellExpression(s.expr, Role(At(Writing(place, s.rel), 1), "other", "")) \o SpellWhere(place, s.rel, s.where) \o Semicolon
    [] s.is = "delete"  -> Words(<<"DELETE", "FROM">>) \o SpellRelation(place, s.rel) \o SpellWhere(place, s.rel, s.where) \o Semicolon
    [] s.is = "execute" -> Words(<<"EXECUTE", "PROCEDURE">>) \o Name(s.name, Denotes("procedure", <<>>, "")) \o SpellArgs(place, 0, s.args)
                           \o Given(Many(s.into), Word("RETURNING_VALUES") \o SpellTargets(place, s.into)) \o Semicolon
    [] s.is = "dynamic" -> Words(<<"EXECUTE", "STATEMENT">>) \o SpellLocal(place, "local", s.name, TRUE) \o Semicolon
    [] s.is = "block"   -> Word("BEGIN") \o FlattenSeq([k \in DOMAIN s.statements |-> SpellStatement(s.statements[k], At(place, k))]) \o Word("END")
    [] s.is = "broken"  -> LET t == SpellQuery(s.query, At(place, 1))  f == CHOOSE i \in DOMAIN t : t[i].key = "FROM"
                           IN SubSeq(t, 1, f - 1) \o Sign(",") \o SubSeq(t, f, Len(t)) \o Semicolon

\* Declarations, in order; a name declared before is wrong.
Earlier(ds, k) == {ds[n].name : n \in 1..k - 1}
DeclaredName(place, ds, k) ==
  Name(ds[k].name, Denotes("variable", <<place.unit, ds[k].name>>, IF ds[k].name \in Earlier(ds, k) THEN "interbase-duplicate-declaration" ELSE ""))
Typed(d) == Given(d.how # "untyped", Word("INTEGER"))
SpellParameters(place, ds, from, to) == Parens(Separated([k \in 1..to - from + 1 |-> DeclaredName(place, ds, from + k - 1) \o Typed(ds[from + k - 1])], Sign(",")))
SpellLocals(place, ds, from, to) ==
  FlattenSeq([k \in 1..to - from + 1 |-> Words(<<"DECLARE", "VARIABLE">>) \o DeclaredName(place, ds, from + k - 1) \o Typed(ds[from + k - 1])
                                         \o Given(ds[from + k - 1].how # "unended", Semicolon)])
Knowing(place, ds) == [place EXCEPT !.locals = {ds[k].name : k \in DOMAIN ds}]

\* The database after a unit.
After(u, db) ==
  CASE u.is = "procedure" -> u.name :> {u.outputs[k].name : k \in DOMAIN u.outputs} @@ db
    [] u.is = "ddl" /\ u.verb = "CREATE" -> u.name :> ToSet(u.columns) @@ db
    [] u.is = "ddl" /\ u.verb = "ALTER"  -> u.name :> (ColumnsOf(db, u.name) \cup ToSet(u.columns)) @@ db
    [] u.is = "ddl" /\ u.verb = "DROP"   -> [n \in DOMAIN db \ {u.name} |-> db[n]]
    [] OTHER -> db

SpellUnit(u, place) ==
  CASE u.is = "statement" -> Front(SpellStatement(u.statement, place))
    [] u.is = "procedure" ->
         LET ds == u.inputs \o u.outputs \o u.locals
             i == Len(u.inputs)  o == i + Len(u.outputs)
         IN Words(u.head) \o Word("PROCEDURE") \o Name(u.name, Denotes("procedure", <<>>, ""))
            \o Given(Many(u.inputs), SpellParameters(place, ds, 1, i))
            \o Given(Many(u.outputs), Word("RETURNS") \o SpellParameters(place, ds, i + 1, o))
            \o Word("AS") \o SpellLocals(place, ds, o + 1, Len(ds))
            \o SpellStatement(u.body, [Knowing(place, ds) EXCEPT !.db = After(u, @)])
    [] u.is = "trigger" ->
         Word(u.head) \o Word("TRIGGER") \o Name(u.name, Denotes("trigger", <<>>, ""))
         \o Given(u.head = "CREATE", Word("FOR") \o Name(u.rel, RelationMeans(place, u.rel)) \o Words(<<"BEFORE", "INSERT">>))
         \o Word("AS") \o SpellLocals(place, u.locals, 1, Len(u.locals)) \o SpellStatement(u.body, [Knowing(place, u.locals) EXCEPT !.row = u.rel])
    [] u.is = "with" ->
         LET Names(c, db) == IF Many(c.columns) THEN ToSet(c.columns) ELSE ColumnsOfQuery(db, c.query)
             \* A query sees the CTEs before it, the last one all.
             Known[n \in 0..Len(u.ctes)] ==
               IF n = 0 THEN place.db ELSE u.ctes[n].name :> Names(u.ctes[n], Known[n - 1]) @@ Known[n - 1]
         IN Word("WITH")
            \o Separated([k \in DOMAIN u.ctes |->
                 Name(u.ctes[k].name, Denotes("cte", <<>>, ""))
                 \o Given(Many(u.ctes[k].columns), Parens(Separated([n \in DOMAIN u.ctes[k].columns |-> Name(u.ctes[k].columns[n], Denotes("output", <<>>, ""))], Sign(","))))
                 \o Word("AS") \o Parens(SpellQuery(u.ctes[k].query, At([place EXCEPT !.db = Known[k - 1]], k)))], Sign(","))
            \o SpellQuery(u.query, At([place EXCEPT !.db = Known[Len(u.ctes)]], 0))
    [] u.is = "ddl" -> Words(<<u.verb, "TABLE">>) \o Name(u.name, Denotes("relation", <<>>, ""))
                       \o Given(u.verb = "CREATE", Parens(Separated([k \in DOMAIN u.columns |-> Name(u.columns[k], Denotes("output", <<>>, "")) \o Word("INTEGER")], Sign(","))))
                       \o Given(u.verb = "ALTER", Word("ADD") \o Name(u.columns[1], Denotes("output", <<>>, "")) \o Word("INTEGER"))

Outside(db, n) == [db |-> db, unit |-> n, locals |-> {}, row |-> "", sql |-> FALSE, scopes |-> <<>>, role |-> <<"main", "", "">>, outputs |-> {}, at |-> <<n>>]

\* The units follow each other with semicolons, or with a terminator that SET TERM
\* set, which is no token.
RECURSIVE SpellUnits(_, _, _, _)
SpellUnits(units, db, term, n) ==
  IF units = <<>> THEN <<>>
  ELSE LET t == SpellUnit(Head(units), Outside(db, n))
       IN (IF term THEN [t EXCEPT ![Len(t)].ends = TRUE] ELSE t \o Semicolon) \o SpellUnits(Tail(units), After(Head(units), db), term, n + 1)
SpellScript(units, db, term) == SpellUnits(units, db, term, 1)
=================================================================================
