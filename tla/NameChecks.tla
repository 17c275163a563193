------------------------------- MODULE NameChecks -------------------------------
(***************************************************************************)
(* What diagnostics say of the names in a script (internal/sqlsymbol:      *)
(* diagnostic_model.go, diagnostic_names.go, diagnostic_locals.go,         *)
(* diagnostic_expression_reads.go), given as much of the catalog as is     *)
(* loaded (language/semantic_catalog.go): a name is missing only where it  *)
(* is certain that it names nothing, some misreadings apart (IsMisjudged).  *)
(*                                                                         *)
(* A stale snapshot is one of which nothing is loaded.  Expressions stay   *)
(* within the token and depth budgets of the reader of expressions.  Left  *)
(* out are the identifiers that are never columns (of generators, character*)
(* sets and collations, and in PLAN) and the names suggested instead.      *)
(***************************************************************************)
EXTENDS SymbolAnalysis, TLC

CONSTANTS
  Scripts,           \* the scripts, as sequences of tokens
  Clear,             \* those where all that is wrong is said in the end
  Keywords,          \* the words that are keywords to the dialect
  SystemNames,       \* the names that start with RDB$ or MON$
  Tables, Views,     \* the catalog: name -> its columns, in order
  StoredProcedures,  \* name -> its outputs
  StoredTriggers,    \* name -> its relation
  Folded             \* quoted name -> the name it folds to

Kinds == {"relations", "views", "procedures", "columns", "triggers"}

VARIABLES
  script,   \* the script
  ready     \* the kinds of metadata that are loaded

nameVars == <<script, ready>>

-----------------------------------------------------------------------------
(* The catalog.                                                            *)

NameAt(t, i) == [key |-> t[i].key, quoted |-> IsSign(t, i, "quoted")]
\* The legacy maps hold one of the objects that fold alike, perhaps not this one.
IsDoubtful(n, objects) == n.quoted /\ n.key \in DOMAIN Folded /\ n.key \notin DOMAIN objects /\ Folded[n.key] \in DOMAIN objects

Unknown        == [knowledge |-> "unknown", known |-> FALSE, columns |-> <<>>]
Missing        == [Unknown EXCEPT !.knowledge = "missing"]
Listed         == [Unknown EXCEPT !.knowledge = "present"]
Present(names) == [knowledge |-> "present", known |-> TRUE, columns |-> names]

ProcedureInfo(n) ==
  IF n.key \in SystemNames \/ "procedures" \notin ready \/ IsDoubtful(n, StoredProcedures) THEN Unknown
  ELSE IF n.key \in DOMAIN StoredProcedures THEN Present(StoredProcedures[n.key])
  ELSE Missing
\* A plausible mistake: a relation that the relations category does not list is missing.
RelationInfoUnlisted(n) ==
  IF "relations" \in ready /\ n.key \notin DOMAIN Tables \cup DOMAIN Views /\ n.key \notin SystemNames THEN Missing ELSE Unknown
\* The relations category lists views as well as tables.
RelationInfo(n) ==
  LET listed == "relations" \in ready /\ n.key \in DOMAIN Tables \cup DOMAIN Views
      doubtful == "views" \in ready /\ IsDoubtful(n, Views)
  IN IF n.key \in SystemNames THEN Unknown
     ELSE IF "views" \in ready /\ n.key \in DOMAIN Views THEN Present(Views[n.key])
     ELSE IF listed
          THEN IF ~doubtful /\ {"views", "columns"} \subseteq ready THEN Present(Tables[n.key]) ELSE Listed
     ELSE IF doubtful \/ ~({"relations", "views", "procedures"} \subseteq ready) \/ ProcedureInfo(n) # Missing THEN Unknown
     ELSE Missing

-----------------------------------------------------------------------------
(* Statements, each up to a semicolon or a terminator that SET TERM set.   *)

DepthAfter(t, d, k) == IF IsSign(t, k, "(") THEN d[k] + 1 ELSE IF IsSign(t, k, ")") THEN d[k] - 1 ELSE d[k]
StatementFrom(t, d, i) ==
  LET After(k) == DepthAfter(t, d, k)
      stop == First({k \in i..Len(t) : IsSign(t, k, ";") \/ After(k) < d[i] \/ (t[k].ends /\ After(k) = d[i])}, Len(t) + 1)
      ends == First({k \in i..Len(t) : IsSign(t, k, ";") \/ t[k].ends}, Len(t) + 1)
      malformed == After(Min({stop, Len(t)})) # d[i]
      last == IF malformed THEN ends ELSE stop
  IN [start |-> i, malformed |-> malformed, end |-> IF IsSign(t, last, ";") \/ last > Len(t) THEN last ELSE last + 1]
RECURSIVE StatementsFrom(_, _, _)
StatementsFrom(t, d, i) ==
  IF i > Len(t) THEN <<>>
  ELSE LET s == StatementFrom(t, d, i) IN <<s>> \o StatementsFrom(t, d, IF IsSign(t, s.end, ";") THEN s.end + 1 ELSE s.end)
StatementAt(statements, i) ==
  LET here == {n \in DOMAIN statements : statements[n].start <= i /\ i < statements[n].end}
  IN IF here = {} THEN 0 ELSE CHOOSE n \in here : TRUE

\* The name that a CREATE, ALTER or DROP is about, of which the catalog then says
\* nothing certain.
ObjectKinds == {"TABLE", "VIEW", "PROCEDURE", "DOMAIN", "TRIGGER", "INDEX", "GENERATOR", "SEQUENCE", "EXCEPTION", "ROLE", "FUNCTION", "PACKAGE"}
DDLName(t, s) ==
  LET from == IF IsWord(t, s.start, "CREATE") /\ IsWord(t, s.start + 1, "OR") /\ IsWord(t, s.start + 2, "ALTER") THEN s.start + 3 ELSE s.start + 1
      kinds == {k \in from..Min({s.end - 1, s.start + 5}) : IsOneOf(t, k, ObjectKinds)}
      at == Min(kinds)
      on == IF IsName(t, at + 1) THEN at + 2 ELSE at + 1
      i == IF ~IsWord(t, at, "INDEX") THEN at + 1 ELSE IF IsWord(t, on, "ON") THEN on + 1 ELSE on
  IN IF ~s.malformed /\ IsOneOf(t, s.start, {"CREATE", "ALTER", "DROP"}) /\ kinds # {} /\ i < s.end /\ IsName(t, i)
     THEN {[key |-> t[i].key, start |-> s.start, end |-> s.end]} ELSE {}

-----------------------------------------------------------------------------
(* Triggers.                                                               *)

IsEvent(t, i) == IsOneOf(t, i, {"INSERT", "UPDATE", "DELETE"})
RECURSIVE EventsEnd(_, _)
EventsEnd(t, i) == IF IsWord(t, i, "OR") /\ IsEvent(t, i + 1) THEN EventsEnd(t, i + 2) ELSE i
\* What follows the clauses between a trigger's relation and its AS; 0 when they
\* are not understood.
ClausesEnd(t, i, alter) ==
  LET active == IF IsOneOf(t, i, {"ACTIVE", "INACTIVE"}) THEN i + 1 ELSE i
      timed == IsOneOf(t, active, {"BEFORE", "AFTER"})
      events == IF timed THEN EventsEnd(t, active + 2) ELSE active
      position == IsWord(t, events, "POSITION")
  IN IF (timed /\ ~IsEvent(t, active + 1)) \/ (~timed /\ ~alter) \/ (position /\ ~IsSign(t, events + 1, "value")) THEN 0
     ELSE IF position THEN events + 2 ELSE events

\* The declarations from i on: the names, and where the body is to begin (0 when one
\* is malformed).
RECURSIVE TriggerLocals(_, _)
TriggerLocals(t, i) ==
  LET end == First({k \in i + 3..Len(t) : IsSign(t, k, ";") \/ IsWord(t, k, "BEGIN")}, Len(t) + 1)
      rest == TriggerLocals(t, end + 1)
  IN IF ~IsWord(t, i, "DECLARE") THEN [names |-> <<>>, next |-> i]
     ELSE IF ~IsDeclaration(t, i) \/ ~HasName(t, i + 2) \/ ~TypeStarts(t, i + 3) \/ ~IsSign(t, end, ";") THEN [names |-> <<>>, next |-> 0]
     ELSE [names |-> <<i + 2>> \o rest.names, next |-> rest.next]

BodyEnd(t, b) ==
  LET Opens(k) == Cardinality({n \in b..k : IsOneOf(t, n, {"BEGIN", "CASE"})})
      Ends(k)  == Cardinality({n \in b..k : IsWord(t, n, "END")})
  IN First({k \in b + 1..Len(t) : Opens(k) = Ends(k)}, Len(t) + 1)

TriggerAt(t, i) ==
  LET alter == IsWord(t, i, "ALTER")
      header == IsName(t, i + 2)
                /\ (alter \/ (IsWord(t, i + 3, "FOR") /\ IsName(t, i + 4) /\ ~IsSign(t, i + 5, ".")))
      as == ClausesEnd(t, IF alter THEN i + 3 ELSE i + 5, alter)
      locals == TriggerLocals(t, as + 1)
      end == BodyEnd(t, locals.next)
  IN IF IsOneOf(t, i, {"CREATE", "ALTER"}) /\ IsWord(t, i + 1, "TRIGGER") /\ header /\ as # 0 /\ IsWord(t, as, "AS")
        /\ IsWord(t, locals.next, "BEGIN") /\ end <= Len(t)
     THEN <<[start |-> i, name |-> i + 2, relation |-> IF alter THEN 0 ELSE i + 4,
             locals |-> locals.names, from |-> locals.next, to |-> end]>>
     ELSE <<>>
Triggers(t) == FlattenSeq([i \in DOMAIN t |-> TriggerAt(t, i)])
InBody(trg, i) == trg.from <= i /\ i < trg.to

\* The SQL in a body: each token's kind, and whether it is a target of INTO.
Procedural == [Start EXCEPT !.kind = "procedural"]
BodyToken(t, d, s, i) ==
  LET sql == s.kind = "sql" /\ ~IsSign(t, i, ";")
      reset == [IF IsSign(t, i, ";") \/ (sql /\ IsWord(t, i, "DO")) THEN Procedural ELSE s EXCEPT !.depth = d[i]]
      begun == IF IsWord(t, i, "INTO") /\ reset.head # "INSERT"
               THEN [reset EXCEPT !.into = d[i], !.outputs = TRUE, !.output = TRUE] ELSE reset
      marks == NextTarget(t, TargetsEnd(t, begun, i), i)
      target == sql /\ IsOutput(t, marks, i)
      next == IF sql THEN [marks EXCEPT !.output = @ /\ ~target]
              ELSE IF reset.kind # "procedural" THEN reset
              ELSE IF IsOneOf(t, i, QueryWords) THEN [reset EXCEPT !.kind = "sql", !.head = t[i].key]
              ELSE IF IsOneOf(t, i, {"MERGE", "WITH"}) THEN [reset EXCEPT !.kind = "unsupported"]
              ELSE reset
  IN [at |-> next, kind |-> next.kind, output |-> target]
RECURSIVE BodyTokens(_, _, _, _, _)
BodyTokens(t, d, s, i, end) ==
  IF i >= end THEN <<>>
  ELSE LET b == BodyToken(t, d, s, i) IN <<[kind |-> b.kind, output |-> b.output]>> \o BodyTokens(t, d, b.at, i + 1, end)
\* Position -> kind.
Body(t, d, trg) == LET tokens == BodyTokens(t, d, Procedural, trg.from, trg.to) IN [i \in trg.from..trg.to - 1 |-> tokens[i - trg.from + 1]]

\* Where the SQL statements of a body start and end.
BodyStatements(t, body, trg) ==
  LET starts == {i \in DOMAIN body : i > trg.from /\ body[i].kind = "sql" /\ IsOneOf(t, i, QueryWords)}
      EndOf(i) == First({k \in i..trg.to - 1 : body[k].kind = "procedural"}, trg.to)
      first == {i \in starts : ~\E k \in starts : k < i /\ i < EndOf(k)}
  IN [n \in DOMAIN SetToSortSeq(first, <) |-> LET i == SetToSortSeq(first, <)[n] IN <<i, EndOf(i)>>]

-----------------------------------------------------------------------------
(* WITH statements whose queries have no other SELECT in them.             *)

SelectsIn(t, from, to) == {i \in from..to - 1 : IsWord(t, i, "SELECT")}
IsNameList(t, open, close) ==
  close > open + 1 /\ \A i \in open + 1..close - 1 : IF (i - open) % 2 = 1 THEN IsName(t, i) ELSE i < close - 1 /\ IsSign(t, i, ",")

NoCtes(i) == [ok |-> TRUE, queries |-> <<>>, final |-> i]
RECURSIVE CtesFrom(_, _, _, _, _)
CtesFrom(t, d, i, end, seen) ==
  LET list == IF IsSign(t, i + 1, "(") THEN Closing(t, d, i + 1) ELSE i
      as == IF list = i THEN i + 1 ELSE list + 1
      close == Closing(t, d, as + 1)
      columns == IF list = i THEN <<>> ELSE [k \in 1..(list - i - 1) \div 2 |-> t[i + 2 * k].key]
      rest == IF IsSign(t, close + 1, ",") THEN CtesFrom(t, d, close + 2, end, seen \cup {t[i].key}) ELSE NoCtes(close + 1)
  IN IF /\ i < end /\ IsName(t, i) /\ t[i].key \notin seen
        /\ list = i \/ (list < end /\ IsNameList(t, i + 1, list))
        /\ IsWord(t, as, "AS") /\ IsSign(t, as + 1, "(") /\ close < end
        /\ IsWord(t, as + 2, "SELECT") /\ SelectsIn(t, as + 3, close) = {}
     THEN [rest EXCEPT !.queries = <<[start |-> as + 2, end |-> close, base |-> d[as + 2], kind |-> "SELECT", parent |-> 0,
                                       cte |-> t[i].key, renamed |-> columns]>> \o @]
     ELSE [NoCtes(i) EXCEPT !.ok = FALSE]
WithQueries(t, d, s) ==
  LET with == CtesFrom(t, d, s.start + 1, s.end, {})
  IN IF ~s.malformed /\ s.start < s.end /\ IsWord(t, s.start, "WITH") /\ with.ok
        /\ with.final < s.end /\ IsWord(t, with.final, "SELECT") /\ SelectsIn(t, with.final + 1, s.end) = {}
     THEN Append(with.queries, [start |-> with.final, end |-> s.end, base |-> d[with.final], kind |-> "SELECT", parent |-> 0,
                                cte |-> "", renamed |-> <<>>])
     ELSE <<>>

-----------------------------------------------------------------------------
(* The model of a script.                                                  *)

\* The queries of a trigger's statement, after the given number of others.
StatementQueries(t, d, s, before) ==
  LET slice == SubSeq(t, s[1], s[2] - 1)
      qs == Discover(slice, SubSeq(d, s[1], s[2] - 1), [k \in DOMAIN slice |-> Context("sql", FALSE, FALSE)], 1, <<>>, <<>>)
  IN [k \in DOMAIN qs |-> [qs[k] EXCEPT !.start = @ + s[1] - 1, !.end = @ + s[1] - 1, !.parent = IF @ = 0 THEN 0 ELSE @ + before]]
Plain(qs) == [k \in DOMAIN qs |-> qs[k] @@ [cte |-> "", renamed |-> <<>>]]

\* Queries found in the body of a trigger are found again there; the parents of the
\* others keep the numbers they had among all.
ModelQueries(t, d, contexts, statements, triggers, bodies) ==
  LET others == SelectSeq(Queries(t, d, contexts), LAMBDA q : ~\E trg \in ToSet(triggers) : InBody(trg, q.start))
      own == Plain(others) \o FlattenSeq([n \in DOMAIN statements |-> WithQueries(t, d, statements[n])])
      inBodies == FlattenSeq([n \in DOMAIN triggers |-> BodyStatements(t, bodies[n], triggers[n])])
      all == FoldLeft(LAMBDA qs, s : qs \o Plain(StatementQueries(t, d, s, Len(qs))), own, inBodies)
  IN [k \in DOMAIN all |-> all[k] @@ [statement |-> StatementAt(statements, all[k].start)]]

ModelOf(t, a, triggers, bodies, statements, contexts, queries) ==
  [t |-> t, d |-> a.depths, a |-> a, contexts |-> contexts, triggers |-> triggers, bodies |-> bodies, statements |-> statements,
   queries |-> queries, relations |-> [k \in DOMAIN queries |-> RelationsOf(t, a.depths, queries[k])],
   with |-> {n \in DOMAIN statements : WithQueries(t, a.depths, statements[n]) # <<>>},
   ddl |-> UNION {DDLName(t, statements[n]) : n \in DOMAIN statements}]

\* Within a trigger's SQL, a token's context is the one its body gives it.
CoveredBy(bodies, i) == {n \in DOMAIN bodies : i \in DOMAIN bodies[n] /\ bodies[n][i].kind = "sql"}
ContextsWith(a, bodies) ==
  [i \in DOMAIN a.contexts |-> LET covering == CoveredBy(bodies, i)
                               IN IF covering = {} THEN a.contexts[i]
                                  ELSE Context("sql", \E n \in covering : bodies[n][i].output, a.contexts[i].updated)]

\* From the binder's analysis, the triggers, their bodies and the statements.
ModelIn(t, a, triggers, bodies, statements, contexts) ==
  ModelOf(t, a, triggers, bodies, statements, contexts, ModelQueries(t, a.depths, contexts, statements, triggers, bodies))
ModelAround(t, a, triggers, bodies) ==
  ModelIn(t, a, triggers, bodies, StatementsFrom(t, a.depths, 1), ContextsWith(a, bodies))
ModelFrom(t, a, triggers) == ModelAround(t, a, triggers, [n \in DOMAIN triggers |-> Body(t, a.depths, triggers[n])])
Model(t) == ModelFrom(t, AnalysisOf(t), Triggers(t))

\* A plausible mistake: a DDL statement leaves the catalog as it was.
DDLForgotten(m, i, key) == FALSE
DDLInvalidated(m, i, key) == \E s \in m.ddl : s.key = key /\ i >= s.end
InTrigger(m, i) == \E n \in DOMAIN m.triggers : InBody(m.triggers[n], i)
Unsupported(m, i) ==
  LET s == StatementAt(m.statements, i)
  IN \/ s # 0 /\ m.statements[s].malformed
     \/ m.contexts[i].kind = "unsupported" /\ s \notin m.with /\ ~InTrigger(m, i)

\* The queries around a token, nearest first.
RECURSIVE ChainFrom(_, _, _)
ChainFrom(m, k, passed) ==
  IF k \notin DOMAIN m.queries \ passed THEN <<>> ELSE <<k>> \o ChainFrom(m, m.queries[k].parent, passed \cup {k})
Chain(m, i) == ChainFrom(m, QueryAt(m.queries, i), {})
\* A walk that returns to a query it has passed does not end.
NeverEnds(m, i) == LET chain == Chain(m, i) IN chain # <<>> /\ m.queries[Last(chain)].parent \in ToSet(chain)

-----------------------------------------------------------------------------
(* The columns a query returns.                                            *)

SyntaxOnly == {"FIRST", "SKIP", "NULLS", "LAST", "NEXT", "STARTING"}
IsReserved(t, i) == IsOneOf(t, i, Keywords \cup SyntaxOnly)

TargetEnd(m, q) == First({i \in q.start + 1..q.end - 1 : m.d[i] = q.base /\ IsOneOf(m.t, i, {"FROM", "INTO"})}, q.end)
TargetStart(m, q) == IF IsOneOf(m.t, q.start + 1, {"DISTINCT", "ALL"}) THEN q.start + 2 ELSE q.start + 1
\* The items of the list: where each starts and ends.
Items(m, q) ==
  LET end == TargetEnd(m, q)
      commas == {i \in TargetStart(m, q)..end - 1 : m.d[i] = q.base /\ IsSign(m.t, i, ",")}
      starts == SetToSortSeq({TargetStart(m, q)} \cup {i + 1 : i \in commas}, <)
  IN IF TargetStart(m, q) >= end THEN <<>>
     ELSE [n \in DOMAIN starts |-> <<starts[n], Min({i \in commas \cup {end} : i >= starts[n]})>>]
IsMalformedList(m, q) ==
  /\ q.kind = "SELECT"
  /\ \/ \E item \in ToSet(Items(m, q)) : item[1] = item[2]
     \/ Items(m, q) # <<>> /\ DepthAfter(m.t, m.d, TargetEnd(m, q) - 1) # q.base

\* Past FIRST n and SKIP n.
RECURSIVE PastLimits(_, _, _)
PastLimits(m, i, end) ==
  LET n == i + 1
  IN IF i >= end \/ ~IsOneOf(m.t, i, {"FIRST", "SKIP"}) THEN Min({i, end})
     ELSE PastLimits(m, IF IsSign(m.t, n, "value") THEN n + 1
                        ELSE IF IsSign(m.t, n, ":") /\ n + 1 < end THEN n + 2
                        ELSE IF IsSign(m.t, n, "(") THEN Closing(m.t, m.d, n) + 1 ELSE n, end)
\* Whether the last name of an item is an alias without AS.
HasAlias(m, item) ==
  LET last == item[2] - 1
      before == last - 1
  IN /\ last > PastLimits(m, item[1], item[2])
     /\ IsName(m.t, last) /\ ~IsReserved(m.t, last)
     /\ \/ IsSign(m.t, before, ")") \/ IsSign(m.t, before, "value") \/ IsOneOf(m.t, before, {"END", "NULL"})
        \/ IsName(m.t, before) /\ ~IsReserved(m.t, before)
\* The name of an item's column, or "".
ColumnName(m, q, item) ==
  LET first == item[1]
      last == item[2] - 1
      firstAs == First({i \in first..item[2] - 1 : IsWord(m.t, i, "AS") /\ m.d[i] = q.base}, item[2])
  IN IF \/ firstAs = last - 1 /\ IsName(m.t, last)
        \/ HasAlias(m, item)
        \/ first = last /\ IsName(m.t, last)
        \/ first + 2 = last /\ IsName(m.t, first) /\ IsSign(m.t, first + 1, ".") /\ IsName(m.t, last)
     THEN m.t[last].key ELSE ""

ReturnsOf(known, names) == [known |-> known, names |-> names]
NotKnown == ReturnsOf(FALSE, <<>>)
\* What may be said of the columns of a query by one that reads from it.
QueryColumns(returns, k) ==
  IF k \in DOMAIN returns /\ returns[k].known /\ "" \notin ToSet(returns[k].names) THEN Present(returns[k].names) ELSE Unknown

Ctes(m, owner, key) == {k \in DOMAIN m.queries : m.queries[k].cte = key /\ m.queries[k].statement = m.queries[owner].statement}
\* The query of a derived table.
InnerQuery(m, open) ==
  LET starting == {k \in DOMAIN m.queries : m.queries[k].start = open + 1}
  IN {k \in starting : k = Max(starting) /\ m.queries[k].end = Closing(m.t, m.d, open)}
\* The columns of a relation of a query, as they are at a position of the script;
\* returns: what is known of the queries so far.
RelationColumns(m, returns, at, owner, r) ==
  LET n == NameAt(m.t, r.at)
      selects == m.queries[owner].kind = "SELECT"
      stale == DDLInvalidated(m, at, n.key)
  IN IF IsSign(m.t, r.at, "(")
     THEN IF selects /\ InnerQuery(m, r.at) # {} THEN QueryColumns(returns, CHOOSE k \in InnerQuery(m, r.at) : TRUE) ELSE Unknown
     ELSE IF r.name = "" THEN IF selects /\ ~stale THEN ProcedureInfo(n) ELSE Unknown
     ELSE IF Ctes(m, owner, r.name) # {} THEN QueryColumns(returns, Min(Ctes(m, owner, r.name)))
     ELSE IF stale THEN Unknown
     ELSE IF RelationInfo(n).known THEN RelationInfo(n) ELSE ProcedureInfo(n)

Matches(r, key) == IF r.alias # "" THEN r.alias = key ELSE r.name = key
StarColumns(m, returns, k, item) ==
  LET q == m.queries[k]
      relations == m.relations[k]
      matching == {n \in DOMAIN relations : item[2] = item[1] + 1 \/ Matches(relations[n], m.t[item[1]].key)}
      columns == RelationColumns(m, returns, q.start, k, relations[CHOOSE n \in matching : TRUE])
  IN IF Cardinality(matching) # 1 THEN NotKnown ELSE ReturnsOf(columns.known, columns.columns)
IsStar(m, item) ==
  IsSign(m.t, item[2] - 1, "*")
  /\ (item[2] = item[1] + 1 \/ (item[2] = item[1] + 3 /\ IsName(m.t, item[1]) /\ IsSign(m.t, item[1] + 1, ".")))
ReturnsOfItem(m, returns, k, item) ==
  IF IsStar(m, item) THEN StarColumns(m, returns, k, item) ELSE ReturnsOf(TRUE, <<ColumnName(m, m.queries[k], item)>>)
ReturnsOfItems(m, q, ofItems) ==
  LET names == FlattenSeq([n \in DOMAIN ofItems |-> ofItems[n].names])
  IN IF q.kind # "SELECT" \/ ofItems = <<>> \/ IsMalformedList(m, q) \/ (\E n \in DOMAIN ofItems : ~ofItems[n].known) THEN NotKnown
     ELSE IF q.renamed = <<>> THEN ReturnsOf(TRUE, names)
     ELSE IF Len(names) = Len(q.renamed) THEN ReturnsOf(TRUE, q.renamed) ELSE NotKnown
Returns(m, returns, k) ==
  LET items == Items(m, m.queries[k])
  IN ReturnsOfItems(m, m.queries[k], [n \in DOMAIN items |-> ReturnsOfItem(m, returns, k, items[n])])
RECURSIVE ReturnsFrom(_, _)
ReturnsFrom(m, returns) ==
  IF Len(returns) = Len(m.queries) THEN returns ELSE ReturnsFrom(m, Append(returns, Returns(m, returns, Len(returns) + 1)))

\* The arms of the union a SELECT is in, in order.
IsUnionBetween(m, a, b) ==
  \E i \in a.start..b.start - 1 : m.d[i] = a.base /\ IsWord(m.t, i, "UNION") /\ \A n \in a.start..i : ~IsSign(m.t, n, ";")
Arms(m, k) ==
  LET q == m.queries[k]
      siblings == SetToSortSeq({n \in DOMAIN m.queries : m.queries[n].kind = "SELECT" /\ m.queries[n].parent = q.parent},
                               LAMBDA x, y : m.queries[x].start < m.queries[y].start)
      place == CHOOSE n \in DOMAIN siblings : siblings[n] = k
      Linked(n) == LET a == m.queries[siblings[n]]  b == m.queries[siblings[n + 1]] IN a.statement = b.statement /\ IsUnionBetween(m, a, b)
      Together(x, y) == \A n \in x..y - 1 : Linked(n)
  IN SelectSeq(siblings, LAMBDA s : LET n == CHOOSE x \in DOMAIN siblings : siblings[x] = s IN Together(n, place) /\ Together(place, n))

-----------------------------------------------------------------------------
(* Relations and columns.  A finding is a position and a code.             *)

UnknownRelation == "interbase-unknown-relation"
UnknownColumn   == "interbase-unknown-column"
UnknownVariable == "interbase-unknown-variable"

RelationFindings(m) ==
  LET Checked(k) == {r \in ToSet(m.relations[k]) : ~IsMalformedList(m, m.queries[k]) /\ ~Unsupported(m, r.at) /\ ~IsSign(m.t, r.at, "(")
                                               /\ (m.queries[k].kind = "SELECT" \/ r.name # "")}
      IsUnknown(k, r) ==
        LET n == NameAt(m.t, r.at)
        IN ~DDLInvalidated(m, r.at, n.key) /\ Ctes(m, k, n.key) = {} /\ RelationInfo(n) = Missing
  IN UNION {{<<r.at, UnknownRelation>> : r \in {x \in Checked(k) : IsUnknown(k, x)}} : k \in DOMAIN m.queries}

\* Positions of relations, with the arguments of a call, and of the aliases of items.
DeclaredPositions(m) ==
  LET Of(r) == IF IsSign(m.t, r.at, "(") THEN IF r.alias = "" THEN {} ELSE {r.next - 1} ELSE r.at..r.next - 1
  IN UNION {UNION {Of(r) : r \in ToSet(m.relations[k])} : k \in DOMAIN m.queries}
AliasedItems(m) ==
  UNION {{item[2] - 1 : item \in {x \in ToSet(Items(m, m.queries[k])) : HasAlias(m, x)}} :
           k \in {n \in DOMAIN m.queries : m.queries[n].kind = "SELECT"}}
IsChecked(m, i) ==
  LET k == QueryAt(m.queries, i)
  IN /\ IsName(m.t, i) /\ k # 0 /\ ~IsMalformedList(m, m.queries[k]) /\ ~Unsupported(m, i)
     /\ ~IsReserved(m.t, i) /\ ~IsWord(m.t, i - 1, "AS") /\ ~IsSign(m.t, i - 1, ":")
IsTriggerRow(t, i) == IsOneOf(t, i, {"NEW", "OLD"})

\* A relation that a qualifier may name, also a call by the name of its procedure.
IsQualified(m, k, r, key) ==
  \/ Matches(r, key)
  \/ r.name = "" /\ r.alias = "" /\ m.queries[k].kind = "SELECT" /\ ~IsSign(m.t, r.at, "(") /\ m.t[r.at].key = key
QualifiedAlong(m, returns, i, chain) ==
  LET Named(n) == {r \in ToSet(m.relations[chain[n]]) : IsQualified(m, chain[n], r, m.t[i - 2].key)}
      having == {n \in DOMAIN chain : Named(n) # {}}
      nearest == Min(having)
      columns == RelationColumns(m, returns, i, chain[nearest], CHOOSE r \in Named(nearest) : TRUE)
  IN IF IsTriggerRow(m.t, i - 2) THEN {}
     ELSE IF having = {}
     THEN IF \E n \in DOMAIN chain : m.relations[chain[n]] # <<>> THEN {<<i - 2, "interbase-unknown-qualifier">>} ELSE {}
     ELSE IF Cardinality(Named(nearest)) > 1 \/ ~columns.known \/ m.t[i].key \in ToSet(columns.columns) THEN {}
     ELSE {<<i, UnknownColumn>>}
QualifiedFinding(m, returns, i) == QualifiedAlong(m, returns, i, Chain(m, i))

\* The clause of a SELECT that a position after its items is in.
ClauseAt(m, q, i) ==
  LET words == {n \in TargetEnd(m, q)..i - 1 : m.d[n] = q.base /\ IsOneOf(m.t, n, QueryClauses)}
  IN IF i < TargetEnd(m, q) \/ words = {} THEN "" ELSE m.t[Max(words)].key
\* What is ordered is the union.
ReturnsOfUnion(returns, arms) ==
  LET first == returns[Head(arms)]
  IN IF \A a \in ToSet(arms) : returns[a].known /\ Len(returns[a].names) = Len(first.names) THEN first ELSE NotKnown
UnionReturns(m, returns, k) == ReturnsOfUnion(returns, Arms(m, k))
\* A plausible mistake: in WHERE as well.
MayBeItemAnywhere(m, returns, k, i) == ClauseAt(m, m.queries[k], i) # "" /\ (~returns[k].known \/ m.t[i].key \in ToSet(returns[k].names))
\* The name may be that of an item: not in WHERE.
MayBeItem(m, returns, k, i) ==
  LET clause == ClauseAt(m, m.queries[k], i)
      output == IF clause = "ORDER" THEN UnionReturns(m, returns, k) ELSE returns[k]
  IN m.queries[k].kind = "SELECT" /\ clause \in {"GROUP", "HAVING", "ORDER"} /\ (~output.known \/ m.t[i].key \in ToSet(output.names))
IsMerging(m, q) == \E n \in q.start..q.end - 1 : IsOneOf(m.t, n, {"NATURAL", "USING"})
IsDeclaredLocal(m, i) ==
  LET key == m.t[i].key
  IN \/ Cardinality(Symbols(m.t, m.a.procedures, ProcedureAt(m.a.procedures, i), key)) = 1
     \/ \E trg \in ToSet(m.triggers) : InBody(trg, i) /\ Cardinality({at \in ToSet(trg.locals) : m.t[at].key = key}) = 1

\* columns: for every query of the chain, those of its relations.
UnqualifiedAlong(m, returns, i, chain, columns) ==
  LET AreKnown(n) == \A c \in ToSet(columns[n]) : c.known
      Hits(n) == Cardinality(UNION {{<<r, x>> : x \in {y \in DOMAIN columns[n][r].columns : columns[n][r].columns[y] = m.t[i].key}} :
                                      r \in DOMAIN columns[n]})
  IN IF MayBeItem(m, returns, chain[1], i) \/ m.relations[chain[1]] = <<>> \/ ~AreKnown(1) THEN {}
     ELSE IF Hits(1) > 1 THEN IF IsMerging(m, m.queries[chain[1]]) THEN {} ELSE {<<i, "interbase-ambiguous-column">>}
     ELSE IF \/ \E n \in DOMAIN chain : Hits(n) > 0 \/ ~AreKnown(n)
             \/ IsDeclaredLocal(m, i)
     THEN {} ELSE {<<i, UnknownColumn>>}
ColumnsAlong(m, returns, i, chain) ==
  [n \in DOMAIN chain |->
    [x \in DOMAIN m.relations[chain[n]] |-> RelationColumns(m, returns, i, chain[n], m.relations[chain[n]][x])]]
UnqualifiedWithin(m, returns, i, chain) == UnqualifiedAlong(m, returns, i, chain, ColumnsAlong(m, returns, i, chain))
UnqualifiedFinding(m, returns, i) == UnqualifiedWithin(m, returns, i, Chain(m, i))

ColumnFindings(m, returns) ==
  LET declared == DeclaredPositions(m) \cup AliasedItems(m) \cup m.a.relationAt \cup m.a.aliasAt
      checked == {i \in DOMAIN m.t \ declared : IsChecked(m, i)}
      qualified == {i \in checked : IsSign(m.t, i - 1, ".")}
      plain == {i \in checked \ qualified : ~IsSign(m.t, i + 1, ".") /\ ~IsSign(m.t, i + 1, "(") /\ ~IsWord(m.t, i - 1, "PROCEDURE")}
  IN UNION {QualifiedFinding(m, returns, i) : i \in qualified} \cup UNION {UnqualifiedFinding(m, returns, i) : i \in plain}

\* The columns of NEW and OLD, in a body outside MERGE and WITH.
TriggerRelation(m, trg) ==
  LET name == NameAt(m.t, trg.name)
  IN IF trg.relation # 0 THEN {NameAt(m.t, trg.relation)}
     ELSE IF "triggers" \in ready /\ name.key \in DOMAIN StoredTriggers /\ ~DDLInvalidated(m, trg.start, name.key)
     THEN {[key |-> StoredTriggers[name.key], quoted |-> FALSE]} ELSE {}
RowFindings(m) ==
  LET Fields(n) == {i \in m.triggers[n].from + 2..m.triggers[n].to - 1 :
                      /\ IsTriggerRow(m.t, i - 2) /\ IsSign(m.t, i - 1, ".") /\ IsName(m.t, i)
                      /\ ~Unsupported(m, i - 2) /\ m.bodies[n][i - 2].kind # "unsupported"}
      IsUnknown(i, relation) ==
        ~DDLInvalidated(m, i - 2, relation.key) /\ RelationInfo(relation).known /\ m.t[i].key \notin ToSet(RelationInfo(relation).columns)
  IN UNION {{<<i, UnknownColumn>> : i \in {x \in Fields(n) : \E r \in TriggerRelation(m, m.triggers[n]) : IsUnknown(x, r)}} :
              n \in DOMAIN m.triggers}

-----------------------------------------------------------------------------
(* Variables and their declarations.                                       *)

Repeated(t, names) == {names[k] : k \in {x \in DOMAIN names : \E n \in 1..x - 1 : t[names[n]].key = t[names[x]].key}}
DuplicateFindings(m) ==
  LET lists == {m.a.procedures[p].names : p \in DOMAIN m.a.procedures} \cup {trg.locals : trg \in ToSet(m.triggers)}
  IN {<<at, "interbase-duplicate-declaration">> : at \in UNION {Repeated(m.t, names) : names \in lists}}

\* A complete expression: its operands in their places, its parentheses paired.
Operators == {"=", "+", "-", "*"}
Signs     == {"+", "-"}
IsOperand(t, i) == IsSign(t, i, "value") \/ IsName(t, i)
IsExpression(t, d, from, to) ==
  LET Begins(i)  == IsOperand(t, i) \/ IsSign(t, i, "(") \/ (\E c \in Signs : IsSign(t, i, c))
      Ends(i)    == IsOperand(t, i) \/ IsSign(t, i, ")")
      IsOperator(i) == \E c \in Operators : IsSign(t, i, c)
      Follows(i) == IF Ends(i - 1) THEN IsOperator(i) \/ IsSign(t, i, ")") ELSE Begins(i)
  IN /\ from < to /\ Begins(from) /\ Ends(to - 1)
     /\ \A i \in from..to - 1 : Ends(i) \/ IsSign(t, i, "(") \/ IsOperator(i)
     /\ \A i \in from + 1..to - 1 : Follows(i)
     /\ \A i \in from..to - 1 : DepthAfter(t, d, i) >= d[from]
     /\ DepthAfter(t, d, to - 1) = d[from]
\* Where the statement that an assigned expression is in ends; 0 if it does not.
CompleteEnd(t, d, i) ==
  LET k == First({n \in i..Len(t) : IsSign(t, n, ";") \/ DepthAfter(t, d, n) < d[i]}, Len(t) + 1)
  IN IF IsSign(t, k, ";") /\ d[k] = d[i] THEN k ELSE 0
Constants ==
  {"NEW", "OLD", "NULL", "TRUE", "FALSE", "UNKNOWN", "CURRENT_DATE", "CURRENT_TIME", "CURRENT_TIMESTAMP", "CURRENT_USER",
   "USER", "CURRENT_ROLE", "SQLCODE", "GDSCODE", "ROW_COUNT", "SQLSTATE"}
ReadsIn(t, d, from, to) == IF IsExpression(t, d, from, to) THEN {i \in from..to - 1 : IsName(t, i) /\ ~IsOneOf(t, i, Constants)} ELSE {}
\* The condition of an IF or WHILE at i, and the expression assigned at i.
Condition(t, d, i) ==
  LET close == Closing(t, d, i + 1)
  IN IF IsOneOf(t, i, {"IF", "WHILE"}) /\ IsSign(t, i + 1, "(") /\ IsWord(t, close + 1, IF IsWord(t, i, "IF") THEN "THEN" ELSE "DO")
     THEN {<<i + 2, close>>} ELSE {}
Assigned(t, d, i) == IF IsSign(t, i + 1, "=") /\ i + 2 <= Len(t) /\ CompleteEnd(t, d, i + 2) # 0 THEN {<<i + 2, CompleteEnd(t, d, i + 2)>>} ELSE {}

\* A declaration that could not be read may be the one of the name.
IsAttempted(m, i) == <<ProcedureAt(m.a.procedures, i), m.t[i].key>> \in m.a.scan.attempted
IsMalformedAt(m, i) == \E span \in m.a.scan.malformed : span[1] <= i /\ i < span[2]
IsGiven(m, i) == IsWrite(m.t, [m.a EXCEPT !.contexts = m.contexts], i)

ProcedureVariables(m) ==
  LET t == m.t
      here == {i \in DOMAIN t : ProcedureAt(m.a.procedures, i) # 0 /\ ~Unsupported(m, i)}
      named == {i \in here : IsName(t, i) /\ ~IsAttempted(m, i)}
      written == {i \in named : ~IsMalformedAt(m, i) /\ IsGiven(m, i) /\ RoleAt(t, m.a, i).role \in {"other", "column"}}
      IsCode(i) == m.contexts[i].kind = "code" /\ ~Unsupported(m, i) /\ ~IsMalformedAt(m, i)
      bound == {i \in here : m.contexts[i].kind = "code" /\ RoleAt(t, m.a, i).symbol # {} /\ IsWrite(t, m.a, i)}
      spans == UNION ({Condition(t, m.d, i) : i \in {x \in here : m.contexts[x].kind = "code"}} \cup {Assigned(t, m.d, i) : i \in bound})
      read == UNION {ReadsIn(t, m.d, s[1], s[2]) : s \in {x \in spans : \A i \in x[1]..x[2] - 1 : IsCode(i)}}
      IsUndeclared(i) == Symbols(t, m.a.procedures, ProcedureAt(m.a.procedures, i), t[i].key) = {}
  IN written \cup {i \in read \cap named : IsUndeclared(i)}

TriggerVariables(m, n) ==
  LET t == m.t
      trg == m.triggers[n]
      body == m.bodies[n]
      inside == trg.from + 1..trg.to - 1
      IsLocal(i) == \E at \in ToSet(trg.locals) : t[at].key = t[i].key
      IsAssigned(i) == IsName(t, i) /\ IsSign(t, i + 1, "=") /\ (IsSign(t, i - 1, ";") \/ IsOneOf(t, i - 1, {"BEGIN", "THEN", "ELSE", "DO"}))
      targets == {i \in inside : body[i].output \/ (body[i].kind = "procedural" /\ i + 1 < trg.to /\ IsAssigned(i))}
      IsSimple(i) == ~IsSign(t, i + 1, ".") /\ ~IsSign(t, i - 1, ".") /\ ~IsSign(t, i + 1, "(") /\ ~IsTriggerRow(t, i)
      IsCode(i) == i < trg.to /\ body[i].kind = "procedural" /\ ~Unsupported(m, i)
      spans == UNION {Condition(t, m.d, i) \cup (IF IsAssigned(i) THEN Assigned(t, m.d, i) ELSE {}) : i \in {x \in inside : IsCode(x)}}
      read == UNION {ReadsIn(t, m.d, s[1], s[2]) : s \in {x \in spans : \A i \in x[1]..x[2] - 1 : IsCode(i)}}
  IN {i \in targets : IsSimple(i) /\ ~IsLocal(i)} \cup {i \in read : m.contexts[i].kind # "sql" /\ ~IsLocal(i)}

VariableFindings(m) ==
  {<<i, UnknownVariable>> : i \in ProcedureVariables(m) \cup UNION {TriggerVariables(m, n) : n \in DOMAIN m.triggers}}

\* Locals nothing reads; results of the procedure, and doubtful ones, are passed over.
UnusedLocals(m) ==
  LET t == m.t
      roles == [i \in DOMAIN t |-> RoleAt(t, m.a, i)]
      IsReadAs(i, s) == i # s /\ roles[i].symbol = {s} /\ ~IsWrite(t, m.a, i)
      IsBlocked(p, s) == p \in m.a.scan.suppressed \/ Cardinality(Symbols(t, m.a.procedures, p, t[s].key)) > 1
                         \/ \E i \in DOMAIN t : s \in roles[i].blocks
      Candidates(p) == ToSet(m.a.procedures[p].names) \ m.a.procedures[p].outputs
  IN UNION {{s \in Candidates(p) : ~IsBlocked(p, s) /\ ~\E i \in DOMAIN t : IsReadAs(i, s)} : p \in DOMAIN m.a.procedures}

-----------------------------------------------------------------------------
(* Diagnostics as metadata is loaded.                                      *)

Findings(m) ==
  RelationFindings(m) \cup ColumnFindings(m, ReturnsFrom(m, <<>>)) \cup RowFindings(m) \cup DuplicateFindings(m) \cup VariableFindings(m)

\* The column that a definition request on a name leads to where the name is also
\* a local's: the statement is one SELECT from one stored relation.
IsProvenColumn(m, returns, i) ==
  LET k == QueryAt(m.queries, i)
      q == m.queries[k]
      r == m.relations[k][1]
      n == NameAt(m.t, r.at)
      columns == RelationInfo(n).columns
      s == q.statement
  IN /\ RoleAt(m.t, m.a, i).blocks # {} /\ k # 0 /\ ~Unsupported(m, i)
     /\ q.kind = "SELECT" /\ q.parent = 0 /\ ~IsMalformedList(m, q) /\ returns[k].known /\ Len(Arms(m, k)) = 1
     /\ s # 0 /\ ~IsWord(m.t, m.statements[s].start, "WITH") /\ \A x \in DOMAIN m.queries \ {k} : m.queries[x].statement # s
     /\ Len(m.relations[k]) = 1 /\ r.name # "" /\ Ctes(m, k, r.name) = {} /\ ~DDLInvalidated(m, i, r.name)
     /\ RelationInfo(n).known /\ Cardinality({x \in DOMAIN columns : columns[x] = m.t[i].key}) = 1

NameInit == script \in Scripts /\ ready = {}
Loads(kind) == ready' = ready \cup {kind} /\ UNCHANGED script
NameNext == \E kind \in Kinds \ ready : Loads(kind)
NameSpec == NameInit /\ [][NameNext]_nameVars

-----------------------------------------------------------------------------
(* Properties.                                                             *)

(* Findings the code makes of names that are right.                        *)

\* Of a procedure that selects from itself: it counts as created only after the first
\* semicolon of its body (diagnostic_model.go:374).
OfOwnName(m, i) == \E s \in m.ddl : s.key = script[i].key /\ s.start <= i /\ i < s.end
\* Of columns where a query of a WITH reads a relation that has the name of its own
\* or of a later CTE: the name is taken for the CTE (cteFor, diagnostic_model.go:511).
BeforeItsCte(m, i) ==
  \E k \in ToSet(Chain(m, i)) : \E r \in {x \in ToSet(m.relations[k]) : x.name # ""} :
    \E c \in Ctes(m, k, r.name) : r.at < m.queries[c].end
\* Of a target of INTO without a colon, taken for a column (diagnostic_names.go:227).
IsBareTarget(i) == script[i].means.as = "written" /\ ~IsSign(script, i - 1, ":")
\* Of a qualified name where the word of a clause, PLAN, NATURAL, ROWS or CROSS, is
\* taken for the alias of the relation before it (diagnostic_names.go:43).
UnderClauseWord(m, i) ==
  /\ IsSign(script, i + 1, ".") \/ IsSign(script, i - 1, ".")
  /\ \E k \in ToSet(Chain(m, i)) : \E r \in ToSet(m.relations[k]) : r.aliasAt # 0 /\ script[r.aliasAt].means.as = "word"
IsMisjudged(m, f) ==
  \/ f[2] = UnknownRelation /\ OfOwnName(m, f[1])
  \/ f[2] \in {UnknownColumn, "interbase-ambiguous-column"} /\ (BeforeItsCte(m, f[1]) \/ IsBareTarget(f[1]))
  \/ UnderClauseWord(m, f[1])

\* Whatever of the catalog is loaded, a name is called unknown, ambiguous or declared
\* before only where it is, a local unused only if nothing reads it, and a definition
\* request on a local's name leads to a column only where the name is the column's
\* (nameFindings, localFindings, unusedFindings, provenDefinitionColumn).  With all of
\* it loaded, what is wrong is said.  Excepted are the findings that are IsMisjudged -
\* of a procedure's own name in its body, of columns in a query of a WITH that reads a
\* table by the name of its own or a later CTE, of INTO targets without a colon, and
\* of qualified names over a relation that a word such as ROWS follows - and locals
\* called unused that are read only where reads are Overlooked, after a procedural
\* FROM or under a name such as LIMIT.
NamesAreJudgedRight ==
  \A m \in {Model(script)} : \A findings \in {Findings(m)} :
    /\ \A f \in findings : script[f[1]].means.wrong = f[2] \/ IsMisjudged(m, f)
    /\ script \in Clear /\ ready = Kinds =>
         \A i \in DOMAIN script : script[i].means.wrong # "" => <<i, script[i].means.wrong>> \in findings
    /\ \A s \in UnusedLocals(m), i \in DOMAIN script :
         ~(script[i].means.as = "local" /\ script[i].means.of = script[s].means.of /\ ~Overlooked(script, i))
    /\ \A i \in DOMAIN script :
         IsProvenColumn(m, ReturnsFrom(m, <<>>), i) => script[i].means = [as |-> "column", of |-> <<>>, wrong |-> ""]

\* The walk from a name outward ends, through queries that enclose one another
\* (RelationScope, queryChain).
ScopesLeadOutward ==
  \A m \in {Model(script)} : \A i \in DOMAIN script :
    LET chain == Chain(m, i)
        Encloses(outer, inner) == m.queries[outer].start < m.queries[inner].start /\ m.queries[inner].end <= m.queries[outer].end
    IN ~NeverEnds(m, i) /\ \A n \in 1..Len(chain) - 1 : Encloses(chain[n + 1], chain[n])
=============================================================================
