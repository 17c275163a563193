----------------------------- MODULE Assignments -----------------------------
(***************************************************************************)
(* What the diagnostics say of an assignment - that it must fail, may lose *)
(* digits, may truncate or may store a NULL (internal/sqlsymbol:           *)
(* assignments.go, width.go, diagnostic_types.go, diagnostic_expressions.go*)
(* diagnostic_assignments.go, diagnostic_query_logic.go) - against what    *)
(* the engine can store.                                                   *)
(*                                                                         *)
(* A statement is given as a tree (AssignmentSyntax).  The checks see its  *)
(* tokens, the engine its meaning (Outcomes).  Numbers are integers, Unit standing for *)
(* 1; of a string only the length counts; "||", a literal, a type and a    *)
(* search condition are one token each.  The statements are complete: the  *)
(* tests that withhold a judgement from text still being typed are left    *)
(* out, and so is the bound on the depth of an expression.  The engine is  *)
(* external: doc/interbase-diagnostic-semantics.md says what it does.      *)
(***************************************************************************)
EXTENDS ProcedureSyntax, Integers, FiniteSets

CONSTANTS
  Unit,         \* the number 1
  Number,       \* the number tokens, with their values
  Text,         \* the string literals, with their widths
  Base,         \* the types parseBaseSQLType knows
  Domain,       \* the domains of the catalogue, with the type each is declared as
  MaxDomains,   \* maxDomainResolutionDepth
  Local,        \* the declared variables, with their types
  Catalog,      \* relations the catalogue knows: their columns, [type, null]
  Actual,       \* what the columns of every relation are
  Altered,      \* relations a statement earlier in the document has altered
  Input, Output, \* the types of the parameters of the procedure P
  Statements    \* the statements

VARIABLES statement, claims
assignmentVars == <<statement, claims>>

(* ------------------------------- tokens -------------------------------- *)

Upto(s, i, w) == Cardinality({j \in 1..i : s[j] = w})
Paren(s, i) == Upto(s, i, "(") - Upto(s, i, ")")
Top(s, i) == Paren(s, i) = 0
\* Outside the CASE ... END of an operand, too.
Outer(s, i) ==
  Top(s, i) /\ Cardinality({j \in 1..i : s[j] = "CASE" /\ Top(s, j)}) = Cardinality({j \in 1..i : s[j] = "END" /\ Top(s, j)})

WordIndex(s, w) ==
  LET at == {i \in DOMAIN s : s[i] = w /\ Top(s, i)} IN IF at = {} THEN 0 ELSE CHOOSE i \in at : \A j \in at : i <= j

\* s without the tokens at cuts, in pieces.
Pieces(s, cuts) ==
  LET at == <<0>> \o SetToSortSeq(cuts, LAMBDA a, b : a < b) \o <<Len(s) + 1>>
  IN [k \in 1..Len(at) - 1 |-> SubSeq(s, at[k] + 1, at[k + 1] - 1)]
Pieced(s, cuts) == cuts # {} /\ \A k \in DOMAIN Pieces(s, cuts) : Pieces(s, cuts)[k] # <<>>
SplitTopLevel(s, separator) == Pieces(s, {i \in DOMAIN s : s[i] = separator /\ Top(s, i)})

Enclosed(s) == Len(s) >= 2 /\ s[1] = "(" /\ Last(s) = ")" /\ \A i \in 1..Len(s) - 1 : ~Top(s, i)
RECURSIVE TrimParens(_)
TrimParens(s) == IF Enclosed(s) THEN TrimParens(SubSeq(s, 2, Len(s) - 1)) ELSE s

IsCall(s, name) == Len(s) >= 3 /\ s[1] = name /\ Enclosed(Tail(s))
Arguments(s) == SubSeq(s, 3, Len(s) - 1)

(* -------------------------------- types -------------------------------- *)

NoType == [family |-> "unknown", lo |-> 0, hi |-> 0, scale |-> 0, width |-> 0, spelled |-> FALSE]
Exact(t) == t.family \in {"integer", "numeric"}

\* A name that is no base type is a domain, followed through domains of domains.
RECURSIVE ResolveType(_, _)
ResolveType(word, visited) ==
  IF word \in DOMAIN Base THEN Base[word]
  ELSE IF word \notin DOMAIN Domain \/ word \in visited \/ Cardinality(visited) >= MaxDomains THEN NoType
  ELSE ResolveType(Domain[word], visited \cup {word})
TypeOf(word) == ResolveType(word, {})

\* The width of CHAR and VARCHAR, the only types stringTypeWidth reads; 0 is unknown.
DeclaredWidth(word) == IF word \in DOMAIN Base /\ Base[word].spelled THEN Base[word].width ELSE 0

Abs(n) == IF n < 0 THEN -n ELSE n
\* A plausible mistake: the digits are cut off.
RoundToScaleDown(n, scale) == LET step == Unit \div 10 ^ scale IN IF n < 0 THEN -((-n \div step) * step) ELSE (n \div step) * step
RoundToScale(n, scale) ==
  LET step == Unit \div 10 ^ scale
      size == ((Abs(n) + step \div 2) \div step) * step
  IN IF n < 0 THEN -size ELSE size

\* What is known of an expression; value has at most one element.
Fact(value, null, type) == [value |-> value, null |-> null, type |-> type]
NoFact == Fact({}, "unknown", NoType)
Characters(width) == [NoType EXCEPT !.family = "character", !.width = width]

\* assignmentCompatibility
InRange(n, t) == t.lo <= n /\ n <= t.hi
Compatibility(source, target) ==
  IF target.family = "unknown" THEN "unknown"
  ELSE IF source.value # {} /\ Exact(target)
  THEN LET v == CHOOSE v \in source.value : TRUE  rounded == RoundToScale(v, target.scale)
       IN IF ~InRange(rounded, target) THEN "invalid" ELSE IF rounded # v THEN "loss" ELSE "safe"
  ELSE IF Exact(source.type) /\ Exact(target)
  THEN IF InRange(source.type.lo, target) /\ InRange(source.type.hi, target) /\ source.type.scale <= target.scale
       THEN "safe" ELSE "loss"
  ELSE IF source.type.family = target.family /\
          (target.family \in {"date", "boolean"} \/ source.type.width \in 1..target.width)
  THEN "safe" ELSE "unknown"

(* ------------------------------- names --------------------------------- *)

\* How names are resolved: psql for the code of a procedure, where a name is a
\* variable; scopes, innermost first, of the relations a statement reads;
\* outer for a LEFT JOIN in the statement.
Stale(rel) == rel \in Altered
Context(psql, scopes) == [psql |-> psql, scopes |-> scopes, outer |-> \E n \in DOMAIN statement.from : statement.from[n].left]

IsName(w) == w \in DOMAIN Local \/ \E r \in DOMAIN Actual : w \in DOMAIN Actual[r]
IsReference(s) == \/ Len(s) = 1 /\ IsName(s[1])
                  \/ Len(s) = 2 /\ s[1] = ":"
                  \/ Len(s) = 3 /\ s[2] = "."
Answers(source, qualifier) == qualifier = "" \/ source.alias = qualifier

\* sqlColumnFact, sqlColumnWidth: the columns a name may be, from the innermost
\* scope that has an owner; nothing when an owner is not among the known relations.
NoColumn == [type |-> "", null |-> "unknown"]
\* A plausible mistake: an owner whose columns are not known is passed over.
OwnersKnownOrNot(owners, known) == TRUE
OwnersKnown(owners, known) == \A o \in owners : o.name \in known
RECURSIVE ColumnIn(_, _, _, _)
ColumnIn(scopes, qualifier, name, known) ==
  IF scopes = <<>> THEN NoColumn
  ELSE LET owners == {o \in ToSet(Head(scopes)) : Answers(o, qualifier)}
           having == {o \in owners : o.name \in DOMAIN Catalog /\ name \in DOMAIN Catalog[o.name]}
       IN IF ~OwnersKnown(owners, known) \/ Cardinality(having) > 1 \/ (having = {} /\ owners # {} /\ qualifier # "") THEN NoColumn
          ELSE IF having = {} THEN ColumnIn(Tail(scopes), qualifier, name, known)
          ELSE Catalog[(CHOOSE o \in having : TRUE).name][name]
ColumnOf(s, c, known) == ColumnIn(c.scopes, IF Len(s) = 3 THEN s[1] ELSE "", Last(s), known)
\* The catalogue is believed of a relation that was not altered; for the width of
\* an operand, of every relation.
Believed == DOMAIN Catalog \ Altered

\* A name is a variable in procedure code and after a colon; one that could be
\* either is neither.
IsLocal(s, c) == Len(s) < 3 /\ Last(s) \in DOMAIN Local /\ (c.psql \/ Len(s) = 2)
IsColumn(s, c) == ~c.psql /\ (Len(s) = 3 \/ (Len(s) = 1 /\ s[1] \notin DOMAIN Local))

\* A plausible mistake: NOT NULL is believed under an outer join.
NullOfColumn(column, c) == column.null
NullOf(column, c) == IF column.null = "not" /\ c.outer THEN "unknown" ELSE column.null
IdentifierFact(s, c) ==
  IF IsLocal(s, c) THEN Fact({}, "unknown", TypeOf(Local[Last(s)]))
  ELSE IF IsColumn(s, c) THEN LET column == ColumnOf(s, c, Believed) IN Fact({}, NullOf(column, c), TypeOf(column.type))
  ELSE NoFact
IdentifierWidth(s, c) ==
  IF IsLocal(s, c) THEN DeclaredWidth(Local[Last(s)])
  ELSE IF IsColumn(s, c) THEN DeclaredWidth(ColumnOf(s, c, DOMAIN Catalog).type)
  ELSE 0

(* ------------------------------ expressions ---------------------------- *)

Operators == {"+", "-", "*", "/"}
\* Binary operators: not the first token, nor one that follows another operator.
Splits(s, operators) ==
  {i \in 2..Len(s) : s[i] \in operators /\ Outer(s, i) /\ s[i - 1] \notin Operators}
\* width.go does not know of CASE, diagnostic_expressions.go does.
ConcatenationsTop(s) == {i \in DOMAIN s : s[i] = "||" /\ Top(s, i)}
Concatenations(s) == {i \in DOMAIN s : s[i] = "||" /\ Outer(s, i)}

Apply(op, a, b) == CASE op = "+" -> a + b [] op = "-" -> a - b [] op = "*" -> (a * b) \div Unit
\* The left-to-right fold over operands whose values are all known.
Folded(s, cuts, values) ==
  LET at == SetToSortSeq(cuts, LAMBDA a, b : a < b)
      upto[k \in 1..Len(values)] ==
        IF k = 1 THEN values[1] ELSE {Apply(s[at[k - 1]], a, b) : a \in upto[k - 1], b \in values[k]}
  IN upto[Len(values)]

Max0(S) == CHOOSE m \in S \cup {0} : \A n \in S : n <= m
\* combineFactTypes: branches that are all character strings, as wide as the widest.
\* A plausible mistake: as wide as the first.
WidestFirst(widths) == Head(widths)
Widest(widths) == Max0(ToSet(widths))
CombinedType(facts) ==
  IF \E k \in DOMAIN facts : facts[k].type.family # "character" THEN NoType
  ELSE LET widths == [k \in DOMAIN facts |-> facts[k].type.width]
       IN Characters(IF 0 \in ToSet(widths) THEN 0 ELSE Widest(widths))

Nulls(facts) == {facts[k].null : k \in DOMAIN facts}
CaseNull(facts) == IF Nulls(facts) = {"not"} THEN "not" ELSE IF "unknown" \in Nulls(facts) THEN "unknown" ELSE "null"
\* A plausible mistake: COALESCE is NULL as soon as an argument may be.
CoalesceNullAny(facts) == IF "null" \in Nulls(facts) THEN "null" ELSE "unknown"
CoalesceNull(facts) == IF "not" \in Nulls(facts) THEN "not" ELSE IF Nulls(facts) = {"null"} THEN "null" ELSE "unknown"

\* The results of CASE: what follows a THEN or an ELSE of its own.
Branches(body) ==
  LET marks == {i \in DOMAIN body : body[i] \in {"WHEN", "THEN", "ELSE"} /\ Outer(body, i)}
      at == SetToSortSeq(marks, LAMBDA a, b : a < b)
      piece == Pieces(body, marks)
      results == SetToSortSeq({k \in DOMAIN at : body[at[k]] # "WHEN"}, LAMBDA a, b : a < b)
  IN [n \in DOMAIN results |-> piece[results[n] + 1]]
HasElse(body) == \E i \in DOMAIN body : body[i] = "ELSE" /\ Outer(body, i)

RECURSIVE FactOf(_, _)
FactsOf(parts, c) == [k \in DOMAIN parts |-> FactOf(parts[k], c)]

ArithmeticFact(s, cuts, c) ==
  LET facts == FactsOf(Pieces(s, cuts), c)
  IN IF \E k \in DOMAIN facts : facts[k].value = {} THEN NoFact
     ELSE Fact(Folded(s, cuts, [k \in DOMAIN facts |-> facts[k].value]), "unknown", NoType)

SumOf(widths) == FoldSeq(LAMBDA a, b : a + b, 0, widths)
ConcatenationFact(s, c) ==
  LET facts == FactsOf(Pieces(s, Concatenations(s)), c)
      known == \A k \in DOMAIN facts : facts[k].type.family = "character" /\ facts[k].type.width > 0
  IN Fact({}, "unknown", Characters(IF known THEN SumOf([k \in DOMAIN facts |-> facts[k].type.width]) ELSE 0))

CastFact(arguments, c) ==
  LET as == WordIndex(arguments, "AS")
      type == TypeOf(arguments[as + 1])
      inner == FactOf(SubSeq(arguments, 1, as - 1), c)
  IN IF type = NoType THEN NoFact
     ELSE Fact(IF Exact(type) THEN {RoundToScale(v, type.scale) : v \in inner.value} ELSE {}, inner.null, type)

CaseFact(s, c) ==
  LET body == SubSeq(s, 2, Len(s) - 1)
      results == Branches(body)
      facts == FactsOf(results, c)
  IN Fact({}, IF HasElse(body) THEN CaseNull(facts) ELSE "null", CombinedType(facts))

TokenFact(w, c) ==
  CASE w \in DOMAIN Number -> Fact({Number[w]}, "not", NoType)
    [] w \in DOMAIN Text -> Fact({}, "not", Characters(Text[w]))
    [] w = "NULL" -> Fact({}, "null", NoType)
    [] OTHER -> IdentifierFact(<<w>>, c)

\* computeExpressionFact
FactOf(tokens, c) ==
  LET s == TrimParens(tokens)
  IN CASE s = <<>> -> NoFact
       [] Len(s) = 2 /\ s[1] = "-" /\ s[2] \in DOMAIN Number -> Fact({-Number[s[2]]}, "not", NoType)
       [] Len(s) >= 2 /\ s[1] = "CASE" /\ Last(s) = "END" -> CaseFact(s, c)
       [] Concatenations(s) # {} -> ConcatenationFact(s, c)
       [] Splits(s, {"+", "-"}) # {} -> ArithmeticFact(s, Splits(s, {"+", "-"}), c)
       [] Splits(s, {"*", "/"}) # {} ->
            IF \E i \in Splits(s, {"/"}) : TRUE THEN NoFact ELSE ArithmeticFact(s, Splits(s, {"*", "/"}), c)
       [] Len(s) = 1 -> TokenFact(s[1], c)
       [] IsCall(s, "CAST") -> CastFact(Arguments(s), c)
       [] IsCall(s, "COALESCE") ->
            LET facts == FactsOf(SplitTopLevel(Arguments(s), ","), c) IN Fact({}, CoalesceNull(facts), CombinedType(facts))
       [] IsReference(s) -> IdentifierFact(s, c)
       [] OTHER -> NoFact

\* expressionWidth: {} when nothing is known.
RECURSIVE WidthOf(_, _)
SubstringWidth(arguments, c) ==
  LET from == WordIndex(arguments, "FROM")
      for == WordIndex(arguments, "FOR")
      length == {Number[w] \div Unit : w \in {arguments[for + 1]} \cap DOMAIN Number}
  IN {IF source < n THEN source ELSE n : source \in WidthOf(SubSeq(arguments, 1, from - 1), c), n \in length}
WidthOf(tokens, c) ==
  LET s == TrimParens(tokens)
      cuts == ConcatenationsTop(s)
      parts == [k \in DOMAIN Pieces(s, cuts) |-> WidthOf(Pieces(s, cuts)[k], c)]
  IN CASE s = <<>> -> {}
       [] cuts # {} -> IF \E k \in DOMAIN parts : parts[k] = {} THEN {}
                       ELSE {SumOf([k \in DOMAIN parts |-> CHOOSE n \in parts[k] : TRUE])}
       [] Len(s) = 1 /\ s[1] \in DOMAIN Text -> {Text[s[1]]}
       [] IsCall(s, "CAST") -> {DeclaredWidth(Last(Arguments(s)))} \ {0}
       [] IsCall(s, "SUBSTRING") -> SubstringWidth(Arguments(s), c)
       [] IsCall(s, "TRIM") -> WidthOf(Arguments(s), c)
       [] IsReference(s) -> {IdentifierWidth(s, c)} \ {0}
       [] OTHER -> {}

(* ----------------------------- the pairing ------------------------------ *)

\* assignmentEdge: the tokens that are assigned (for a RETURNING_VALUES target the
\* type of the output instead), and what is known of the place they go to.
Edge(source, output, type, rel, notNull) ==
  [source |-> source, output |-> output, type |-> type, rel |-> rel, notNull |-> notNull]
ColumnEdge(source, rel, column) ==
  IF rel \in DOMAIN Catalog /\ column \in DOMAIN Catalog[rel]
  THEN Edge(source, "", Catalog[rel][column].type, rel, Catalog[rel][column].null = "not")
  ELSE Edge(source, "", "", rel, FALSE)
LocalEdge(source, v) == Edge(source, "", IF v \in DOMAIN Local THEN Local[v] ELSE "", "", FALSE)

\* The tokens after the nth up to the next of the given words.
Upto1(s, n, words) ==
  LET stops == {i \in n + 1..Len(s) : s[i] \in words /\ Top(s, i)}
  IN SubSeq(s, n + 1, (IF stops = {} THEN Len(s) + 1 ELSE CHOOSE i \in stops : \A j \in stops : i <= j) - 1)
Heads(parts) == [k \in DOMAIN parts |-> Last(parts[k])]
Pair(sources, Each(_, _), n) == IF Len(sources) = n THEN {Each(k, sources[k]) : k \in 1..n} ELSE {}

UpdateEdges(s) ==
  LET parts == SplitTopLevel(Upto1(s, WordIndex(s, "SET"), {"WHERE"}), ",")
      eq(part) == WordIndex(part, "=")
  IN IF \E k \in DOMAIN parts : Len(parts[k]) < 3 \/ eq(parts[k]) \in {0, 1, Len(parts[k])} THEN {}
     ELSE {ColumnEdge(SubSeq(parts[k], eq(parts[k]) + 1, Len(parts[k])), s[2], parts[k][1]) : k \in DOMAIN parts}
ListAfter(s, n) == SubSeq(s, n + 2, n + 1 + Cardinality({i \in n + 2..Len(s) : \A j \in n + 1..i : ~Top(s, j)}))
InsertEdges(s) ==
  LET columns == Heads(SplitTopLevel(ListAfter(s, 3), ","))
      sources == IF WordIndex(s, "VALUES") # 0 THEN ListAfter(s, WordIndex(s, "VALUES"))
                 ELSE Upto1(s, WordIndex(s, "SELECT"), {"FROM"})
  IN Pair(SplitTopLevel(sources, ","), LAMBDA k, source : ColumnEdge(source, s[3], columns[k]), Len(columns))
SelectIntoEdges(s) ==
  LET targets == Heads(SplitTopLevel(Upto1(s, WordIndex(s, "INTO"), {"FROM"}), ","))
  IN Pair(SplitTopLevel(Upto1(s, 1, {"INTO"}), ","), LAMBDA k, source : LocalEdge(source, targets[k]), Len(targets))
\* procedureInputEdges, with and without parentheses around the list; procedureOutputPairs.
CallEdges(s) ==
  LET list == SubSeq(s, 4, Len(s))
      arguments == SplitTopLevel(IF Enclosed(list) THEN SubSeq(list, 2, Len(list) - 1) ELSE list, ",")
      targets == Heads(SplitTopLevel(Tail(list), ","))
  IN IF list[1] = "RETURNING_VALUES"
     THEN Pair(targets, LAMBDA k, v : Edge(<<>>, Output[k], Local[v], "", FALSE), Len(Output))
     ELSE Pair(arguments, LAMBDA k, source : Edge(source, "", Input[k], "", FALSE), Len(Input))

\* assignmentEdges and those of procedure calls and triggers.
Edges(s) ==
  CASE s[1] = "UPDATE" -> UpdateEdges(s)
    [] s[1] = "INSERT" -> InsertEdges(s)
    [] s[1] = "SELECT" -> IF WordIndex(s, "INTO") # 0 THEN SelectIntoEdges(s) ELSE {}
    [] s[1] = "EXECUTE" -> CallEdges(s)
    [] s[1] = "NEW" -> {ColumnEdge(SubSeq(s, 5, Len(s)), "T", s[3])}
    [] OTHER -> {LocalEdge(SubSeq(s, 3, Len(s)), s[1])}

(* ----------------------------- the findings ----------------------------- *)

EdgeFact(e, c) == IF e.output # "" THEN Fact({}, "unknown", TypeOf(e.output)) ELSE FactOf(e.source, c)
CastFails(source, c) ==
  LET s == TrimParens(source)
  IN IsCall(s, "CAST") /\ LET as == WordIndex(Arguments(s), "AS")
                          IN Compatibility(FactOf(SubSeq(Arguments(s), 1, as - 1), c), TypeOf(Arguments(s)[as + 1])) = "invalid"

\* The relations whose columns the sources may name, innermost first: of the query
\* or of the table an UPDATE changes.
Scopes ==
  CASE statement.kind = "update" -> <<<<Source(statement.rel, statement.rel, FALSE)>>>>
    [] statement.kind = "notin" -> <<statement.from, statement.outer>>
    [] statement.kind \in {"select", "into"} -> <<statement.from>>
    [] OTHER -> <<>>

\* sourceLocallyNotNull: the source is the column the WHERE says IS NOT NULL, of the
\* only relation.
LocallyNotNull(source) ==
  LET test == Spell(statement.tested) IN
  /\ statement.tested # Null /\ Len(Scopes[1]) = 1
  /\ Last(source) = Last(test) /\ \A s \in {source, test} : Len(s) = 1 \/ (Len(s) = 3 /\ s[2] = "." /\ s[1] = Scopes[1][1].alias)

\* invalidAssignmentFinding, lossyAssignmentFinding, findingForDestination and
\* nullableAssignmentFindings for one edge.
Claims(e, c) ==
  LET fact == EdgeFact(e, c)
      verdict == Compatibility(fact, TypeOf(e.type))
      width == IF e.output # "" THEN {} ELSE WidthOf(e.source, c)
  IN IF e.rel # "" /\ Stale(e.rel) THEN {}
     ELSE {n \in {"invalid", "loss", "truncation", "null"} :
             CASE n = "invalid" -> verdict = "invalid" \/ CastFails(e.source, c)
               [] n = "loss"    -> verdict = "loss"
               [] n = "truncation" -> statement.kind \in {"set", "update", "values", "select", "into"} /\ DeclaredWidth(e.type) > 0
                                      /\ \E w \in width : w > DeclaredWidth(e.type)
               [] n = "null"    -> e.notNull /\ fact.null = "null" /\ ~LocallyNotNull(e.source)}
\* nullableNotInFindings
NotInClaims(c) ==
  LET source == Spell(statement.sources[1])
  IN IF Len(statement.from) = 1 /\ FactOf(source, c).null = "null" /\ ~LocallyNotNull(source) THEN {"null"} ELSE {}

ProcedureCode == statement.kind = "set"
Here == Context(ProcedureCode, Scopes)

AssignmentInit == statement \in Statements /\ claims = {}
\* Diagnostics: every edge with what is said of it.
Judge ==
  /\ claims = {} /\ UNCHANGED statement
  /\ claims' = IF statement.kind = "notin" THEN {[source |-> Spell(statement.sources[1]), said |-> NotInClaims(Here)]}
               ELSE {[source |-> e.source, said |-> Claims(e, Here)] : e \in Edges(Front(SpellStatement(statement)))}

(* ------------------------------ the engine ------------------------------ *)

\* What an expression may give: a number, a string of some length, NULL, an error;
\* "any" where nothing is said of the value.
Error == <<"error", 0>>
Nil == <<"null", 0>>
RECURSIVE RealType(_)
RealType(word) == IF word \in DOMAIN Base THEN Base[word] ELSE RealType(Domain[word])
ValuesOf(t) ==
  CASE Exact(t) -> {<<"num", n>> : n \in {t.lo, t.hi, 0, Unit \div 10 ^ t.scale}}
    [] t.family = "character" -> {<<"str", 0>>, <<"str", t.width>>}
    [] OTHER -> {<<"any", 0>>}

\* A name is a column of the innermost relation that has it.
RECURSIVE Owners(_, _, _)
Owners(scopes, qualifier, name) ==
  IF scopes = <<>> THEN {}
  ELSE LET having == {o \in ToSet(Head(scopes)) : Answers(o, qualifier) /\ name \in DOMAIN Actual[o.name]}
       IN IF having # {} THEN having ELSE Owners(Tail(scopes), qualifier, name)
KnownNotNull(e) ==
  LET t == statement.tested
  IN t # Null /\ t.word = e.word /\ Owners(Scopes, t.by, t.word) = Owners(Scopes, e.by, e.word)
ColumnValues(e) ==
  UNION {LET column == Actual[o.name][e.word]
         IN ValuesOf(RealType(column.type))
            \cup IF (column.null = "null" \/ o.left) /\ ~KnownNotNull(e) THEN {Nil} ELSE {} : o \in Owners(Scopes, e.by, e.word)}
LocalValues(v) == ValuesOf(RealType(Local[v])) \cup {Nil}

\* The nearest number of that scale, of two the one farther from zero.
Nearest(n, scale) ==
  LET step == Unit \div 10 ^ scale
      near == {m \in {(n \div step) * step, (n \div step + 1) * step} : 2 * Abs(m - n) <= step}
  IN CHOOSE m \in near : \A k \in near : Abs(k) <= Abs(m)
\* Storing o in a place of type t; it is not specified what becomes of a string that
\* is too long.
Convert(o, t) ==
  CASE o[1] = "num" /\ Exact(t) -> IF InRange(Nearest(o[2], t.scale), t) THEN <<"num", Nearest(o[2], t.scale)>> ELSE Error
    [] o[1] = "str" /\ t.family = "character" -> IF o[2] <= t.width THEN o ELSE Error
    [] o[1] \in {"null", "error"} -> o
    [] OTHER -> <<"any", 0>>
Strict(a, b, result) ==
  IF Error \in {a, b} THEN Error ELSE IF Nil \in {a, b} THEN Nil ELSE result
Combine(op, a, b) ==
  Strict(a, b, CASE op = "||" /\ a[1] = "str" /\ b[1] = "str" -> <<"str", a[2] + b[2]>>
                 [] op \in {"+", "-", "*"} /\ a[1] = "num" /\ b[1] = "num" -> <<"num", Apply(op, a[2], b[2])>>
                 [] OTHER -> <<"any", 0>>)
Shorter(o, n) == IF o[1] = "str" /\ o[2] > n THEN <<"str", n>> ELSE o

RECURSIVE Outcomes(_)
\* The first argument that is not NULL; an error in an argument before it is one.
CoalesceOutcomes(args) ==
  LET upto[k \in 0..Len(args)] ==
        IF k = 0 THEN {Nil} ELSE (upto[k - 1] \ {Nil}) \cup IF Nil \in upto[k - 1] THEN Outcomes(args[k]) ELSE {}
  IN upto[Len(args)]
Outcomes(e) ==
  CASE e.op = "null" -> {Nil}
    [] e.op = "num"  -> {<<"num", Number[e.word]>>}
    [] e.op = "neg"  -> {<<"num", -Number[e.word]>>}
    [] e.op = "str"  -> {<<"str", Text[e.word]>>}
    [] e.op = "name" -> IF ProcedureCode THEN LocalValues(e.word) ELSE ColumnValues(e)
    [] e.op = "param" -> LocalValues(e.word)
    [] e.op \in Binary -> {Combine(e.op, a, b) : a \in Outcomes(e.args[1]), b \in Outcomes(e.args[2])}
    [] e.op = "cast" -> {Convert(o, RealType(e.by)) : o \in Outcomes(e.args[1])}
    [] e.op \in {"case", "else"} -> UNION {Outcomes(e.args[k]) : k \in DOMAIN e.args} \cup IF e.op = "case" THEN {Nil} ELSE {}
    [] e.op = "coalesce" -> CoalesceOutcomes(e.args)
    [] e.op = "substr" -> {Shorter(o, Number[e.by] \div Unit) : o \in Outcomes(e.args[1])}
    [] e.op = "trim" -> Outcomes(e.args[1]) \cup {<<"str", 0>>}

\* The places the statement really fills.
Place(type, notNull) == [type |-> RealType(type), notNull |-> notNull]
PlaceOf(k) ==
  CASE statement.rel # "" -> LET column == Actual[statement.rel][statement.targets[k]] IN Place(column.type, column.null = "not")
    [] statement.kind \in {"set", "into", "returning"} -> Place(Local[statement.targets[k]], FALSE)
    [] statement.kind \in {"call", "bare"} -> Place(Input[k], FALSE)
Given(k) == IF statement.kind = "returning" THEN ValuesOf(RealType(Output[k])) ELSE Outcomes(statement.sources[k])
TokensOf(k) == IF statement.kind = "returning" THEN <<>> ELSE Spell(statement.sources[k])
\* A CAST is judged by its type, whatever it is given.
CastValues(k) ==
  IF statement.kind # "returning" /\ statement.sources[k].op = "cast" THEN ValuesOf(RealType(statement.sources[k].by)) ELSE {}
Count == IF statement.kind = "returning" THEN Len(statement.targets) ELSE Len(statement.sources)

(* ------------------------------- property ------------------------------- *)

Fails(o, place) == Convert(o, place.type) = Error
\* What each finding says of the values o of a source that is stored in place.
Borne(n, outcomes, casts, place) ==
  CASE n = "invalid" -> \A o \in outcomes : Fails(o, place)
    [] n = "loss"    -> \E o \in outcomes \cup casts : Convert(o, place.type) # o
    [] n = "truncation" -> \E o \in outcomes : o[1] = "str" /\ o[2] > place.type.width
    [] n = "null"    -> Nil \in outcomes

ReadsAltered == \E scope \in ToSet(Scopes) : \E s \in ToSet(scope) : s.name \in Altered

\* Every finding is about an assignment the statement makes and is borne out by it:
\* what is called invalid fails whatever the data, what may lose digits, be
\* truncated or be NULL does so for some data; and what the judgement rests on is
\* so for all data - the value and the width of an expression, and that it is not
\* NULL.  Excepted is what is said of widths in a statement that reads a relation the
\* document has altered: sqlColumnWidth (width.go:440) takes the widths the columns
\* had before.
FindingsHold ==
  /\ \A claim \in claims :
       IF statement.kind = "notin" THEN claim.said = {} \/ Nil \in Given(1)
       ELSE \E k \in 1..Count : /\ claim.source = TokensOf(k)
                                /\ \A n \in claim.said \ (IF ReadsAltered THEN {"truncation"} ELSE {}) : Borne(n, Given(k), CastValues(k), PlaceOf(k))
  /\ statement.kind # "returning" =>
       \A k \in 1..Count :
         LET fact == FactOf(TokensOf(k), Here) IN
         /\ fact.value # {} => Given(k) \subseteq {<<"num", v>> : v \in fact.value} \cup {Nil, Error}
         /\ fact.null = "not" => Nil \notin Given(k)
         /\ ~ReadsAltered => \A w \in WidthOf(TokensOf(k), Here) : \A o \in Given(k) : o[1] = "str" => o[2] <= w
         /\ fact.type.family = "character" /\ fact.type.width > 0 => \A o \in Given(k) : o[1] = "str" => o[2] <= fact.type.width
================================================================================
