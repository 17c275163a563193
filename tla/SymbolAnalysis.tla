----------------------------- MODULE SymbolAnalysis -----------------------------
(***************************************************************************)
(* The source-level analysis that navigation and diagnostics share         *)
(* (internal/sqlsymbol: procedure.go, resolve.go, sql.go): the procedures  *)
(* of a script and what they declare, the context of every token, the      *)
(* queries and the relations they read, and what each name is taken for.   *)
(*                                                                         *)
(* A script t is a sequence of tokens as in module ScriptSyntax; comments  *)
(* and layout are no tokens.  Spans are ranges of token positions, and the *)
(* end of a span is the position after it.  A name is its key.  Names of   *)
(* relations with a schema are left out.                                   *)
(***************************************************************************)
EXTENDS Integers, Sequences, SequencesExt, FiniteSets, FiniteSetsExt

IsSign(t, i, c)   == i \in DOMAIN t /\ t[i].is = c
IsWord(t, i, w)   == IsSign(t, i, "word") /\ t[i].key = w
IsOneOf(t, i, ws) == IsSign(t, i, "word") /\ t[i].key \in ws
HasName(t, i)     == IsSign(t, i, "word") \/ IsSign(t, i, "quoted")

\* Words that are never names.
SyntaxWords ==
  {"ADD", "ALTER", "AND", "AS", "ASC", "BEGIN", "BY", "CASE", "CAST", "CHECK", "CREATE", "DECLARE", "DELETE", "DO",
   "ELSE", "END", "EXECUTE", "FOR", "FROM", "FULL", "GROUP", "HAVING", "IF", "IN", "INNER", "INSERT", "INTO", "IS",
   "JOIN", "LEFT", "LIKE", "LIMIT", "MERGE", "NOT", "NULL", "ON", "OR", "ORDER", "OUTER", "PROCEDURE",
   "RETURNING_VALUES", "RETURNS", "RIGHT", "SELECT", "SET", "THEN", "UNION", "UPDATE", "VALUES", "VARIABLE", "WHEN",
   "WHERE", "WHILE", "WITH", "BREAK", "CONTINUE", "EXIT", "EXCEPTION", "LEAVE", "SUSPEND"}
IsName(t, i) == HasName(t, i) /\ ~IsOneOf(t, i, SyntaxWords)

SQLClauses   == {"WHERE", "GROUP", "ORDER", "HAVING", "JOIN", "ON", "SET", "VALUES", "RETURNING"}
QueryClauses == {"WHERE", "GROUP", "ORDER", "HAVING", "UNION", "RETURNING", "SET", "VALUES"}
QueryWords   == {"SELECT", "UPDATE", "INSERT", "DELETE"}

\* The first of the positions, or the end when there is none.
First(positions, end) == Min(positions \cup {end})

\* How many parentheses are open before each token.
RECURSIVE DepthsFrom(_, _, _)
DepthsFrom(t, i, depth) ==
  IF i > Len(t) THEN <<>>
  ELSE <<depth>> \o DepthsFrom(t, i + 1, IF IsSign(t, i, "(") THEN depth + 1
                                         ELSE IF IsSign(t, i, ")") /\ depth > 0 THEN depth - 1 ELSE depth)
Depths(t) == DepthsFrom(t, 1, 0)
\* The parenthesis that closes the one at i; the position after the text if none does.
Closing(t, d, i) == First({k \in i + 1..Len(t) : IsSign(t, k, ")") /\ d[k] = d[i] + 1}, Len(t) + 1)

-----------------------------------------------------------------------------
(* Procedures and their declarations.                                      *)

\* The word PROCEDURE of a header that starts at i, or 0.
HeaderWord(t, i) ==
  LET k == IF IsWord(t, i, "CREATE") /\ IsWord(t, i + 1, "OR") /\ IsWord(t, i + 2, "ALTER") THEN i + 3 ELSE i + 1
  IN IF IsOneOf(t, i, {"CREATE", "ALTER"}) /\ IsWord(t, k, "PROCEDURE") THEN k ELSE 0

TypeStarts(t, i) == HasName(t, i) /\ ~IsOneOf(t, i, {"BEGIN", "END", "AS", "DECLARE", "VARIABLE", "CREATE", "ALTER"})

\* A list of declarations in parentheses that open at o: where its parts start and
\* end, and whether each is a name followed by a type.
DeclarationList(t, d, o) ==
  LET c == Closing(t, d, o)
      commas == {k \in o + 1..c - 1 : IsSign(t, k, ",") /\ d[k] = d[o] + 1}
      starts == IF c = o + 1 THEN {} ELSE {o + 1} \cup {k + 1 : k \in commas}
      EndOf(a) == Min({k \in commas \cup {c} : k >= a})
      HasType(a) == \E k \in a + 1..EndOf(a) - 1 : TypeStarts(t, k) /\ \A m \in a + 1..k - 1 : ~IsSign(t, m, "(")
  IN [ok |-> c <= Len(t) /\ \A a \in starts : HasName(t, a) /\ HasType(a),
      names |-> SetToSortSeq(starts, <), next |-> c + 1]
NoList(i) == [ok |-> TRUE, names |-> <<>>, next |-> i]
ListAt(t, d, i) == IF IsSign(t, i, "(") THEN DeclarationList(t, d, i) ELSE NoList(i)

Header(t, d, i) ==
  LET inputs  == ListAt(t, d, HeaderWord(t, i) + 2)
      outputs == IF IsWord(t, inputs.next, "RETURNS") THEN ListAt(t, d, inputs.next + 1) ELSE NoList(inputs.next)
      as      == First({k \in outputs.next..Len(t) : IsOneOf(t, k, {"AS", "CREATE", "ALTER"})}, Len(t) + 1)
  IN [found |-> HeaderWord(t, i) # 0 /\ HasName(t, HeaderWord(t, i) + 1),
      ok    |-> inputs.ok /\ outputs.ok,
      names |-> inputs.names \o outputs.names,
      outputs |-> ToSet(outputs.names),
      next  |-> IF IsWord(t, as, "AS") THEN as + 1 ELSE as]

(* A scan: the procedure that is open (0 for none), how many BEGIN and     *)
(* CASE of its body are, the procedures so far with the positions of the   *)
(* names they declare, and what went wrong: the spans of malformed         *)
(* declarations, the names they were for, and the procedures whose         *)
(* symbols may not be renamed for it.                                      *)
Unscanned == [open |-> 0, begun |-> FALSE, frames |-> 0, procedures |-> <<>>, malformed |-> {}, attempted |-> {},
              suppressed |-> {}, failed |-> FALSE]

NoneOpen(s) == [s EXCEPT !.open = 0, !.begun = FALSE, !.frames = 0]
CloseAt(s, end) == NoneOpen(IF s.open = 0 THEN s ELSE [s EXCEPT !.procedures[s.open].end = end])
Suppress(s) == IF s.open = 0 THEN s ELSE [s EXCEPT !.suppressed = @ \cup {s.open}]

\* A malformed declaration at i: go on after its semicolon, at the body, or at the
\* next procedure, and then nothing is known of this one.
Recovery(t, s, i, attempted) ==
  LET k == First({n \in i + 1..Len(t) : IsSign(t, n, ";") \/ IsWord(t, n, "BEGIN") \/ HeaderWord(t, n) # 0}, Len(t) + 1)
      end == IF IsSign(t, k, ";") THEN k + 1 ELSE k
      noted == [s EXCEPT !.malformed = @ \cup {<<i, end>>}, !.attempted = @ \cup {<<s.open, n>> : n \in attempted}]
  IN [next |-> end, to |-> IF IsSign(t, k, ";") \/ IsWord(t, k, "BEGIN") THEN noted ELSE CloseAt(Suppress(noted), k)]

Declaration(t, s, i) ==
  LET end == First({k \in i + 3..Len(t) : IsSign(t, k, ";") \/ IsWord(t, k, "BEGIN")}, Len(t) + 1)
  IN IF ~HasName(t, i + 2) THEN Recovery(t, s, i, {})
     ELSE IF ~TypeStarts(t, i + 3) \/ ~IsSign(t, end, ";") THEN Recovery(t, s, i, {t[i + 2].key})
     ELSE [next |-> i + 3, to |-> [s EXCEPT !.procedures[s.open].names = Append(@, i + 2)]]

BodyStep(t, s, i) ==
  IF IsOneOf(t, i, {"BEGIN", "CASE"}) THEN [s EXCEPT !.frames = @ + 1]
  ELSE IF IsWord(t, i, "END") /\ s.frames > 0
       THEN IF s.frames = 1 THEN CloseAt(s, i + 1) ELSE [s EXCEPT !.frames = @ - 1]
  ELSE s

IsDeclaration(t, i) == IsWord(t, i, "DECLARE") /\ IsWord(t, i + 1, "VARIABLE") /\ i + 2 <= Len(t)

RECURSIVE Scan(_, _, _, _)
Scan(t, d, s, i) ==
  IF i > Len(t) THEN CloseAt(s, Len(t) + 1)
  ELSE IF HeaderWord(t, i) # 0 /\ Header(t, d, i).found THEN
    LET h == Header(t, d, i)
        closed == CloseAt(s, i)
    IN IF h.ok THEN Scan(t, d, [closed EXCEPT !.open = Len(s.procedures) + 1,
                                              !.procedures = Append(@, [start |-> i, end |-> 0, names |-> h.names, outputs |-> h.outputs])],
                      h.next)
       ELSE Scan(t, d, [CloseAt(Suppress(s), i) EXCEPT !.failed = TRUE], i + 1)
  ELSE IF s.open = 0 THEN Scan(t, d, s, i + 1)
  ELSE IF s.begun THEN Scan(t, d, BodyStep(t, s, i), i + 1)
  ELSE IF IsDeclaration(t, i) THEN LET n == Declaration(t, s, i) IN Scan(t, d, n.to, n.next)
  ELSE IF IsWord(t, i, "BEGIN") THEN Scan(t, d, [s EXCEPT !.begun = TRUE, !.frames = 1], i + 1)
  ELSE Scan(t, d, s, i + 1)

Procedures(t, d) == Scan(t, d, Unscanned, 1)
\* Analyze gives up where AnalyzeDiagnostics goes on.
IsMalformed(scan) == scan.failed \/ scan.malformed # {}

\* The procedure a token is in, or 0.
ProcedureAt(procedures, i) ==
  LET here == {p \in DOMAIN procedures : procedures[p].start <= i /\ i < procedures[p].end}
  IN IF here = {} THEN 0 ELSE CHOOSE p \in here : TRUE
\* The declarations of a name, by their positions.
Symbols(t, procedures, p, key) ==
  IF p = 0 THEN {} ELSE {at \in ToSet(procedures[p].names) : t[at].key = key}

-----------------------------------------------------------------------------
(* The context of a token: "code" of a procedure, "sql", the arguments of  *)
(* EXECUTE PROCEDURE, what is not understood, and EXECUTE itself.          *)

Start == [kind |-> "code", active |-> FALSE, head |-> "", depth |-> 0, restore |-> -1, set |-> -1, target |-> FALSE,
          into |-> -1, outputs |-> FALSE, output |-> FALSE, frames |-> 0, begun |-> {}]

Entering(s, kind, head) == [s EXCEPT !.kind = kind, !.active = TRUE, !.head = head]

\* Inside the body of an EXECUTE BLOCK.
BlockStep(t, s, i) ==
  IF IsOneOf(t, i, {"BEGIN", "CASE"}) THEN [s EXCEPT !.frames = @ + 1]
  ELSE IF ~IsWord(t, i, "END") THEN s
  ELSE IF s.frames = 1 THEN [s EXCEPT !.frames = 0, !.kind = "unsupported", !.active = TRUE]
  ELSE [s EXCEPT !.frames = @ - 1]

Opened(t, s, i) == IF IsSign(t, i, "(") THEN [s EXCEPT !.depth = @ + 1] ELSE s
BodyBegins(t, s, i, p) ==
  IF IsWord(t, i, "BEGIN") /\ p # 0 /\ p \notin s.begun /\ s.head # "EXECUTE_BLOCK"
  THEN [s EXCEPT !.begun = @ \cup {p}, !.kind = "code", !.active = FALSE, !.head = ""] ELSE s
Executes(t, s, i) ==
  IF s.kind # "pending" THEN s
  ELSE IF IsWord(t, i, "PROCEDURE") THEN Entering(s, "execute", s.head)
  ELSE IF IsWord(t, i, "BLOCK") THEN Entering(s, "unsupported", "EXECUTE_BLOCK")
  ELSE [s EXCEPT !.kind = "unsupported"]
StatementBegins(t, s, i) ==
  IF s.active THEN s
  ELSE IF IsWord(t, i, "BEGIN") THEN [s EXCEPT !.kind = "code"]
  ELSE IF IsOneOf(t, i, QueryWords) THEN Entering(s, "sql", t[i].key)
  ELSE IF IsWord(t, i, "EXECUTE") THEN Entering(s, "pending", t[i].key)
  ELSE IF IsOneOf(t, i, {"MERGE", "WITH"}) THEN Entering(s, "unsupported", t[i].key)
  ELSE IF IsOneOf(t, i, {"IF", "WHILE", "FOR", "CASE"}) THEN Entering(s, "code", t[i].key)
  ELSE IF ~IsName(t, i) THEN s
  ELSE Entering(s, IF IsSign(t, i + 1, "=") THEN s.kind ELSE "unsupported", s.head)
QueryBegins(t, s, i) ==
  IF s.kind # "code" \/ ~IsWord(t, i, "SELECT") THEN s
  ELSE IF s.depth > 0 THEN [s EXCEPT !.kind = "sql", !.restore = s.depth]
  ELSE IF s.head = "FOR" THEN [s EXCEPT !.kind = "sql"] ELSE s
BranchBegins(t, s, i) ==
  IF s.kind = "sql" /\ s.head = "FOR" /\ IsWord(t, i, "DO")
  THEN [s EXCEPT !.kind = "code", !.active = FALSE, !.set = -1, !.target = FALSE, !.into = -1, !.outputs = FALSE, !.output = FALSE]
  ELSE IF s.kind = "code" /\ IsOneOf(t, i, {"THEN", "ELSE", "DO"}) THEN [s EXCEPT !.active = FALSE] ELSE s
BlockBegins(t, s, i) ==
  IF s.kind = "unsupported" /\ s.head = "EXECUTE_BLOCK" /\ IsWord(t, i, "BEGIN") /\ IsWord(t, i - 1, "AS")
  THEN [s EXCEPT !.frames = 1] ELSE s
Closed(t, s, i) ==
  IF ~IsSign(t, i, ")") THEN s
  ELSE IF s.restore >= 0 /\ s.depth - 1 < s.restore
       THEN [s EXCEPT !.depth = @ - 1, !.kind = "code", !.active = TRUE, !.restore = -1]
  ELSE [s EXCEPT !.depth = @ - 1]

\* The targets of INTO, RETURNING_VALUES and SET.
TargetsBegin(t, s, i) ==
  IF s.kind = "sql" /\ IsWord(t, i, "SET") /\ s.head = "UPDATE" THEN [s EXCEPT !.set = s.depth, !.target = TRUE]
  ELSE IF s.kind = "sql" /\ IsOneOf(t, i, SQLClauses) /\ s.depth <= s.set /\ ~IsWord(t, i, "SET") THEN [s EXCEPT !.set = -1]
  ELSE IF \/ s.kind = "sql" /\ IsWord(t, i, "INTO") /\ s.head # "INSERT"
          \/ s.kind = "execute" /\ IsWord(t, i, "RETURNING_VALUES")
       THEN [s EXCEPT !.into = s.depth, !.outputs = TRUE, !.output = TRUE]
  ELSE s
TargetsEnd(t, s, i) ==
  IF s.outputs /\ s.depth <= s.into /\ IsOneOf(t, i, {"FROM", "WHERE", "RETURNING"})
  THEN [s EXCEPT !.outputs = FALSE, !.output = FALSE] ELSE s
NextTarget(t, s, i) ==
  IF ~IsSign(t, i, ",") THEN s
  ELSE [s EXCEPT !.output = @ \/ (s.outputs /\ s.depth = s.into),
                 !.target = @ \/ (s.set >= 0 /\ s.kind = "sql" /\ s.depth = s.set)]
IsOutput(t, s, i) == s.outputs /\ s.output /\ IsName(t, i) /\ s.depth = s.into
IsUpdated(t, s, i) == s.set >= 0 /\ s.kind = "sql" /\ s.depth = s.set /\ s.target /\ IsName(t, i) /\ IsSign(t, i + 1, "=")

Context(kind, output, updated) == [kind |-> kind, output |-> output, updated |-> updated]

RECURSIVE ContextsFrom(_, _, _, _)
ContextsFrom(t, procedures, s, i) ==
  IF i > Len(t) THEN <<>>
  ELSE IF s.frames > 0
       THEN <<Context("unsupported", FALSE, FALSE)>> \o ContextsFrom(t, procedures, BlockStep(t, s, i), i + 1)
  ELSE LET reset == IF IsSign(t, i, ";") THEN [Start EXCEPT !.begun = s.begun] ELSE s
           body  == BodyBegins(t, Opened(t, reset, i), i, ProcedureAt(procedures, i))
           begun == StatementBegins(t, Executes(t, body, i), i)
           at    == BlockBegins(t, BranchBegins(t, QueryBegins(t, begun, i), i), i)
           marks == NextTarget(t, TargetsEnd(t, TargetsBegin(t, at, i), i), i)
           isSQL == at.kind \in {"sql", "execute"}
           output == isSQL /\ IsOutput(t, marks, i)
           updated == isSQL /\ IsUpdated(t, marks, i)
           past  == IF isSQL THEN [marks EXCEPT !.output = @ /\ ~output, !.target = @ /\ ~updated] ELSE at
       IN <<Context(at.kind, output, updated)>> \o ContextsFrom(t, procedures, Closed(t, past, i), i + 1)
Contexts(t, procedures) == ContextsFrom(t, procedures, Start, 1)

\* Positions of relations, of their aliases, and of the columns an INSERT lists.
FollowsRelationWord(t, i) == IsOneOf(t, i - 1, {"FROM", "JOIN", "UPDATE"}) \/ (IsWord(t, i - 1, "INTO") /\ IsWord(t, i - 2, "INSERT"))
NamedRelations(t) == {i \in DOMAIN t : IsName(t, i) /\ FollowsRelationWord(t, i)}
AfterAs(t, i) == IF IsWord(t, i, "AS") THEN i + 1 ELSE i
CanBeAlias(t, i) == IsName(t, i) /\ ~IsOneOf(t, i, SQLClauses)
AliasPositions(t) == {a \in {AfterAs(t, r + 1) : r \in NamedRelations(t)} : CanBeAlias(t, a)}

\* An INSERT waits for INTO, then for its relation, even past other words.
RECURSIVE InsertScan(_, _, _)
InsertScan(t, i, at) ==
  IF i > Len(t) THEN {}
  ELSE IF IsWord(t, i, "INSERT") THEN InsertScan(t, i + 1, "into")
  ELSE IF IsSign(t, i, ";") THEN InsertScan(t, i + 1, "")
  ELSE IF at = "into" /\ IsWord(t, i, "INTO") THEN InsertScan(t, i + 1, "relation")
  ELSE IF at = "relation" /\ IsName(t, i) THEN {i} \cup InsertScan(t, i + 1, "")
  ELSE InsertScan(t, i + 1, at)
InsertRelations(t) == InsertScan(t, 1, "")
InsertColumns(t, d) ==
  UNION {{i \in r + 2..Closing(t, d, r + 1) - 1 : d[i] = d[r + 1] + 1 /\ IsName(t, i)} :
           r \in {x \in InsertRelations(t) : IsSign(t, x + 1, "(")}}

-----------------------------------------------------------------------------
(* Queries: where each starts and ends, the query it is written in and the *)
(* relations it reads.                                                     *)

Ended(qs, open, end) == [k \in DOMAIN qs |-> IF k \in open THEN [qs[k] EXCEPT !.end = end] ELSE qs[k]]

\* active: the open queries, outermost first.
RECURSIVE Discover(_, _, _, _, _, _)
Discover(t, d, contexts, i, qs, active) ==
  IF i > Len(t) THEN Ended(qs, ToSet(active), i)
  ELSE LET Inside(k) == IF IsSign(t, i, ")") THEN qs[k].base < d[i] ELSE TRUE
           outside == {k \in ToSet(active) : ~Inside(k)}
           still == SelectSeq(active, Inside)
           closed == Ended(qs, outside, i)
           around == SelectSeq(still, LAMBDA k : qs[k].base < d[i])
       IN IF IsSign(t, i, ";") \/ contexts[i].kind \notin {"sql", "execute"}
          THEN Discover(t, d, contexts, i + 1, Ended(qs, ToSet(active), i), <<>>)
          ELSE IF ~IsOneOf(t, i, QueryWords) \/ (IsWord(t, i, "UPDATE") /\ IsWord(t, i - 1, "FOR"))
          THEN Discover(t, d, contexts, i + 1, closed, still)
          ELSE Discover(t, d, contexts, i + 1,
                 Append(Ended(closed, ToSet(still) \ ToSet(around), i),
                        [start |-> i, end |-> 0, base |-> d[i], kind |-> t[i].key,
                         parent |-> IF around = <<>> THEN 0 ELSE Last(around)]),
                 Append(around, Len(qs) + 1))
Queries(t, d, contexts) == Discover(t, d, contexts, 1, <<>>, <<>>)

\* A relation at i: its name ("" for a derived table or a call), its alias, where
\* they are written, and where what follows it starts; {} when there is none.
AliasFrom(t, d, i, end, from) ==
  LET a == IF i < end THEN AfterAs(t, i) ELSE i
  IN IF a < end /\ d[a] = d[from] /\ CanBeAlias(t, a) THEN [alias |-> t[a].key, aliasAt |-> a, next |-> a + 1]
     ELSE [alias |-> "", aliasAt |-> 0, next |-> a]
Relation(t, name, nameAt, from, a) ==
  [name |-> name, nameAt |-> nameAt, at |-> from, alias |-> a.alias, aliasAt |-> a.aliasAt, next |-> a.next]
RelationAt(t, d, i, end, callable) ==
  LET open == IF IsSign(t, i, "(") THEN i ELSE i + 1
      close == Closing(t, d, open)
  IN IF i >= end \/ ~(IsSign(t, i, "(") \/ IsName(t, i)) THEN {}
     ELSE IF IsSign(t, i, "(") \/ (callable /\ i + 1 < end /\ IsSign(t, i + 1, "("))
     THEN IF close >= end THEN {} ELSE {Relation(t, "", 0, i, AliasFrom(t, d, close + 1, end, i))}
     ELSE {Relation(t, t[i].key, i, i, AliasFrom(t, d, i + 1, end, i))}

\* The relation that an UPDATE, INSERT or DELETE writes.
NextName(t, i, end) ==
  LET k == First({n \in i..end - 1 : IsName(t, n) \/ IsSign(t, n, ";") \/ IsSign(t, n, "(")}, end) IN IF k < end /\ IsName(t, k) THEN k ELSE end
Written(t, d, q) ==
  LET WordAfter(w) == First({n \in q.start + 1..q.end - 1 : IsWord(t, n, w)}, q.end) + 1
      from == IF q.kind = "INSERT" THEN WordAfter("INTO") ELSE IF q.kind = "DELETE" THEN WordAfter("FROM") ELSE q.start + 1
  IN IF q.kind = "SELECT" THEN {} ELSE RelationAt(t, d, NextName(t, from, q.end), q.end, FALSE)

\* The relations after FROM, USING, JOIN and commas, in order.
RECURSIVE Reads(_, _, _, _, _)
ReadAt(t, d, q, i, inFrom, seen) ==
  LET found == {r \in RelationAt(t, d, i, q.end, TRUE) : r.at \notin seen}
  IN IF found = {} THEN Reads(t, d, q, IF IsWord(t, i, "FROM") /\ q.kind = "SELECT" THEN i ELSE i + 1, <<inFrom, seen>>)
     ELSE LET r == CHOOSE r \in found : TRUE
          IN <<r>> \o Reads(t, d, q, r.next, <<inFrom, seen \cup {i}>>)
Reads(t, d, q, i, state) ==
  LET inFrom == state[1]  seen == state[2]
  IN IF i >= q.end THEN <<>>
     ELSE IF d[i] # q.base THEN Reads(t, d, q, i + 1, state)
     ELSE IF IsSign(t, i, "(") THEN Reads(t, d, q, Closing(t, d, i) + 1, state)
     ELSE IF (IsWord(t, i, "FROM") /\ q.kind = "SELECT") \/ IsWord(t, i, "JOIN") THEN ReadAt(t, d, q, i + 1, TRUE, seen)
     ELSE IF IsOneOf(t, i, {"FROM", "USING"}) THEN Reads(t, d, q, i + 1, <<IsWord(t, i, "USING") \/ q.kind # "DELETE", seen>>)
     ELSE IF inFrom /\ IsSign(t, i, ",") THEN ReadAt(t, d, q, i + 1, TRUE, seen)
     ELSE Reads(t, d, q, i + 1, <<inFrom /\ ~IsOneOf(t, i, QueryClauses), seen>>)

RelationsOf(t, d, q) ==
  LET w == Written(t, d, q)
  IN SetToSeq(w) \o Reads(t, d, q, q.start + 1, <<FALSE, {r.at : r \in w}>>)

\* The query a token is written in, or 0: the shortest that contains it.
QueryAt(qs, i) ==
  LET here == {k \in DOMAIN qs : qs[k].start <= i /\ i < qs[k].end}
  IN IF here = {} THEN 0 ELSE CHOOSE k \in here : \A n \in here : qs[k].end - qs[k].start <= qs[n].end - qs[n].start

RECURSIVE Around(_, _)
Around(qs, k) == IF k = 0 THEN <<>> ELSE <<k>> \o Around(qs, qs[k].parent)

-----------------------------------------------------------------------------
(* The analysis of a script.                                               *)

\* From the depths of its tokens, the scan, the contexts and the queries.
AnalysisWith(t, d, scan, contexts, qs) ==
  [depths |-> d, scan |-> scan, procedures |-> scan.procedures, contexts |-> contexts, queries |-> qs,
   relations |-> [k \in DOMAIN qs |-> RelationsOf(t, d, qs[k])],
   relationAt |-> NamedRelations(t) \cup InsertRelations(t), aliasAt |-> AliasPositions(t),
   inserted |-> InsertColumns(t, d)]
AnalysisIn(t, d, scan, contexts) == AnalysisWith(t, d, scan, contexts, Queries(t, d, contexts))
AnalysisFrom(t, d, scan) == AnalysisIn(t, d, scan, Contexts(t, scan.procedures))
AnalysisOf(t) == LET d == Depths(t) IN AnalysisFrom(t, d, Procedures(t, d))

IsDeclared(a, i) == \E p \in DOMAIN a.procedures : i \in ToSet(a.procedures[p].names)

\* The relations a name may belong to: query by query, nearest first, or the table
\* whose columns are being written.
ScopesAt(t, a, i) ==
  LET k == QueryAt(a.queries, i)
      written == IF k = 0 THEN {} ELSE Written(t, a.depths, a.queries[k])
  IN IF (i \in a.inserted \/ a.contexts[i].updated) /\ written # {} THEN <<SetToSeq(written)>>
     ELSE [n \in DOMAIN Around(a.queries, k) |-> a.relations[Around(a.queries, k)[n]]]

\* What a name is taken for.  The symbol of a local is the position of its
\* declaration; blocks tells that the symbol of this name must not be renamed.
Taken(role, symbol, blocks) == [role |-> role, symbol |-> symbol, blocks |-> blocks]
NameRole(t, a, i, symbols) ==
  LET kind == a.contexts[i].kind
      isSymbol == Cardinality(symbols) = 1
      duplicate == Cardinality(symbols) > 1
      Local == Taken("local", symbols, {})
      Doubtful == Taken("ambiguous", {}, IF isSymbol THEN symbols ELSE {})
      As(role) == Taken(role, {}, {})
      Otherwise(role) == IF symbols # {} THEN Doubtful ELSE As(role)
      obscure == kind \in {"unsupported", "pending"}
      colon == IsSign(t, i - 1, ":")
  IN IF colon /\ obscure THEN Otherwise("other")
     ELSE IF colon /\ symbols # {} THEN IF duplicate THEN Doubtful ELSE Local
     ELSE IF i \in a.relationAt THEN As("relation")
     ELSE IF i \in a.aliasAt THEN As("alias")
     ELSE IF IsSign(t, i - 1, ".") THEN As("column")
     ELSE IF IsSign(t, i + 1, ".") THEN As("alias")
     ELSE IF obscure /\ isSymbol THEN Doubtful
     ELSE IF i \in a.inserted \/ a.contexts[i].updated THEN As("column")
     ELSE IF IsSign(t, i + 1, "(") \/ IsWord(t, i - 1, "PROCEDURE") THEN As("callable")
     ELSE IF obscure THEN Otherwise("other")
     ELSE IF kind = "execute" \/ a.contexts[i].output THEN IF isSymbol THEN Local ELSE Otherwise("column")
     ELSE IF kind = "sql" THEN Otherwise("column")
     ELSE IF duplicate THEN Doubtful
     ELSE IF isSymbol THEN Local ELSE As("other")

RoleAt(t, a, i) ==
  LET symbols == Symbols(t, a.procedures, ProcedureAt(a.procedures, i), t[i].key)
  IN IF IsDeclared(a, i) THEN IF Cardinality(symbols) > 1 THEN Taken("ambiguous", {}, {}) ELSE Taken("local", {i}, {})
     ELSE IF IsName(t, i) THEN NameRole(t, a, i, symbols)
     ELSE Taken("outside", {}, {})

\* Occurrences of locals that are never taken for one: after the FROM of EXTRACT, TRIM
\* or SUBSTRING in procedural code (resolve.go:428), and those spelled as one of
\* SyntaxWords, which the engine need not reserve (resolve.go:620).
Overlooked(t, i) == t[i].means.as \in {"local", "written"} /\ (IsWord(t, i - 1, "FROM") \/ IsOneOf(t, i, SyntaxWords))

\* An occurrence that is given a value.
IsWrite(t, a, i) ==
  \/ a.contexts[i].output
  \/ /\ a.contexts[i].kind = "code" /\ IsSign(t, i + 1, "=")
     /\ \/ IsSign(t, i - 1, ";")
        \/ IsOneOf(t, i - 1, {"BEGIN", "END", "THEN", "ELSE", "DO"})
=============================================================================
