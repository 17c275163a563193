----------------------------- MODULE SymbolBinding -----------------------------
(***************************************************************************)
(* Navigation and rename of what a script declares (language/navigation.go,*)
(* internal/sqlsymbol/rename.go, outline.go): an editor renames the local  *)
(* under the cursor, and the text is analysed anew for the next request.   *)
(* References and definitions of locals, definitions of aliases and the    *)
(* outline of queries are functions of the text.                           *)
(*                                                                         *)
(* Occurrences of a local that the analysis does not see (Overlooked in    *)
(* SymbolAnalysis) are neither found nor renamed.                          *)
(* Renames outside procedures (legacyRename), and what the syntax tree     *)
(* finds where the symbol analysis has no scopes, are left out.            *)
(***************************************************************************)
EXTENDS SymbolAnalysis

CONSTANTS
  Scripts,      \* the scripts, as sequences of tokens
  NewNames,     \* [key, quoted]: the names a client asks for
  Reserved,     \* the words IsInterBaseReservedWord refuses
  MaxRenames

VARIABLES
  source,   \* the script as it was opened
  text,     \* and as it is
  renames   \* how often it was renamed in

bindingVars == <<source, text, renames>>

-----------------------------------------------------------------------------
(* Locals.                                                                 *)

Names(t) == {i \in DOMAIN t : HasName(t, i)}
Declared(a) == UNION {ToSet(a.procedures[p].names) : p \in DOMAIN a.procedures}
SymbolsOf(a, s) == ToSet(a.procedures[CHOOSE p \in DOMAIN a.procedures : s \in ToSet(a.procedures[p].names)].names)
References(v, s) == {i \in DOMAIN v.roles : v.roles[i].symbol = {s}}
\* A plausible mistake: occurrences that cannot be told apart do not count.
RenameBlockedByTwins(t, a, roles) == {s \in Declared(a) : \E n \in SymbolsOf(a, s) \ {s} : t[n].key = t[s].key}
RenameBlocked(t, a, roles) ==
  {s \in Declared(a) : \E n \in SymbolsOf(a, s) \ {s} : t[n].key = t[s].key}
  \cup UNION {ToSet(a.procedures[p].names) : p \in a.scan.suppressed}
  \cup UNION {roles[i].blocks : i \in DOMAIN roles}

\* A view of a text: its analysis, the role of every token, and the locals that must
\* not be renamed.
ViewWith(t, a, roles) == [a |-> a, roles |-> roles, blocked |-> RenameBlocked(t, a, roles)]
ViewFrom(t, a) == ViewWith(t, a, <<>> \o [i \in DOMAIN t |-> RoleAt(t, a, i)])
View(t) == ViewFrom(t, AnalysisOf(t))

RenameName(new) == new.quoted \/ new.key \notin Reserved
\* A plausible mistake: the new name may be another local's.
CanRenameOver(t, v, s, new) == RenameName(new) /\ s \notin v.blocked
CanRename(t, v, s, new) ==
  /\ RenameName(new)
  /\ \A n \in SymbolsOf(v.a, s) \ {s} : t[n].key # new.key
  /\ s \notin v.blocked
Spelled(t, at, new) ==
  [i \in DOMAIN t |-> IF i \in at THEN [t[i] EXCEPT !.key = new.key, !.is = IF new.quoted THEN "quoted" ELSE "word"] ELSE t[i]]

\* What the cursor is on, in a text that the strict analysis accepts.
Resolved(v, i) == IF IsMalformed(v.a.scan) THEN {} ELSE IF v.roles[i].role = "local" THEN v.roles[i].symbol ELSE {}

BindingInit == source \in Scripts /\ text = source /\ renames = 0

\* Rename at the cursor i; v is the analysis of the text.
Rename(v, i, new) ==
  /\ renames < MaxRenames
  /\ \E s \in Resolved(v, i) :
       /\ CanRename(text, v, s, new)
       /\ text' = Spelled(text, References(v, s), new)
  /\ renames' = renames + 1
  /\ UNCHANGED source

BindingNext == \E v \in {View(text)} : \E i \in Names(text), new \in NewNames : Rename(v, i, new)
BindingSpec == BindingInit /\ [][BindingNext]_bindingVars

-----------------------------------------------------------------------------
(* Aliases and the outline.                                                *)

\* interBaseAliasDefinition and visibleCallableAlias: the nearest query that has the
\* alias decides, if it has it once.
AliasIn(scopes, key) ==
  LET Matches(n) == {k \in DOMAIN scopes[n] : scopes[n][k].alias = key /\ scopes[n][k].aliasAt # 0}
      having == {n \in DOMAIN scopes : Matches(n) # {}}
  IN IF having = {} THEN {}
     ELSE LET n == Min(having) IN IF Cardinality(Matches(n)) # 1 THEN {} ELSE {scopes[n][k].aliasAt : k \in Matches(n)}
AliasDefinition(t, a, i) == AliasIn(ScopesAt(t, a, i), t[i].key)

\* The outline sees no procedures: what their headers open is code to it only after
\* a semicolon.
OutlineOf(t, d, qs) == [depths |-> d, queries |-> qs, relations |-> [k \in DOMAIN qs |-> RelationsOf(t, d, qs[k])]]
Outline(t) == LET d == Depths(t) IN OutlineOf(t, d, Queries(t, d, Contexts(t, <<>>)))

Derived(t, o, k) ==
  {r \in ToSet(o.relations[o.queries[k].parent]) : IsSign(t, r.at, "(") /\ r.at + 1 = o.queries[k].start}
RECURSIVE PastQuantifiers(_, _, _)
PastQuantifiers(t, o, i) == IF IsOneOf(t, i, {"ALL", "DISTINCT"}) THEN PastQuantifiers(t, o, i - 1) ELSE i
IsUnionArm(t, o, q) == LET i == PastQuantifiers(t, o, q.start - 1) IN IsWord(t, i, "UNION") /\ o.depths[i] = q.base
InSelectList(t, o, q, around) ==
  \A i \in around.start + 1..q.start - 2 : o.depths[i] = around.base => ~IsOneOf(t, i, {"FROM"} \cup QueryClauses)
ColumnAlias(t, o, q, around) ==
  LET a == AfterAs(t, Closing(t, o.depths, q.start - 1) + 1)
  IN IF a < around.end /\ CanBeAlias(t, a) /\ o.depths[a] = o.depths[q.start - 1] THEN t[a].key ELSE ""
PrecedingClause(t, o, q, around) ==
  LET words == {"ON", "FROM", "JOIN", "ROWS"} \cup QueryClauses
      before == {i \in around.start + 1..q.start - 2 : o.depths[i] = around.base /\ IsOneOf(t, i, words)}
  IN IF before = {} THEN "" ELSE t[Max(before)].key

\* The role of a query, what it is called, and the predicate it is in.
QueryRole(t, o, k) ==
  LET q == o.queries[k]
      around == o.queries[q.parent]
      clause == PrecedingClause(t, o, q, around)
      predicate == IF IsOneOf(t, q.start - 2, {"EXISTS", "IN"}) THEN t[q.start - 2].key ELSE ""
  IN IF IsUnionArm(t, o, q) THEN <<"union", "", "">>
     ELSE IF q.parent = 0 THEN <<"main", "", "">>
     ELSE IF Derived(t, o, k) # {} THEN <<"derived", (CHOOSE r \in Derived(t, o, k) : TRUE).alias, "">>
     ELSE IF around.kind = "SELECT" /\ IsSign(t, q.start - 1, "(") /\ InSelectList(t, o, q, around)
     THEN <<"column", ColumnAlias(t, o, q, around), "">>
     ELSE IF clause = "WHERE" THEN <<"where", "", predicate>>
     ELSE IF clause = "HAVING" THEN <<"having", "", predicate>>
     ELSE IF clause = "ON" THEN <<"join", "", predicate>>
     ELSE <<"other", "", "">>

-----------------------------------------------------------------------------
(* Properties.                                                             *)

OfLocal(t, i) == t[i].means.as \in {"variable", "local", "written"}
IsVariable(t, i) == t[i].means.as = "variable"

\* What was renamed is what the script meant: occurrences of one local are spelled
\* alike, locals of a unit differently, and nothing else has changed
\* (Analysis.Rename, whose edits are the references).  Occurrences that are
\* Overlooked are excepted: a rename leaves the local after a procedural FROM as it
\* was, and a local may be renamed to LIMIT, MERGE, BREAK or LEAVE, after which only
\* its declaration is found and renamed again.
RenamesKeepMeanings ==
  LET locals == {i \in DOMAIN text : OfLocal(source, i) /\ ~Overlooked(text, i)}
  IN /\ \A i \in DOMAIN text : ~OfLocal(source, i) \/ IsWord(source, i - 1, "FROM") => text[i] = source[i]
     /\ \A i, k \in locals :
          source[k].means.of[1] = source[i].means.of[1] =>
            (text[k].key = text[i].key <=> source[k].means.of = source[i].means.of)

\* References of a local are its own, and all of them but those Overlooked unless it
\* may not be renamed (bindOccurrences, classifyName).
LocalsAreFound(v) ==
  ~IsMalformed(v.a.scan) =>
    \A s \in Declared(v.a) :
      LET own == {i \in DOMAIN text : OfLocal(text, i) /\ ~Overlooked(text, i) /\ text[i].means.of = text[s].means.of}
      IN /\ References(v, s) \subseteq own
         /\ s \notin v.blocked => References(v, s) = own

\* The definition of a qualifier is the alias that its query, or the nearest around
\* it, declares (interBaseAliasDefinition).
AliasesLead(v) ==
  \A i \in {k \in DOMAIN text : text[k].means.as \in {"alias", "declared"} /\ v.roles[k].role \in {"alias", "callable"}} :
    LET found == AliasDefinition(text, v.a, i)
    IN /\ \A at \in found : text[at].means = [as |-> "declared", of |-> text[i].means.of, wrong |-> ""]
       /\ v.a.contexts[i].kind = "sql" /\ found = {} => text[i].means.of = <<>>

\* A query of the outline is where the statement has one, in its role (QueryOutline).
OutlineIsRight ==
  \A o \in {Outline(text)} : \A k \in DOMAIN o.queries :
    LET at == text[o.queries[k].start].means
    IN at.as = "query" => QueryRole(text, o, k) = at.of

\* All of these, with the exceptions each has.
SymbolsAreWhatTheyName ==
  /\ RenamesKeepMeanings /\ OutlineIsRight
  /\ \A v \in {View(text)} : LocalsAreFound(v) /\ AliasesLead(v)
=============================================================================
