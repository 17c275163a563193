------------------------------ MODULE DetailPlans ------------------------------
(***************************************************************************)
(* What a detail is of: how a provider turns a request into a plan         *)
(* (MetadataDetailPlan of the InterBase, MySQL and DuckDB repositories),   *)
(* how Lease.Detail runs the plan against one generation, what is loaded   *)
(* once and shared, and what Definition and Hover of the language service  *)
(* show of it (language/navigation_target.go, navigation_detail.go).       *)
(*                                                                         *)
(* A catalog is the objects of the database with their versions: a text    *)
(* read from it names its object, facet, dialect and version.  Loading     *)
(* and fencing are those of module DetailPromise: one load per coverage    *)
(* and generation, and a new generation answers the waiting with stale.    *)
(* The statuses of categories, connection failures and the ranges inside a *)
(* text are left out.                                                      *)
(***************************************************************************)
EXTENDS Naturals, FiniteSets

CONSTANTS
  Readers,      \* goroutines in Lease.Detail, or in Definition
  Catalogs,     \* what a store may start on: its engine, its objects, what is asked for
                \* and the names it is navigated from, each with its role in the text
  Folded,       \* Folded[n]: the name n folds to
  SourceDialect,
  MaxGenerations, MaxChanges    \* bounds

VARIABLES
  start, db,    \* what the store started on, and the database as it is
  value,        \* the value of its generators
  changes,
  caches,       \* caches[g]: the catalog of generation g; the last is the current one
  loads,        \* the details loading or kept in the current generation
  reader

detailVars == <<start, db, value, changes, caches, loads, reader>>

engine == start.engine
Default == "main"    \* the schema of an unqualified name
Unqualified == ""
gen == Cardinality(DOMAIN caches)

The(x) == CHOOSE e \in x : TRUE
There(catalog) == {o \in DOMAIN catalog : catalog[o].there}
Error(out) == [out |-> out, object |-> {}, text |-> {}]
Detail(object, text) == [out |-> "detail", object |-> {object}, text |-> text]
Text(o, facet, dialect, catalog) ==
  {[of |-> o, facet |-> facet, dialect |-> dialect, version |-> catalog[o].version, value |-> 0]}

(* -------------------------------- resolving ------------------------------ *)

\* Slip: the first of several names that fold alike is taken.
MatchesAny(objects, want) ==
  LET alike == {o \in objects : Folded[o.name] = Folded[want]} IN IF alike = {} THEN {} ELSE {The(alike)}

\* ObjectIndex: the exact name, or else every name that folds to it.
Matches(objects, want) ==
  LET exact == {o \in objects : o.name = want} IN
    IF exact # {} THEN exact ELSE {o \in objects : Folded[o.name] = Folded[want]}

OfKind(catalog, kind) == {o \in There(catalog) : o.kind = kind}

\* A request for a table finds the user's relations, views included, or, asked to, the
\* system's.
InterBaseCandidates(catalog, q) ==
  IF q.object.kind = "table" /\ q.system THEN OfKind(catalog, "system")
  ELSE IF q.object.kind = "table" \/ q.facet = "columns" THEN OfKind(catalog, "table") \cup OfKind(catalog, "view")
  ELSE OfKind(catalog, q.object.kind)

\* Views are listed with the tables; a table is what is not a view.
MySQLCandidates(catalog, q) == {o \in OfKind(catalog, q.object.kind) : o.schema = Default}
DuckDBCandidates(catalog, q) ==
  LET schema == IF q.object.schema = Unqualified THEN Default ELSE Folded[q.object.schema]
  IN {o \in OfKind(catalog, q.object.kind) : o.schema = schema}

Candidates(catalog, q) ==
  CASE engine = "interbase" -> InterBaseCandidates(catalog, q)
    [] engine = "mysql" -> MySQLCandidates(catalog, q)
    [] OTHER -> DuckDBCandidates(catalog, q)

\* MySQL serves its own schema; DuckDB every schema of the catalog.
MySQLSchema(q) == q.object.schema \in {Unqualified, Default}
DuckDBSchema(catalog, q) == q.object.schema = Unqualified \/ Folded[q.object.schema] \in {o.schema : o \in DOMAIN catalog}
SchemaServed(catalog, q) ==
  CASE engine = "mysql" -> MySQLSchema(q) [] engine = "duckdb" -> DuckDBSchema(catalog, q) [] OTHER -> TRUE

Resolve(catalog, q, Then(_)) ==
  LET found == Matches(Candidates(catalog, q), q.object.name) IN
    IF ~SchemaServed(catalog, q) THEN Error("unsupported")
    ELSE IF found = {} THEN Error("missing")
    ELSE IF Cardinality(found) > 1 THEN Error("ambiguous")
    ELSE Then(CHOOSE o \in found : TRUE)

(* --------------------------------- plans --------------------------------- *)

\* load: whether the load looks for the object, takes the facts of the generation or
\* reads the database; canonical: whether the spelling of the request is left out of
\* the coverage; render: whether each request renders what was acquired.
Plan(load, canonical, render) ==
  [load |-> load, canonical |-> canonical, render |-> render, volatile |-> FALSE, marker |-> {}]

InterBaseColumns(q) ==
  IF q.object.kind = "table" /\ q.system THEN {[Plan("live", TRUE, FALSE) EXCEPT !.marker = {"system"}]}
  ELSE {Plan("facts", FALSE, FALSE)}
InterBaseDescription(q) ==
  IF q.object.kind \in {"table", "view"} /\ ~(q.object.kind = "table" /\ q.system) THEN {Plan("exists", FALSE, TRUE)} ELSE {}
InterBaseSource(q) == IF q.object.kind \in {"procedure", "view", "trigger"} THEN {Plan("facts", FALSE, FALSE)} ELSE {}

\* Slip: a generator is kept like everything else.
InterBaseDDLKept(q) ==
  IF q.object.kind \in {"procedure", "domain", "trigger", "index", "view"} THEN {Plan("exists", FALSE, TRUE)}
  ELSE IF q.object.kind = "generator" THEN {Plan("live", TRUE, TRUE)}
  ELSE IF q.object.kind \in {"exception", "function"} THEN {Plan("exists", TRUE, TRUE)}
  ELSE IF q.object.kind = "table" /\ ~q.system THEN {[Plan("live", TRUE, FALSE) EXCEPT !.marker = {"sourceDialect"}]}
  ELSE {}

\* The text of a table is that of its source dialect, whoever asks.
InterBaseDDL(q) ==
  IF q.object.kind \in {"procedure", "domain", "trigger", "index", "view"} THEN {Plan("exists", FALSE, TRUE)}
  ELSE IF q.object.kind = "generator" THEN {[Plan("live", TRUE, TRUE) EXCEPT !.volatile = TRUE]}
  ELSE IF q.object.kind \in {"exception", "function"} THEN {Plan("exists", TRUE, TRUE)}
  ELSE IF q.object.kind = "table" /\ ~q.system THEN {[Plan("live", TRUE, FALSE) EXCEPT !.marker = {"sourceDialect"}]}
  ELSE {}

InterBasePlan(q) ==
  IF q.consistency # "committed" THEN {}
  ELSE CASE q.facet = "columns" -> InterBaseColumns(q)
         [] q.facet = "description" -> InterBaseDescription(q)
         [] q.facet = "source" -> InterBaseSource(q)
         [] q.facet = "ddl" -> InterBaseDDL(q)
         [] OTHER -> {}

MySQLServes(q) ==
  CASE q.facet \in {"columns", "description"} -> q.object.kind \in {"table", "view"}
    [] q.facet = "source" -> q.object.kind \in {"procedure", "view", "trigger"}
    [] q.facet = "ddl" -> q.object.kind \in {"table", "view", "procedure", "function", "trigger"}
    [] OTHER -> FALSE
MySQLPlan(q) ==
  IF q.consistency = "committed" /\ MySQLServes(q)
  THEN {Plan(IF q.facet = "ddl" THEN "live" ELSE "facts", FALSE, FALSE)} ELSE {}

DuckDBPlan(q) ==
  IF /\ q.facet = "ddl" /\ q.consistency = "committed"
     /\ q.object.kind \in {"table", "view", "function", "index", "generator"}
  THEN {Plan("live", FALSE, FALSE)} ELSE {}

DetailPlan(q) ==
  CASE engine = "interbase" -> InterBasePlan(q) [] engine = "mysql" -> MySQLPlan(q) [] OTHER -> DuckDBPlan(q)

\* Slip: the system's relations share the coverage of the user's.
CoverageUnmarked(object, q, plan) == <<object, q.facet, plan.marker \ {"system"}>>

Coverage(object, q, plan) == <<object, q.facet, plan.marker>>

\* The name as asked for, or as the generation spells it.
Canonical(o, q) == [schema |-> Unqualified, kind |-> q.object.kind, name |-> o.name]
CoverageIn(catalog, q, plan) ==
  IF plan.canonical THEN Resolve(catalog, q, LAMBDA o : Detail(Canonical(o, q), {})) ELSE Detail(q.object, {})

(* -------------------------------- loading -------------------------------- *)

DialectFor(dialect) == IF dialect = 1 THEN 1 ELSE 3
DialectOf(q, plan) == IF plan.marker = {"sourceDialect"} THEN SourceDialect ELSE 0
AnswersTo(o, q, plan) ==
  IF engine # "interbase" THEN [schema |-> o.schema, kind |-> o.kind, name |-> o.name]
  ELSE IF plan.canonical THEN Canonical(o, q) ELSE q.object

\* What the driver renders no DDL for, it refuses.
Refused(o, q) == q.facet = "ddl" /\ engine = "interbase" /\ o.refuses

FromDatabase(o, q, plan) ==
  IF ~(o \in DOMAIN db /\ db[o].there) THEN Error("missing")
  ELSE IF q.object.kind = "generator" /\ engine = "interbase"
       THEN Detail(AnswersTo(o, q, plan), {[t EXCEPT !.value = value] : t \in Text(o, q.facet, 0, db)})
  ELSE IF Refused(o, q) THEN Error("refused")
  ELSE Detail(AnswersTo(o, q, plan), Text(o, q.facet, DialectOf(q, plan), db))

Load(catalog, q, plan) ==
  Resolve(catalog, q,
    LAMBDA o : CASE plan.load = "exists" -> Detail(AnswersTo(o, q, plan), {})
                 [] plan.load = "facts" -> Detail(AnswersTo(o, q, plan), Text(o, q.facet, 0, catalog))
                 [] OTHER -> FromDatabase(o, q, plan))

\* The value a generator's text was acquired with.
Drawn(acquired) == IF acquired.text = {} THEN 0 ELSE The(acquired.text).value

\* The acquired detail is rendered for the request at hand, in its dialect.
Render(catalog, acquired, q, plan) ==
  Resolve(catalog, q,
    LAMBDA o :
      IF Refused(o, q) THEN Error(IF o.kind \in {"function", "exception"} THEN "unsupported" ELSE "refused")
      ELSE LET dialect == IF o.kind = "function" THEN 3 ELSE DialectFor(q.dialect) IN
        [acquired EXCEPT !.text = {[t EXCEPT !.value = Drawn(acquired)] :
                                     t \in Text(o, q.facet, dialect, catalog)}])

(* ------------------------------ Lease.Detail ----------------------------- *)

NoReader == [at |-> "idle", q |-> {}, gen |-> 0, coverage |-> {}, since |-> 0, got |-> Error("none"), goal |-> {}]
Becomes(r, state) == reader' = [reader EXCEPT ![r] = state]
Answered(state, detail) == [state EXCEPT !.at = "answered", !.got = detail]

DetailInit ==
  /\ start \in Catalogs /\ db = start.objects
  /\ value = 1 /\ changes = 0 /\ caches = [g \in {1} |-> db] /\ loads = {} /\ reader = [r \in Readers |-> NoReader]

PlanOf(q) == The(DetailPlan(q))

\* The plan, and the coverage by the generation the categories were ready in.
Planned(q, goal) ==
  LET state == [NoReader EXCEPT !.q = {q}, !.gen = gen, !.goal = goal] IN
    IF DetailPlan(q) = {} THEN Answered(state, Error("unsupported"))
    ELSE LET plan == PlanOf(q)
             named == CoverageIn(caches[gen], q, plan)
         IN IF named.out # "detail" THEN Answered(state, named)
            ELSE [state EXCEPT !.at = "planned", !.coverage = {Coverage(o, q, plan) : o \in named.object}]

Ask(r, q) ==
  /\ reader[r].at = "idle" /\ Becomes(r, Planned(q, {}))
  /\ UNCHANGED <<start, db, value, changes, caches, loads>>

\* acquire: what is loading or kept under this coverage is shared.
Acquire(r) ==
  LET own == {l \in loads : {l.coverage} = reader[r].coverage} IN
  /\ reader[r].at = "planned"
  /\ \/ /\ reader[r].gen # gen /\ Becomes(r, Answered(reader[r], Error("stale"))) /\ UNCHANGED loads
     \/ /\ reader[r].gen = gen /\ own = {}
        /\ loads' = loads \cup {[coverage |-> The(reader[r].coverage), q |-> The(reader[r].q), at |-> "loading",
                                 since |-> value, got |-> Error("none")]}
        /\ Becomes(r, [reader[r] EXCEPT !.at = "waiting", !.since = value])
     \/ /\ reader[r].gen = gen
        /\ \E l \in own :
             IF l.at = "kept" THEN Becomes(r, [reader[r] EXCEPT !.at = "acquired", !.got = l.got, !.since = value])
             ELSE Becomes(r, [reader[r] EXCEPT !.at = "waiting", !.since = l.since])
        /\ UNCHANGED loads
  /\ UNCHANGED <<start, db, value, changes, caches>>

\* The load of the plan that came first, with the cache it was planned with.
LoadReturns(l) ==
  /\ l.at = "loading"
  /\ loads' = (loads \ {l}) \cup {[l EXCEPT !.at = "loaded", !.got = Load(caches[gen], l.q, PlanOf(l.q))]}
  /\ UNCHANGED <<start, db, value, changes, caches, reader>>

Settle(l) ==
  /\ l.at = "loaded"
  /\ loads' = (loads \ {l}) \cup IF l.got.out # "detail" \/ PlanOf(l.q).volatile THEN {} ELSE {[l EXCEPT !.at = "kept"]}
  /\ reader' = [r \in Readers |->
                  IF reader[r].at = "waiting" /\ reader[r].coverage = {l.coverage}
                  THEN [reader[r] EXCEPT !.at = "acquired", !.got = l.got] ELSE reader[r]]
  /\ UNCHANGED <<start, db, value, changes, caches>>

Answer(r) ==
  LET q == The(reader[r].q) IN
  /\ reader[r].at = "acquired"
  /\ Becomes(r, Answered(reader[r], IF reader[r].got.out # "detail" \/ ~PlanOf(q).render THEN reader[r].got
                                    ELSE Render(caches[reader[r].gen], reader[r].got, q, PlanOf(q))))
  /\ UNCHANGED <<start, db, value, changes, caches, loads>>

(* ------------------------------- navigation ------------------------------ *)

\* A name of the catalog: a quoted one as it is, another one folded.
Spelled(x) == IF x.quoted THEN x.name ELSE Folded[x.name]
\* Slip: a quoted name folds like any other.
CatalogNamesFolded(catalog, kind, x) == {o \in OfKind(catalog, kind) : Folded[o.name] = Folded[x.name]}

CatalogNames(catalog, kind, x) ==
  {o \in OfKind(catalog, kind) : IF x.quoted THEN o.name = x.name ELSE Folded[o.name] = Folded[x.name]}

\* catalogObjectByName: a procedure before a view before a trigger.
ObjectByName(catalog, x) ==
  LET of(k) == CatalogNames(catalog, k, x) IN
    IF of("procedure") # {} THEN of("procedure") ELSE IF of("view") # {} THEN of("view") ELSE of("trigger")

\* resolveCatalogRelation: a view that folds alike, or else the table spelled so.
RelationByName(catalog, x) ==
  IF CatalogNames(catalog, "view", x) # {} THEN CatalogNames(catalog, "view", x)
  ELSE {o \in OfKind(catalog, "table") : o.name = Spelled(x)}

NavigationTarget(catalog, x) ==
  LET found == IF x.role = "relation" THEN RelationByName(catalog, x) ELSE ObjectByName(catalog, x)
  IN {o \in found : Cardinality(found) = 1}

DetailOf(o, facet, dialect) ==
  [object |-> [schema |-> Unqualified, kind |-> o.kind, name |-> o.name], facet |-> facet, dialect |-> dialect, system |-> FALSE,
   consistency |-> "committed"]

\* Definition or Hover, with the snapshot of its request: the DDL of the target is
\* asked for, of the generation that is current then.
Navigate(r, x, g) ==
  LET target == NavigationTarget(caches[g], x) IN
  /\ engine = "interbase" /\ reader[r].at = "idle" /\ g \in {gen - 1, gen} \ {0}
  /\ Becomes(r, IF target = {} THEN [NoReader EXCEPT !.at = "shown"]
                ELSE LET o == The(target) IN Planned(DetailOf(o, "ddl", 3), {[name |-> x, object |-> o]}))
  /\ UNCHANGED <<start, db, value, changes, caches, loads>>

\* Only a refused DDL has a substitute.
Substitute(q) ==
  IF q.facet # "ddl" THEN {} ELSE IF q.object.kind = "table" THEN {"description"}
  ELSE IF q.object.kind \in {"procedure", "view", "trigger"} THEN {"source"} ELSE {}

Fallback(r) ==
  LET q == The(reader[r].q) IN
  /\ reader[r].at = "answered" /\ reader[r].goal # {} /\ reader[r].got.out = "refused" /\ Substitute(q) # {}
  /\ Becomes(r, Planned([q EXCEPT !.facet = The(Substitute(q))], reader[r].goal))
  /\ UNCHANGED <<start, db, value, changes, caches, loads>>

\* Slip: the object of the detail is not compared with the target.
IsShownAny(state) == state.got.out = "detail" /\ state.got.text # {}

\* Hover shows a text that is said to be of the target.  Definition also finds the
\* target's name declared there, or no declaration at all, as in a stored source; a
\* description has to declare it for either.
Declares(state, t) ==
  t.of.name = The(state.goal).object.name \/ t.facet = "source" \/ (t.facet = "ddl" /\ The(state.goal).name.by = "hover")
IsShown(state) ==
  /\ state.got.out = "detail" /\ state.got.text # {} /\ state.got.object = {The(state.q).object}
  /\ Declares(state, The(state.got.text))

Show(r) ==
  /\ reader[r].at = "answered"
  /\ ~(reader[r].goal # {} /\ reader[r].got.out = "refused" /\ Substitute(The(reader[r].q)) # {})
  /\ Becomes(r, IF reader[r].goal = {} THEN NoReader
                ELSE [reader[r] EXCEPT !.at = "shown", !.got = IF IsShown(reader[r]) THEN @ ELSE Error("nothing")])
  /\ UNCHANGED <<start, db, value, changes, caches, loads>>

Leave(r) ==
  /\ reader[r].at = "shown" /\ Becomes(r, NoReader)
  /\ UNCHANGED <<start, db, value, changes, caches, loads>>

(* ------------------------------ surroundings ----------------------------- *)

\* Another connection creates, alters or drops an object, or draws from a generator.
Change(o) ==
  /\ changes < MaxChanges /\ changes' = changes + 1
  /\ \E there \in BOOLEAN : db' = [db EXCEPT ![o] = [there |-> there, version |-> @.version + 1]]
  /\ UNCHANGED <<start, value, caches, loads, reader>>
Draw ==
  /\ OfKind(db, "generator") # {} /\ changes < MaxChanges /\ changes' = changes + 1 /\ value' = value + 1
  /\ UNCHANGED <<start, db, caches, loads, reader>>

\* A new generation fences off what the old one loads and keeps.
Refresh ==
  /\ gen < MaxGenerations
  /\ caches' = [g \in 1..(gen + 1) |-> IF g <= gen THEN caches[g] ELSE db] /\ loads' = {}
  /\ reader' = [r \in Readers |-> IF reader[r].at = "waiting" THEN Answered(reader[r], Error("stale")) ELSE reader[r]]
  /\ UNCHANGED <<start, db, value, changes>>

DetailNext ==
  \/ \E r \in Readers : \/ \E q \in start.asks : Ask(r, q)
                        \/ \E x \in start.names, g \in DOMAIN caches : Navigate(r, x, g)
                        \/ Acquire(r) \/ Answer(r) \/ Fallback(r) \/ Show(r) \/ Leave(r)
  \/ \E l \in loads : LoadReturns(l) \/ Settle(l)
  \/ \E o \in DOMAIN db : Change(o)
  \/ Draw \/ Refresh

DetailSpec == DetailInit /\ [][DetailNext]_detailVars

\* What a catalog can hold: names that are told apart among relations and among the
\* objects of any other kind, in the one schema of InterBase; requests and names as
\* they are written.
SameNames(o, p) ==
  /\ o.schema = p.schema /\ o.name = p.name
  /\ o.kind = p.kind \/ {o.kind, p.kind} \subseteq {"table", "view", "system"}
IsRequest(q) ==
  /\ q = [object |-> q.object, facet |-> q.facet, dialect |-> q.dialect, system |-> q.system,
          consistency |-> q.consistency]
  /\ q.object = [schema |-> q.object.schema, kind |-> q.object.kind, name |-> q.object.name]
IsCatalog(c) ==
  /\ IsFiniteSet(DOMAIN c.objects) /\ c.objects = [o \in DOMAIN c.objects |-> c.objects[o]]
  /\ \A o \in DOMAIN c.objects : c.objects[o].version \in Nat /\ (c.engine = "interbase" => o.schema = Unqualified)
  /\ \A o, p \in DOMAIN c.objects : SameNames(o, p) => o = p
  /\ \A q \in c.asks : IsRequest(q)
  /\ \A x \in c.names : x.name \in DOMAIN Folded
CatalogsAreWritten ==
  /\ \A n \in DOMAIN Folded : Folded[Folded[n]] = Folded[n]
  /\ \A c \in Catalogs : IsCatalog(c)

ASSUME DetailAssumption == CatalogsAreWritten

(* -------------------------------- property ------------------------------- *)

\* The one object a request denotes in a generation.
Denoted(catalog, q) ==
  LET objects == {o \in Candidates(catalog, q) : Folded[o.name] = Folded[q.object.name]}
      exact == {o \in objects : o.name = q.object.name}
  IN IF exact # {} THEN exact ELSE {o \in objects : Cardinality(objects) = 1}

DialectAsked(q, plan) ==
  IF engine = "interbase" /\ q.facet = "ddl" /\ q.object.kind = "table" THEN {SourceDialect}
  ELSE IF plan.render THEN {IF q.object.kind = "function" THEN 3 ELSE DialectFor(q.dialect)} ELSE {0}

TextOf(state, q, t) ==
  LET catalog == caches[state.gen]
      plan == PlanOf(q)
  IN /\ {t.of} = Denoted(catalog, q) /\ t.facet = q.facet /\ t.dialect \in DialectAsked(q, plan)
     /\ IF plan.load = "live" /\ ~plan.render THEN t.version \in catalog[t.of].version..db[t.of].version
        ELSE t.version = catalog[t.of].version
     /\ t.of.kind = "generator" /\ engine = "interbase" => t.value \in state.since..value

\* What is shown is DDL, or a description or a source where there is none, of what the
\* name leads to; Definition goes to no declaration of another name, and
\* neither describes another table.
Navigated(goal, t) ==
  /\ Folded[t.of.name] = Folded[goal.name.name] /\ t.of.kind = goal.object.kind
  /\ goal.name.quoted => goal.object.name = goal.name.name
  /\ t.facet = "description" \/ (t.facet = "ddl" /\ goal.name.by = "definition") => t.of.name = goal.object.name

\* A detail is of the object its request denotes, in the facet and the dialect asked
\* for and as the generation has it, where the plan reads the database no older than
\* that, and a generator's value from a read that was still running when it was asked
\* for.  No coverage is shared by requests that mean different things, no name is
\* guessed, and what Definition goes to declares the name it came from
\* (MetadataDetailPlan, Lease.Detail, loadNavigationDetail).
DetailsAreOfTheObject ==
  \A r \in Readers : reader[r].at \in {"answered", "shown"} /\ reader[r].q # {} =>
    LET q == The(reader[r].q) IN
      /\ reader[r].got.out = "detail" =>
           /\ \A t \in reader[r].got.text : TextOf(reader[r], q, t)
           /\ \A o \in reader[r].got.object : Folded[o.name] = Folded[q.object.name] /\ o.kind = q.object.kind
           /\ reader[r].at = "shown" => \A g \in reader[r].goal, t \in reader[r].got.text : Navigated(g, t)
      /\ reader[r].got.out = "missing" /\ PlanOf(q).load # "live" => Denoted(caches[reader[r].gen], q) = {}
      /\ reader[r].got.out = "ambiguous" => Denoted(caches[reader[r].gen], q) = {}
=============================================================================
