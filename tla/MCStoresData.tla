------------------------------ MODULE MCStoresData ------------------------------
(***************************************************************************)
(* What the stores of MCStores hold: databases to load metadata from, the  *)
(* statements that change them, declarations to describe, and catalogs     *)
(* with the details that are asked of them.                                *)
(***************************************************************************)
EXTENDS Integers, Sequences, Functions, TLC

(* ------------------------------- databases ------------------------------ *)

\* A and a fold alike, as do the indexes of their keys; S is another schema's.
Folding == "a" :> "A" @@ "PK_a" :> "PK_A"
Names == {"A", "a", "B", "S", "C", "D", "I", "T", "P", "N", "K", "RDB1", "PK_A", "PK_a", "PK_B", "FK1"}
FoldedName == Folding @@ [x \in Names |-> x]
RankOfName == [x \in Names |-> IF x \in DOMAIN Folding THEN 2 ELSE 1]

NoRows == [x \in {} |-> x]
TwoColumns == "C" :> "N" @@ "D" :> "RDB1"
Tables(rs, relations) ==
  [grants |-> 0, kind |-> [r \in relations |-> IF r \in rs THEN "table" ELSE "none"],
   text |-> [r \in relations |-> 0],
   columns |-> [r \in relations |-> IF r \in rs THEN TwoColumns ELSE NoRows],
   keys |-> [r \in relations |-> IF r = "A" THEN <<"C">> ELSE <<>>],
   base |-> [r \in relations |-> {}],
   fks |-> {[name |-> "FK1", from |-> "a", to |-> "A"]}, checks |-> "K" :> "A",
   domains |-> "N" :> 0 @@ "RDB1" :> 0, indexes |-> "I" :> [rel |-> "A", text |-> 0],
   triggers |-> "T" :> [rel |-> "a", text |-> 0],
   procedures |-> "P" :> [params |-> {"N"}, uses |-> {"a"}, text |-> 0]]
AsView(db, v, b) == [db EXCEPT !.kind[v] = "view", !.columns[v] = db.columns[b], !.base[v] = {b}]

MergeRelations == {"A", "a", "B", "S"}
MergeWorld == AsView(Tables(MergeRelations, MergeRelations), "B", "A")
MergeWorlds == {MergeWorld, [AsView(MergeWorld, "a", "S") EXCEPT !.fks = {}]}

WatchRelations == {"A", "a", "B"}
WatchStart == Tables({"A", "a"}, WatchRelations)
WatchStarts == {WatchStart, AsView(WatchStart, "B", "A")}

(* ------------------------------ statements ------------------------------ *)

Without(f, S) == Restrict(f, DOMAIN f \ S)
RowsOn(f, r) == {x \in DOMAIN f : f[x].rel = r}
IsTable(d, r) == d.kind[r] = "table"
Existing(d) == {r \in WatchRelations : d.kind[r] # "none"}
Referred(d, r) == \E k \in d.fks : k.to = r
Used(d, r) == \/ Referred(d, r) \/ \E v \in Existing(d) : r \in d.base[v]
              \/ \E p \in DOMAIN d.procedures : r \in d.procedures[p].uses

Dropped(d, r) ==
  [d EXCEPT !.kind[r] = "none", !.columns[r] = NoRows, !.keys[r] = <<>>, !.base[r] = {},
     !.fks = {k \in @ : k.from # r}, !.checks = Without(@, {k \in DOMAIN @ : @[k] = r}),
     !.indexes = Without(@, RowsOn(@, r)), !.triggers = Without(@, RowsOn(@, r))]
RelationStatements(d) ==
  {Dropped(d, r) : r \in {x \in Existing(d) : ~Used(d, x)}}
  \cup {[d EXCEPT !.kind[r] = "table", !.text[r] = 1, !.columns[r] = "C" :> "N", !.keys[r] = <<"C">>] :
          r \in WatchRelations \ Existing(d)}
  \cup {[AsView(d, v, "A") EXCEPT !.text[v] = 2] : v \in {x \in {"B", "a"} \ Existing(d) : IsTable(d, "A")}}
  \cup {[d EXCEPT !.columns[r] = Without(@, {"D"})] : r \in {x \in WatchRelations : IsTable(d, x)}}
  \cup {[d EXCEPT !.domains[x] = 1 - @] : x \in DOMAIN d.domains}
KeyStatements(d) ==
  {[d EXCEPT !.keys[r] = <<>>] : r \in {x \in WatchRelations : ~Referred(d, x)}}
  \cup {[d EXCEPT !.keys[r] = <<"D", "C">>] :
          r \in {x \in WatchRelations : IsTable(d, x) /\ d.keys[x] = <<>> /\ "D" \in DOMAIN d.columns[x]}}
  \cup {[d EXCEPT !.fks = {}]}
  \cup {[d EXCEPT !.fks = {[name |-> "FK1", from |-> "B", to |-> r]}] :
          r \in {x \in {"a", "A"} : d.fks = {} /\ d.keys[x] # <<>> /\ IsTable(d, "B")}}
  \cup {[d EXCEPT !.checks = IF @ = NoRows THEN "K" :> "a" ELSE NoRows] : x \in {y \in {"a"} : IsTable(d, y)}}
OtherStatements(d) ==
  {[d EXCEPT !.indexes = IF @ = NoRows THEN "I" :> [rel |-> r, text |-> 1] ELSE NoRows] : r \in {x \in {"a"} : IsTable(d, x)}}
  \cup {[d EXCEPT !.triggers = "T" :> [rel |-> r, text |-> 1]] : r \in {x \in {"A"} : IsTable(d, x)}}
  \cup {[d EXCEPT !.procedures = IF @ = NoRows THEN "P" :> [params |-> {"RDB1"}, uses |-> {"A"} \cap Existing(d), text |-> 1]
                                 ELSE NoRows]}
  \cup {[d EXCEPT !.grants = 1]}
Statements(d) == UNION {RelationStatements(d), KeyStatements(d), OtherStatements(d)} \ {d}

(* ----------------------------- declarations ----------------------------- *)

Typed(base, args, charset) == [base |-> base, args |-> args, charset |-> charset, collation |-> {}]
NumberTypes == {Typed("NUMERIC", <<4, 1>>, {}), Typed("NUMERIC", <<9, 2>>, {}), Typed("DECIMAL", <<9, 0>>, {}),
                Typed("NUMERIC", <<15, 2>>, {}), Typed("DECIMAL", <<12, 0>>, {}), Typed("INTEGER", <<>>, {}), Typed("DOUBLE PRECISION", <<>>, {})}
OtherTypes == {Typed("CHAR", <<10>>, {}), Typed("VARCHAR", <<10>>, {"UTF8"}), Typed("DATE", <<>>, {}),
               [Typed("CHAR", <<10>>, {"WIN1252"}) EXCEPT !.collation = {"PXW"}], Typed("BLOB", <<>>, {})}
Dialect3Types == {Typed("NUMERIC", <<18, 4>>, {}), Typed("TIMESTAMP", <<>>, {})}
TypesOf(dialect) == NumberTypes \cup OtherTypes \cup IF dialect = 3 THEN Dialect3Types ELSE {}

Defaults == {{}, {<<"DEFAULT", "0">>}}
\* clear: how the engine writes a flag that is not set.
Declared(types, defaults, checks, computed) ==
  [type : types, notNull : BOOLEAN, default : defaults, check : checks, computed : computed,
   recorded : BOOLEAN, clear : {{}, {0}}]
Plain(type) == [type |-> type, notNull |-> FALSE, default |-> {}, check |-> {}, computed |-> {}, recorded |-> TRUE,
                clear |-> {}]

OwnColumns(dialect) ==
  {[own |-> d, domain |-> {}, collation |-> c] :
     d \in Declared(TypesOf(dialect), Defaults, {{}}, {{}, {"a + b"}}), c \in {{}, {"PXW"}}}
DomainColumns(dialect) ==
  {[own |-> [Plain(Typed("INTEGER", <<>>, {})) EXCEPT !.notNull = n, !.default = o, !.clear = c],
    domain |-> {d}, collation |-> {}] :
     n \in BOOLEAN, o \in {{}, {<<"1">>}}, c \in {{}, {0}},
     d \in Declared(TypesOf(dialect), Defaults, {{}, {"CHECK"}}, {{}})}

Dialects == {1, 3}
ColumnSubjects == UNION {[kind : {"column"}, dialect : {x}, column : OwnColumns(x) \cup DomainColumns(x), key : BOOLEAN] :
                           x \in Dialects}
DomainSubjects == UNION {[kind : {"domain"}, dialect : {x},
                          domain : Declared(TypesOf(x), Defaults, {{}, {"CHECK"}}, {{}})] : x \in Dialects}
Inline(type) == [own |-> Plain(type), domain |-> {}, collation |-> {}]
OfDomain(d) == [own |-> Plain(d.type), domain |-> {d}, collation |-> {}]
Parameters(x) == {Inline(t) : t \in TypesOf(x)}
  \cup {OfDomain([Plain(Typed("NUMERIC", <<9, 2>>, {})) EXCEPT !.notNull = n, !.clear = c]) : n \in BOOLEAN, c \in {{}, {0}}}
ProcedureSubjects == UNION {[kind : {"procedure"}, dialect : {x}, input : {<<p, q>> : p \in Parameters(x), q \in Parameters(x)},
                             output : {<<>>} \cup {<<p>> : p \in Parameters(x)}] : x \in Dialects}
FlagValues == {{}, {0}, {1}}
IndexSubjects == [kind : {"index"}, dialect : {3},
  index : [name : {"I"}, relation : {"T"}, segments : {<<"A", "B">>, <<>>}, expression : {{}, {"UPPER(A)"}},
           uniqueFlag : FlagValues, inactive : FlagValues, type : FlagValues]]
TriggerSubjects == [kind : {"trigger"}, dialect : {3},
  trigger : [name : {"G"}, relation : {{}, {"T"}}, type : {1, 17}, sequence : {{}, {0}, {5}}, inactive : FlagValues,
             source : {{}, {"body"}}]]
FunctionSubjects == [kind : {"function"}, dialect : {3},
  arguments : {<<>>} \cup {<<[Plain(t) EXCEPT !.recorded = n]>> : t \in TypesOf(3), n \in BOOLEAN}]
KeySegments(n) == {at \in UNION {[1..m -> 1..n] : m \in 0..n} : \A i, j \in DOMAIN at : i < j => at[i] < at[j]}
ForeignKeySubjects ==
  UNION {{[kind |-> "foreign key", dialect |-> 3, columns |-> SubSeq(<<"A", "B", "C">>, 1, n), at |-> at,
           referenced |-> SubSeq(names, 1, Len(at))] :
            at \in KeySegments(n), names \in {<<"X", "Y", "Z">>, <<"Z", "X", "Y">>}} : n \in 1..3}
Declarations == ColumnSubjects \cup DomainSubjects \cup ProcedureSubjects \cup FunctionSubjects
  \cup IndexSubjects \cup TriggerSubjects \cup ForeignKeySubjects

(* -------------------------------- details ------------------------------- *)

Alike == "A2" :> "A1" @@ "A3" :> "A1" @@ "P2" :> "P1" @@ "MAIN" :> "main"
FoldedSpelling == Alike @@ [x \in {"A1", "P1", "main", "other"} |-> x]
Object(schema, kind, name) == [schema |-> schema, kind |-> kind, name |-> name, refuses |-> FALSE]
Refusing(o) == [o EXCEPT !.refuses = TRUE]
Catalog(e, there, asks, names) ==
  [engine |-> e, objects |-> [o \in there |-> [there |-> TRUE, version |-> 1]], asks |-> asks, names |-> names]
Asked(schema, kind, name, facet) ==
  [object |-> [schema |-> schema, kind |-> kind, name |-> name], facet |-> facet, dialect |-> 3, system |-> FALSE,
   consistency |-> "committed"]
\* Definition and Hover differ in what they show, not in what they ask for.
FromNames(role, by) ==
  {[name |-> "A2", quoted |-> TRUE, role |-> role, by |-> by], [name |-> "A1", quoted |-> FALSE, role |-> role, by |-> by]}

\* Tables of the user and of the system whose names fold alike.
TableCatalog ==
  Catalog("interbase", {Object("", "table", "A1"), Object("", "table", "A2"), Object("", "system", "A3")},
    {Asked("", "table", "A3", "columns"), [Asked("", "table", "A3", "columns") EXCEPT !.system = TRUE],
     Asked("", "table", "A1", "ddl")}, {})
RelationCatalog(by, asks) ==
  Catalog("interbase", {Refusing(Object("", "table", "A2")), Object("", "view", "A3")}, asks, FromNames("relation", by))
ObjectCatalog(by) ==
  Catalog("interbase", {Object("", "procedure", "A1"), Refusing(Object("", "procedure", "A2")), Object("", "view", "A1")},
    {}, FromNames("object", by))
GeneratorCatalog ==
  Catalog("interbase", {Object("", "generator", "A1")},
    {Asked("", "generator", "A1", "ddl"), Asked("", "generator", "A2", "ddl"),
     [Asked("", "generator", "A1", "ddl") EXCEPT !.consistency = "transaction"]}, {})
RenderedCatalog ==
  Catalog("interbase", {Object("", "view", "A1"), Refusing(Object("", "function", "A1"))},
    {Asked("", "view", "A2", "ddl"), [Asked("", "view", "A2", "ddl") EXCEPT !.dialect = 1],
     Asked("", "function", "A2", "ddl"), Asked("", "function", "A1", "source")}, {})
SchemaObjects == {Object("main", "table", "A1"), Object("main", "table", "A2"), Object("other", "table", "A1"),
                  Object("main", "view", "P1")}
MySQLCatalog ==
  Catalog("mysql", SchemaObjects,
    {Asked("", "table", "A3", "ddl"), Asked("", "view", "P2", "source"), Asked("other", "view", "P1", "ddl")}, {})
DuckDBCatalog ==
  Catalog("duckdb", SchemaObjects,
    {Asked("", "table", "A3", "ddl"), Asked("other", "table", "A2", "ddl"), Asked("MAIN", "view", "P2", "ddl")}, {})
DetailCatalogs ==
  {TableCatalog, GeneratorCatalog, RenderedCatalog, MySQLCatalog, DuckDBCatalog,
   RelationCatalog("definition", {}), RelationCatalog("hover", {Asked("", "table", "A3", "description")}),
   ObjectCatalog("definition"), ObjectCatalog("hover")}
=============================================================================
