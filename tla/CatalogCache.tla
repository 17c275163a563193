------------------------------ MODULE CatalogCache ------------------------------
(***************************************************************************)
(* How the categories of one metadata generation become a cache            *)
(* (metadata/merge.go) when a provider reads them one by one               *)
(* (internal/database/interbase_metadata_*.go), in whatever order the      *)
(* loader's jobs finish.                                                   *)
(*                                                                         *)
(* A database is what its catalog tables hold; names are model strings     *)
(* and Folded gives the upper-cased form the shared maps are keyed by.     *)
(* Versions stand for everything a row says besides names and links.       *)
(* Generators, functions, exceptions and system relations are merged like  *)
(* procedures and are left out, as are the schema list, the copies of maps *)
(* (values are immutable here) and malformed payloads, which are refused   *)
(* before anything is merged.                                              *)
(***************************************************************************)
EXTENDS Naturals, Sequences, SequencesExt, FiniteSetsExt, Functions

CONSTANTS
  Relation,    \* names of tables and views
  Folded,      \* the upper-cased form of every name
  Rank,        \* the position of every name in the catalog's order
  Generated,   \* domains the engine made for columns (RDB$n)
  Elsewhere    \* relations of other schemas: only an all-schema read sees them

NoMap == [x \in {} |-> x]
Lookup(f, x, none) == IF x \in DOMAIN f THEN f[x] ELSE none

(* ------------------------------ the cache ------------------------------- *)

CatalogKinds == {"views", "procedures", "domains", "indexes", "triggers"}
InterBaseKinds == CatalogKinds
  \cup {"relations", "columnsCurrent", "primaryKeys", "foreignKeys", "dependencies"}

NewCache ==
  [ready |-> {}, relations |-> {}, columns |-> NoMap, byTable |-> NoMap,
   keys |-> NoMap, keySets |-> NoMap, fks |-> {}, edges |-> {}, checks |-> {},
   views |-> NoMap, procedures |-> NoMap, domains |-> NoMap, indexes |-> NoMap, triggers |-> NoMap,
   foldedViews |-> NoMap, indexesByTable |-> NoMap, triggersByTable |-> NoMap, objects |-> {}]

ColumnsReady(c) == c.ready \cap {"columnsCurrent", "columnsAll"} # {}

\* The columns of a table get their Key from the folded key set of the table's
\* folded name; those of another schema keep the Key their reader gave.
WithKeys(cols, keySets) ==
  {[c EXCEPT !.key = IF c.table \in Elsewhere THEN @
                     ELSE IF \E k \in Lookup(keySets, Folded[c.table], {}) : Folded[k] = Folded[c.name]
                     THEN "YES" ELSE "NO"] : c \in cols}

\* Groups that share a folded name share one entry.
GroupBy(f, fold(_)) ==
  [k \in {fold(x) : x \in DOMAIN f} |-> UNION {f[x] : x \in {y \in DOMAIN f : fold(y) = k}}]
ByTable(columns) == GroupBy(columns, LAMBDA r : Folded[r])
KeySets(keys) == GroupBy([r \in DOMAIN keys |-> {keys[r][i] : i \in DOMAIN keys[r]}], LAMBDA r : Folded[r])

\* Of the descriptors that share a folded name the last in catalog order is kept.
FoldedMap(f) ==
  [k \in {Folded[x] : x \in DOMAIN f} |->
     CHOOSE x \in DOMAIN f : Folded[x] = k /\ \A y \in DOMAIN f : Folded[y] = k => Rank[y] <= Rank[x]]
ByRelation(f, names) ==
  [k \in {Folded[f[x].rel] : x \in names} |-> {x \in names : Folded[f[x].rel] = k}]

Objects(c) == UNION {{<<k, x>> : x \in DOMAIN c[k]} : k \in CatalogKinds}

\* A plausible mistake: the columns of the current schema replace those of all schemas.
MergeColumnsLast(base, kind, p) ==
  LET cols == IF "primaryKeys" \in base.ready THEN [r \in DOMAIN p |-> WithKeys(p[r], base.keySets)] ELSE p
  IN [base EXCEPT !.columns = cols, !.byTable = ByTable(cols)]
MergeColumns(base, kind, p) ==
  LET cols == IF "primaryKeys" \in base.ready THEN [r \in DOMAIN p |-> WithKeys(p[r], base.keySets)] ELSE p
  IN IF kind = "columnsCurrent" /\ "columnsAll" \in base.ready THEN base
     ELSE [base EXCEPT !.columns = cols, !.byTable = ByTable(cols)]

MergePrimaryKeys(base, p) ==
  LET cols == [r \in DOMAIN base.columns |-> WithKeys(base.columns[r], KeySets(p))]
      keyed == [base EXCEPT !.keys = p, !.keySets = KeySets(p)]
  IN IF ColumnsReady(base) THEN [keyed EXCEPT !.columns = cols, !.byTable = ByTable(cols)] ELSE keyed

\* InterBase sends no index groups: they are formed from the folded map, like
\* those of triggers.
MergeCatalog(base, kind, p) ==
  LET kept == {FoldedMap(p)[k] : k \in DOMAIN FoldedMap(p)}
      next == [base EXCEPT ![kind] = p,
                 !.foldedViews     = IF kind = "views" THEN FoldedMap(p) ELSE @,
                 !.indexesByTable  = IF kind = "indexes" THEN ByRelation(p, kept) ELSE @,
                 !.triggersByTable = IF kind = "triggers" THEN ByRelation(p, kept) ELSE @]
  IN [next EXCEPT !.objects = Objects(next)]

\* mergeMetadata: one category's rows p join base.
Merge(base, kind, p) ==
  LET next == CASE kind = "relations"     -> [base EXCEPT !.relations = p]
                [] kind = "primaryKeys"  -> MergePrimaryKeys(base, p)
                [] kind = "foreignKeys"  -> [base EXCEPT !.fks = p]
                [] kind = "dependencies"  -> [base EXCEPT !.edges = p.edges, !.checks = p.checks]
                [] kind \in CatalogKinds  -> MergeCatalog(base, kind, p)
                [] OTHER                  -> MergeColumns(base, kind, p)
  IN [next EXCEPT !.ready = @ \cup {kind}]

(* ------------------------------ the readers ----------------------------- *)

\* A database: kind and version of every relation, its columns (name -> domain),
\* key columns and, for a view, the relations it reads; foreign keys, checks,
\* indexes and triggers as rows; domains and procedures.
Live(db) == {r \in Relation : db.kind[r] # "none"}
TypeOf(db, d) == <<d, db.domains[d]>>

\* An owner is <<kind, name>>; relation is the table a row hangs on, if it does.
Covered(owners, id, relation) ==
  \/ id \in owners
  \/ relation # "" /\ {<<"table", relation>>, <<"view", relation>>} \cap owners # {}
OfRelation(owners) == {r \in Relation : Covered(owners, <<"">>, r)}

ReadRelations(db, on) == (Live(db) \cap on) \ Elsewhere
ReadColumns(db, on) ==
  [r \in {x \in Live(db) \cap on : db.columns[x] # NoMap} |->
     {[table |-> r, name |-> c, type |-> TypeOf(db, db.columns[r][c]),
       key |-> IF r \in Elsewhere THEN "own" ELSE ""] : c \in DOMAIN db.columns[r]}]
ReadPrimaryKeys(db, on) == Restrict(db.keys, {r \in Live(db) \cap on : db.keys[r] # <<>>})
\* Both tables of a foreign key list it.
ReadForeignKeys(db, on) ==
  UNION {{<<Folded[k.from], Folded[k.to], k>>, <<Folded[k.to], Folded[k.from], k>>} :
           k \in {x \in db.fks : {x.from, x.to} \cap on # {}}}
ViewsOf(db, on) == {r \in Live(db) \cap on : db.kind[r] = "view"}
AsView(db, r, cols) == [text |-> db.text[r], columns |-> {[c EXCEPT !.key = "NO"] : c \in cols}]

\* A plausible mistake: a view keeps the Key its columns have in the cache.
ReadViewsAsCached(db, cache) ==
  [r \in ViewsOf(db, Relation) |-> [text |-> db.text[r], columns |-> Lookup(cache.columns, r, {})]]
\* A full read takes a view's columns from the columns loaded before it.
ReadViews(db, cache) ==
  [r \in ViewsOf(db, Relation) |-> AsView(db, r, Lookup(cache.columns, r, {}))]

ReadProcedures(db, names) ==
  [p \in DOMAIN db.procedures \cap names |->
     [text |-> db.procedures[p].text, params |-> {TypeOf(db, d) : d \in db.procedures[p].params}]]
ReadDomains(db, names) == Restrict(db.domains, {d \in DOMAIN db.domains \cap names : d \notin Generated})

\* The indexes of a database: those the user made, and one under each key.
IndexRows(db) ==
  {[name |-> i, rel |-> db.indexes[i].rel, text |-> db.indexes[i].text, on |-> <<>>] : i \in DOMAIN db.indexes}
  \cup {[name |-> "PK_" \o r, rel |-> r, text |-> 0, on |-> db.keys[r]] : r \in {x \in Live(db) : db.keys[x] # <<>>}}
  \cup {[name |-> k.name, rel |-> k.from, text |-> 0, on |-> <<k.to>>] : k \in db.fks}
ReadOf(rows, owners, kind) ==
  LET on == {x \in rows : Covered(owners, <<kind, x.name>>, x.rel)}
  IN [n \in {x.name : x \in on} |-> CHOOSE x \in on : x.name = n]
TriggerRows(db) ==
  {[name |-> t, rel |-> db.triggers[t].rel, text |-> db.triggers[t].text] : t \in DOMAIN db.triggers}

\* RDB$DEPENDENCIES, its relations told apart by the views already known, and the
\* trigger of a check shown as the constraint.
RelationRef(r, views) == <<IF r \in views THEN "view" ELSE "table", r, "">>
EdgesOf(db, views) ==
  UNION {{[from |-> RelationRef(v, views), to |-> RelationRef(r, views)] : r \in db.base[v]} : v \in Live(db)}
  \cup UNION {{[from |-> <<"procedure", p, "">>, to |-> RelationRef(r, views)] : r \in db.procedures[p].uses} :
                p \in DOMAIN db.procedures}
  \cup {[from |-> <<"trigger", t, "">>, to |-> RelationRef(db.triggers[t].rel, views)] : t \in DOMAIN db.triggers}
  \cup {[from |-> <<"constraint", k, db.checks[k]>>, to |-> RelationRef(db.checks[k], views)] : k \in DOMAIN db.checks}
ReadDependencies(db, cache) ==
  [edges |-> EdgesOf(db, DOMAIN cache.views), checks |-> {<<db.checks[k], k>> : k \in DOMAIN db.checks}]

\* What the job of each category returns, given the cache loaded before it.
Read(db, kind, cache) ==
  CASE kind = "relations"       -> ReadRelations(db, Relation)
    [] kind = "columnsCurrent" -> ReadColumns(db, Relation \ Elsewhere)
    [] kind = "columnsAll"     -> ReadColumns(db, Relation)
    [] kind = "primaryKeys"    -> ReadPrimaryKeys(db, Relation \ Elsewhere)
    [] kind = "foreignKeys"    -> ReadForeignKeys(db, Relation)
    [] kind = "views"           -> ReadViews(db, cache)
    [] kind = "procedures"      -> ReadProcedures(db, DOMAIN db.procedures)
    [] kind = "domains"         -> ReadDomains(db, DOMAIN db.domains)
    [] kind = "indexes"         -> ReadOf(IndexRows(db), {<<"table", r>> : r \in Relation}, "index")
    [] kind = "triggers"        -> ReadOf(TriggerRows(db), {<<"table", r>> : r \in Relation}, "trigger")
    [] kind = "dependencies"    -> ReadDependencies(db, cache)

DependsOn(kind) == CASE kind = "views" -> {"columnsCurrent"} [] kind = "dependencies" -> {"views"} [] OTHER -> {}
================================================================================
