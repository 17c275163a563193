------------------------------ MODULE WatchedRefresh ------------------------------
(***************************************************************************)
(* The incremental catalog refresh of InterBase: a compact fingerprint of  *)
(* the system tables is compared with the baseline's, the differing rows   *)
(* select what to read again (interbase_watch_mapping.go), the selection   *)
(* is read category by category, each in a short READ COMMITTED            *)
(* transaction of its own (interbase_watch_changes.go), and the replies    *)
(* replace their owners in the published cache (metadata/watch_merge.go).  *)
(* What cannot be mapped is read in full (interbase_watch_full.go).        *)
(* MetadataStore models when a refresh runs and what it may publish.       *)
(*                                                                         *)
(* The fingerprint rows come from the driver's schema package, whose       *)
(* source is not in the repository: their owners and links are those the   *)
(* tests of the mapping rely on.  A row's digest is the row.  Left out:    *)
(* computed columns, character sets and collations, system relations,      *)
(* generators, functions and exceptions (selected like procedures), the    *)
(* budgets of the mapping, batches of names, and corrupt rows, which make  *)
(* a read fail.                                                            *)
(***************************************************************************)
EXTENDS CatalogCache

CONSTANTS
  MaxDescriptors,   \* more affected descriptors than this are read in full
  DDL(_),           \* the databases one statement makes of a database
  MaxDDL,           \* bound on the statements
  Starts            \* the databases at the start

(* --------------------------- the fingerprint ---------------------------- *)

Link(from, to, field) == [from |-> from, to |-> to, field |-> field]
Row(fam, key, owner, links, value) == [fam |-> fam, key |-> key, owner |-> owner, links |-> links, value |-> value]

Rel(r) == <<"relation", r>>
Version(n) == <<"version", n>>
SystemRow == <<"system">>
CheckTrigger(k) == <<"trigger", "CHECK_" \o k>>
\* A constraint and the index under it share their name in this model.
KeyRows(db) ==
  {[name |-> i.name, rel |-> i.rel, to |-> IF i.name \in {k.name : k \in db.fks} THEN i.on ELSE <<>>] :
     i \in {x \in IndexRows(db) : x.on # <<>>}}

RelationFamilies(db) ==
  {Row("RELATIONS", <<r>>, <<IF db.kind[r] = "view" THEN "view" ELSE "relation", r>>, {}, Version(db.text[r])) : r \in Live(db)}
  \cup UNION {{Row("RELATION_FIELDS", <<r, c>>, Rel(r), {Link(Rel(r), <<"domain", db.columns[r][c]>>, c)}, <<>>) :
                 c \in DOMAIN db.columns[r]} : r \in Live(db)}
  \cup UNION {{Row("VIEW_RELATIONS", <<r, b>>, <<"view", r>>, {Link(<<"view", r>>, Rel(b), "")}, <<>>) :
                 b \in db.base[r]} : r \in Live(db)}
ConstraintFamilies(db) ==
  {Row("RELATION_CONSTRAINTS", <<i.name>>, <<"constraint", i.name>>,
       {Link(<<"constraint", i.name>>, Rel(i.rel), "KEY"), Link(<<"constraint", i.name>>, <<"index", i.name>>, "")}, <<>>) :
     i \in KeyRows(db)}
  \cup {Row("REF_CONSTRAINTS", <<k.name>>, <<"constraint", k.name>>,
            {Link(<<"constraint", k.name>>, <<"constraint", "PK_" \o k.to>>, "")}, <<>>) : k \in db.fks}
  \cup {Row("RELATION_CONSTRAINTS", <<k>>, <<"constraint", k>>, {Link(<<"constraint", k>>, Rel(db.checks[k]), "CHECK")}, <<>>) :
          k \in DOMAIN db.checks}
  \cup {Row("CHECK_CONSTRAINTS", <<k>>, <<"constraint", k>>, {Link(<<"constraint", k>>, CheckTrigger(k), "CHECK")}, <<>>) :
          k \in DOMAIN db.checks}
IndexFamilies(db) ==
  {Row("INDICES", <<i.name>>, <<"index", i.name>>,
       {Link(<<"index", i.name>>, Rel(i.rel), "")}
         \cup {Link(<<"index", i.name>>, <<"index", "PK_" \o k.to>>, "FOREIGN_KEY") : k \in {x \in db.fks : x.name = i.name}},
       Version(i.text)) : i \in IndexRows(db)}
  \cup UNION {{Row("INDEX_SEGMENTS", <<i.name, n>>, <<"index", i.name>>, {}, <<"field", i.on[n]>>) : n \in DOMAIN i.on} : i \in IndexRows(db)}
RoutineFamilies(db) ==
  {Row("FIELDS", <<d>>, <<"domain", d>>, {}, Version(db.domains[d])) : d \in DOMAIN db.domains}
  \cup {Row("PROCEDURES", <<p>>, <<"procedure", p>>, {}, Version(db.procedures[p].text)) : p \in DOMAIN db.procedures}
  \cup UNION {{Row("PROCEDURE_PARAMETERS", <<p, d>>, <<"procedure", p>>, {Link(<<"procedure", p>>, <<"domain", d>>, "")}, <<>>) :
                 d \in db.procedures[p].params} : p \in DOMAIN db.procedures}
  \cup {Row("TRIGGERS", <<t>>, <<"trigger", t>>, {Link(<<"trigger", t>>, Rel(db.triggers[t].rel), "")}, Version(db.triggers[t].text)) :
          t \in DOMAIN db.triggers}
  \cup {Row("TRIGGERS", <<"CHECK_" \o k>>, CheckTrigger(k), {Link(CheckTrigger(k), Rel(db.checks[k]), "")}, SystemRow) :
          k \in DOMAIN db.checks}
DependencyRow(from, r) == Row("DEPENDENCIES", <<from[1], from[2], r>>, from, {Link(from, Rel(r), "")}, <<>>)
DependencyFamily(db) ==
  UNION {{DependencyRow(Rel(v), r) : r \in db.base[v]} : v \in Live(db)}
  \cup UNION {{DependencyRow(<<"procedure", p>>, r) : r \in db.procedures[p].uses} : p \in DOMAIN db.procedures}
  \cup {DependencyRow(<<"trigger", t>>, db.triggers[t].rel) : t \in DOMAIN db.triggers}
  \cup {DependencyRow(CheckTrigger(k), db.checks[k]) : k \in DOMAIN db.checks}
Fingerprint(db) ==
  UNION {RelationFamilies(db), ConstraintFamilies(db), IndexFamilies(db), RoutineFamilies(db), DependencyFamily(db)}
    \cup {Row("USER_PRIVILEGES", <<>>, <<"principal", "PUBLIC">>, {}, Version(db.grants))}

(* ----------------------------- the mapping ------------------------------ *)

Plain(o) == IF o[1] = "view" THEN <<"relation", o[2]>> ELSE o
HeaderFamily == {"RELATIONS", "FIELDS", "PROCEDURES", "TRIGGERS", "INDICES"}
IsExcluded(row) == \/ row.fam = "TRIGGERS" /\ row.value = SystemRow
                   \/ row.fam = "FIELDS" /\ row.owner[2] \in Generated
Category(row) == IF IsExcluded(row) THEN "excluded" ELSE row.owner[1]

RoutingFor(rows) ==
  [headers |-> {r \in rows : r.fam \in HeaderFamily},
   names   |-> {Plain(r.owner) : r \in {x \in rows : x.fam \in HeaderFamily}},
   hidden  |-> {r.owner : r \in {x \in rows : x.fam \in HeaderFamily /\ IsExcluded(x)}},
   views   |-> {r.owner[2] : r \in {x \in rows : x.fam # "DEPENDENCIES" /\ x.owner[1] = "view"}},
   links   |-> UNION {r.links : r \in {x \in rows : x.fam # "DEPENDENCIES"}}]
From(R, o) == {l \in R.links : Plain(l.from) = o}
To(R, o)   == {l \in R.links : Plain(l.to) = o}

\* The dependency graph's name for an object.
ConstraintsOf(R, o) ==
  {<<"constraint", l.from[2], p.to[2]>> :
     <<l, p>> \in {x \in To(R, o) \X UNION {From(R, m.from) : m \in To(R, o)} :
                     x[1].field = "CHECK" /\ x[2].field = "CHECK" /\ x[2].from = x[1].from /\ Plain(x[2].to)[1] = "relation"}}
Ref(R, o) ==
  CASE o[1] = "trigger" /\ ConstraintsOf(R, o) # {} -> CHOOSE c \in ConstraintsOf(R, o) : TRUE
    [] o[1] = "relation" -> <<IF o[2] \in R.views THEN "view" ELSE "table", o[2], "">>
    [] OTHER -> <<o[1], o[2], "">>

\* What add reaches from one object: the users of a domain, the ends of a
\* constraint, the table of an index or a trigger, and the key an index refers to.
Follow(both, o) ==
  CASE o[1] = "domain"     -> {Plain(l.from) : l \in UNION {To(R, o) : R \in both}}
    [] o[1] = "constraint" -> {Plain(l.to) : l \in UNION {From(R, o) : R \in both}}
    [] o[1] \in {"index", "trigger"} ->
         {Plain(l.to) : l \in {x \in UNION {From(R, o) : R \in both} : Plain(x.to)[1] = "relation" \/ x.field = "FOREIGN_KEY"}}
         \cup {l.from : l \in {x \in UNION {To(R, o) : R \in both} : o[1] = "trigger" /\ x.field = "CHECK"}}
    [] OTHER -> {}
Closure(both, seeds) ==
  LET grow[n \in 0..6] == IF n = 0 THEN seeds
                          ELSE LET last == grow[n - 1] IN last \cup UNION {Follow(both, o) : o \in last}
  IN grow[6]

Full(reason) == [full |-> reason, owners |-> NoMap]

\* What mapWatchedChanges works with: the routings of the baseline and of the
\* candidate, the rows that differ, and the objects they reach.
Mapping(old, new) ==
  LET R == RoutingFor(old)  N == RoutingFor(new)  changed == (old \ new) \cup (new \ old) IN
  [old |-> old, new |-> new, R |-> R, N |-> N, both |-> {R, N}, changed |-> changed,
   visited |-> Closure({R, N}, {Plain(r.owner) : r \in {x \in changed : x.fam # "DEPENDENCIES"}})]

Eligible(m, o, S) == \/ o \in S.names \ S.hidden
                     \/ o \notin m.R.names \cup m.N.names /\ ~(o[1] = "domain" /\ o[2] \in Generated)
NamedObjects(m, k) == {o \in m.visited : o[1] = k /\ \E S \in m.both : Eligible(m, o, S)}
NamedKinds == {"domain", "procedure", "index", "trigger"}
AllNamed(m, kinds) == UNION {NamedObjects(m, k) : k \in kinds}
RelationNames(m) == {o[2] : o \in {x \in m.visited : x[1] = "relation"}}
DroppedRelation(m, r) == Rel(r) \in m.R.names \ m.N.names
IsView(m, r, S) == r \in S.views /\ Eligible(m, Rel(r), S)
RelationId(m, r) == <<IF \E S \in m.both : IsView(m, r, S) THEN "view" ELSE "table", r>>
RelationIds(m) == {RelationId(m, r) : r \in RelationNames(m)}
\* A changed relation header owns its whole groups of indexes and triggers.
Headed(m) == {<<"table", r.owner[2]>> : r \in {x \in m.changed : x.fam = "RELATIONS"}}

\* cover: what each category has to read again.
OwnersOf(m) ==
  LET tables == {<<"table", r>> : r \in RelationNames(m)} IN
  [k \in {"columnsCurrent", "primaryKeys", "foreignKeys"} |-> tables]
    @@ "relations"  :> RelationIds(m)
    @@ "views"      :> {x \in RelationIds(m) : x[1] = "view"}
    @@ "domains"    :> NamedObjects(m, "domain")
    @@ "procedures" :> NamedObjects(m, "procedure")
    @@ "indexes"    :> NamedObjects(m, "index") \cup Headed(m)
    @@ "triggers"   :> NamedObjects(m, "trigger") \cup Headed(m)

\* The indexes and triggers that are read again, by name or with their relation.
Group(m, k) ==
  {o \in (m.R.names \ m.R.hidden) \cup (m.N.names \ m.N.hidden) :
     /\ o[1] = k
     /\ o \in NamedObjects(m, k) \/ \E S \in m.both : \E l \in From(S, o) : \E h \in Headed(m) : l.to = Rel(h[2])}
Groups(m) == Group(m, "index") \cup Group(m, "trigger")

Deleted(m) ==
  {RelationId(m, r) : r \in {x \in RelationNames(m) : DroppedRelation(m, x)}}
    \cup {o \in AllNamed(m, NamedKinds) : o \in m.R.names /\ ~(o \in m.N.names /\ Eligible(m, o, m.N))}
\* What a reply must contain because the candidate has it.
Expected(m) ==
  {RelationId(m, r) : r \in {x \in RelationNames(m) : Rel(x) \in m.N.names}}
    \cup {o \in AllNamed(m, {"domain", "procedure"}) \cup Groups(m) : o \in m.N.names /\ Eligible(m, o, m.N)}

\* The check constraints of the relations that are read again, and every object
\* whose outgoing edges the candidate replaces.
ChecksOf(m) ==
  {<<l.to[2], l.from[2]>> :
     l \in {x \in m.N.links : x.field = "CHECK" /\ Plain(x.to)[1] = "relation" /\ x.to[2] \in RelationNames(m)}}
DependencyOwners(m) ==
  LET touched == {o \in m.visited : o[1] # "constraint"} \cup Groups(m)
                 \cup {Plain(r.owner) : r \in {x \in m.changed : x.fam = "DEPENDENCIES"}}
  IN {Ref(S, o) : S \in m.both, o \in touched} \cup {<<"constraint", c[2], c[1]>> : c \in ChecksOf(m)}
CandidateEdges(m) ==
  {[from |-> Ref(m.N, l.from), to |-> Ref(m.N, l.to)] :
     l \in UNION {r.links : r \in {x \in m.new : x.fam = "DEPENDENCIES"}}}
PhysicallyGone(deleted, ref) ==
  \E id \in deleted : \/ id[1] = ref[1] /\ id[2] = ref[2]
                      \/ id[1] \in {"table", "view"} /\ ref[3] = id[2]
                      \/ {id[1], ref[1]} \subseteq {"table", "view"} /\ ref[2] = id[2]

\* change: differences that no selection can stand for.
VisibilityChanged(m) == \E r \in m.changed : r.fam = "USER_PRIVILEGES"
CategoryChanged(m) ==
  \E a \in m.old \ m.new, b \in m.new \ m.old :
    a.fam \in HeaderFamily /\ b.fam = a.fam /\ b.key = a.key /\ Category(a) # Category(b)

Selection(m, owners, deleted, deps, edges) ==
  IF VisibilityChanged(m) THEN Full("visibility")
  ELSE IF CategoryChanged(m) THEN Full("mapping")
  ELSE IF Cardinality(RelationIds(m) \cup AllNamed(m, NamedKinds) \cup Groups(m)) > MaxDescriptors THEN Full("volume")
  ELSE IF \E e \in edges : PhysicallyGone(deleted, e.from) \/ PhysicallyGone(deleted, e.to) THEN Full("mapping")
  ELSE [full |-> "", owners |-> Restrict(owners, {k \in DOMAIN owners : owners[k] # {}}), deleted |-> deleted,
        deps |-> deps, edges |-> {e \in edges : e.from \in deps}, checks |-> ChecksOf(m),
        checked |-> {r \in RelationNames(m) : ~DroppedRelation(m, r)}, expected |-> Expected(m)]
Selected(m) == Selection(m, OwnersOf(m), Deleted(m), DependencyOwners(m), CandidateEdges(m))
Select(old, new) == Selected(Mapping(old, new))

(* ---------------------------- the replacement --------------------------- *)

\* The scoped read of one category.
ReadScoped(db, kind, owners) ==
  LET on == OfRelation(owners)  names == {o[2] : o \in owners} IN
  CASE kind = "columnsCurrent" -> ReadColumns(db, on)
    [] kind = "primaryKeys"    -> ReadPrimaryKeys(db, on)
    [] kind = "foreignKeys"    -> ReadForeignKeys(db, on)
    [] kind = "relations"       -> ReadRelations(db, on)
    [] kind = "views"           -> [r \in ViewsOf(db, on) |-> AsView(db, r, ReadColumns(db, {r})[r])]
    [] kind = "domains"         -> ReadDomains(db, names)
    [] kind = "procedures"      -> ReadProcedures(db, names)
    [] kind = "indexes"         -> ReadOf(IndexRows(db), owners, "index")
    [] kind = "triggers"        -> ReadOf(TriggerRows(db), owners, "trigger")

KindOf == [k \in CatalogKinds |-> CASE k = "views" -> "view" [] k = "procedures" -> "procedure"
                                    [] k = "domains" -> "domain" [] k = "indexes" -> "index" [] k = "triggers" -> "trigger"]
OnRelation(k, x) == IF k \in {"indexes", "triggers"} THEN x.rel ELSE ""
IsDeleted(deleted, relation) == relation # "" /\ {<<"table", relation>>, <<"view", relation>>} \cap deleted # {}

\* A header the candidate has must be in its reply: an empty reply is no deletion.
MissingHeader(sel, patch) ==
  \E id \in sel.expected :
    LET there(k) == k \in DOMAIN patch => id[2] \in DOMAIN patch[k] IN
    CASE id[1] \in {"table", "view"} -> \/ "relations" \in DOMAIN patch /\ id[2] \notin patch["relations"]
                                        \/ id[1] = "view" /\ ~there("views")
      [] id[1] = "index" -> ~there("indexes") [] id[1] = "trigger" -> ~there("triggers")
      [] id[1] = "domain" -> ~there("domains") [] id[1] = "procedure" -> ~there("procedures")

\* A named owner without a row is gone.
AbsentOwners(sel, patch) ==
  UNION {{id \in sel.owners[k] : /\ id[1] = KindOf[k] /\ id[2] \notin DOMAIN patch[k]} : k \in CatalogKinds \cap DOMAIN patch}
  \cup (IF "relations" \in DOMAIN patch THEN {id \in sel.owners["relations"] : id[2] \notin patch["relations"]} ELSE {})

\* replaceDescriptors: the covered and the deleted go, the replies come.
Replaced(base, k, sel, patch, deleted) ==
  LET owners == Lookup(sel.owners, k, {})  rows == Lookup(patch, k, NoMap)
      kept == {n \in DOMAIN base[k] : LET relation == OnRelation(k, base[k][n]) IN
                 ~(\/ Covered(owners, <<KindOf[k], n>>, relation) \/ <<KindOf[k], n>> \in deleted \/ IsDeleted(deleted, relation))}
  IN rows @@ Restrict(base[k], kept)
Resurrected(patch, deleted) ==
  \/ \E k \in CatalogKinds \cap DOMAIN patch : \E n \in DOMAIN patch[k] :
       <<KindOf[k], n>> \in deleted \/ IsDeleted(deleted, OnRelation(k, patch[k][n]))
  \/ \E k \in {"columnsCurrent", "primaryKeys"} \cap DOMAIN patch : \E r \in DOMAIN patch[k] : IsDeleted(deleted, r)
  \/ "relations" \in DOMAIN patch /\ \E r \in patch["relations"] : IsDeleted(deleted, r)
  \/ "foreignKeys" \in DOMAIN patch /\
       \E k \in patch["foreignKeys"] : {x \in {k[3].from, k[3].to} : IsDeleted(deleted, x)} # {}

\* Indexes are grouped from their exact names here, triggers from the folded map.
MergeCatalogRows(base, sel, patch, deleted) ==
  LET next(k) == Replaced(base, k, sel, patch, deleted)
      folded == FoldedMap(next("triggers"))
      c == [base EXCEPT !.views = next("views"), !.procedures = next("procedures"), !.domains = next("domains"),
              !.indexes = next("indexes"), !.triggers = next("triggers"), !.foldedViews = FoldedMap(next("views")),
              !.indexesByTable = IF next("indexes") = base.indexes THEN @ ELSE ByRelation(next("indexes"), DOMAIN next("indexes")),
              !.triggersByTable = IF next("triggers") = base.triggers THEN @
                                  ELSE ByRelation(next("triggers"), {folded[k] : k \in DOMAIN folded})]
  IN [c EXCEPT !.objects = Objects(c)]

\* A plausible mistake: a key change refreshes its own table only.
SharesNameExact(r, touched) == r \in touched
\* Every table that shares its folded name with a touched one shows the same keys.
SharesName(r, touched) == \E t \in touched : Folded[t] = Folded[r]

Rekeyed(rows, keySets, touched) ==
  [r \in DOMAIN rows |-> IF SharesName(r, touched) THEN WithKeys(rows[r], keySets) ELSE rows[r]]
\* Views own a copy of their columns, without keys.
RefreshedViews(views, cols, touched) ==
  [v \in DOMAIN views |->
     IF SharesName(v, touched) THEN [views[v] EXCEPT !.columns = {[c EXCEPT !.key = "NO"] : c \in Lookup(cols, v, {})}]
     ELSE views[v]]

MergeColumnRows(base, sel, patch, deleted) ==
  LET touched == {r \in Relation : IsDeleted(deleted, r)} \cup OfRelation(Lookup(sel.owners, "columnsCurrent", {}))
      keep(f) == Restrict(f, DOMAIN f \ touched)
      keys == Lookup(patch, "primaryKeys", NoMap) @@ keep(base.keys)
      rows == Lookup(patch, "columnsCurrent", NoMap) @@ keep(base.columns)
      cols == Rekeyed(rows, KeySets(keys), touched)
  IN IF touched = {} THEN base
     ELSE [base EXCEPT !.keys = keys, !.keySets = KeySets(keys), !.columns = cols, !.byTable = ByTable(cols),
                       !.views = RefreshedViews(@, cols, touched)]

MergeForeignKeyRows(base, sel, patch, deleted) ==
  LET out(k) == \E r \in {k[3].from, k[3].to} : IsDeleted(deleted, r) \/ Covered(Lookup(sel.owners, "foreignKeys", {}), <<"">>, r)
  IN [base EXCEPT !.fks = {k \in @ : ~out(k)} \cup Lookup(patch, "foreignKeys", {})]

\* What an edge refers to was deleted: the object, the relation it is part of, or a view
\* met as a table.
IsGone(deleted, r) ==
  \E id \in deleted : \/ r[1] = id[1] /\ r[2] = id[2]
                      \/ id[1] \in {"table", "view"} /\ r[3] = id[2]
                      \/ id[1] = "view" /\ r[1] = "table" /\ r[2] = id[2]

MergeDependencyRows(base, sel, deleted) ==
  LET loose(e) == IsGone(deleted, e.from) \/ IsGone(deleted, e.to)
      outdated(c) == IsDeleted(deleted, c[1]) \/ c[1] \in sel.checked
  IN [base EXCEPT !.edges = {e \in @ : e.from \notin sel.deps /\ ~loose(e)} \cup sel.edges,
                  !.checks = {c \in @ : ~outdated(c)} \cup sel.checks]

Incomplete == [NewCache EXCEPT !.ready = {"incomplete"}]

\* MergeObjects: nothing of base is published if a reply does not fit its coverage.
MergeObjects(base, sel, patch) ==
  LET deleted == sel.deleted \cup AbsentOwners(sel, patch)
      catalog == MergeCatalogRows(base, sel, patch, deleted)
      removed == deleted \cup UNION {{<<KindOf[k], n>> : n \in DOMAIN base[k] \ DOMAIN catalog[k]} : k \in CatalogKinds}
      relations == (base.relations \ ({r \in Relation : IsDeleted(removed, r)} \cup OfRelation(Lookup(sel.owners, "relations", {}))))
                   \cup Lookup(patch, "relations", {})
      rows == MergeForeignKeyRows(MergeColumnRows([catalog EXCEPT !.relations = relations], sel, patch, removed), sel, patch, removed)
      badEdge == \E e \in sel.edges : IsGone(removed, e.from) \/ IsGone(removed, e.to)
  IN IF Resurrected(patch, removed) \/ badEdge \/ ~(sel.checked \subseteq relations) THEN Incomplete
     ELSE MergeDependencyRows(rows, sel, removed)

(* ------------------------------ the machine ----------------------------- *)

VARIABLES
  db,         \* the database
  cache,      \* what is published
  baseline,   \* the fingerprint the cache stands for
  late,       \* the database that the last reads may have seen parts of
  phase,      \* "settled": the last refresh met no statement | "torn" | "changed" | "failed"
  ddls
watchVars == <<db, cache, baseline, late, phase, ddls>>

FullKinds == <<"relations", "columnsCurrent", "primaryKeys", "views", "dependencies",
               "indexes", "foreignKeys", "procedures", "domains", "triggers">>
ChangeKinds == <<"columnsCurrent", "domains", "foreignKeys", "indexes", "primaryKeys",
                 "procedures", "relations", "triggers", "views">>

\* The first n categories are read before, the others after a statement.
ReadFull(before, after, n) ==
  LET merge[i \in 0..Len(FullKinds)] ==
        IF i = 0 THEN NewCache
        ELSE LET base == merge[i - 1]
             IN Merge(base, FullKinds[i], Read(IF i <= n THEN before ELSE after, FullKinds[i], base))
  IN merge[Len(FullKinds)]
ReadChanges(sel, before, after, n) ==
  [k \in DOMAIN sel.owners |->
     ReadScoped(IF \E i \in 1..n : ChangeKinds[i] = k THEN before ELSE after, k, sel.owners[k])]

WatchInit ==
  /\ db \in Starts /\ cache = ReadFull(db, db, 0) /\ baseline = Fingerprint(db)
  /\ late = baseline /\ phase = "settled" /\ ddls = 0

Statement ==
  /\ ddls < MaxDDL /\ ddls' = ddls + 1
  /\ db' \in DDL(db) /\ phase' = "changed"
  /\ UNCHANGED <<cache, baseline, late>>

\* Some row was changed and changed back since the baseline: the comparison
\* cannot see it, though a read in between may have.
KeysOfRows(rows) == {<<r.fam, r.key>> : r \in rows}
Differing(a, b) == KeysOfRows((a \ b) \cup (b \ a))
ChangedBack == ~(Differing(baseline, late) \subseteq Differing(baseline, Fingerprint(db)))

\* Maintain and ReadWatchedDelta with ReadWatchedFull: the fingerprint comes first,
\* statements may commit between the reads, and only a complete reply is published.
Reply(sel, patch) == IF MissingHeader(sel, patch) THEN Incomplete ELSE MergeObjects(cache, sel, patch)
Outcome(sel, next, n) ==
  IF sel.full # "" THEN ReadFull(db, next, n) ELSE Reply(sel, ReadChanges(sel, db, next, n))
Publish(got, next) ==
  LET ok == got # Incomplete
  IN /\ cache' = IF ok THEN got ELSE cache
     /\ baseline' = IF ok THEN Fingerprint(db) ELSE baseline
     /\ late' = IF ok THEN Fingerprint(next) ELSE late
     /\ phase' = IF next # db THEN "torn" ELSE IF ok THEN "settled" ELSE "failed"
Refresh(next, n) ==
  /\ phase # "settled" /\ ~ChangedBack
  /\ Publish(Outcome(Select(baseline, Fingerprint(db)), next, n), next)
  /\ db' = next

RefreshAlone == Refresh(db, 0) /\ UNCHANGED ddls
RefreshTorn ==
  /\ ddls < MaxDDL /\ ddls' = ddls + 1
  /\ \E next \in DDL(db), n \in 0..Len(FullKinds) : Refresh(next, n)

WatchNext == Statement \/ RefreshAlone \/ RefreshTorn

(* ------------------------------- property ------------------------------- *)

\* After a refresh that no statement disturbed the cache is exactly what a full
\* load of the database gives, whatever the statements before it changed and
\* however the refreshes before it were torn; and such a refresh never gives up.
\* Two exceptions: rows that were changed and changed back (see ChangedBack), and
\* the index groups of names that fold alike, which a full load forms from the
\* folded map and an incremental one from the exact names.
IncrementalIsFull ==
  LET full == ReadFull(db, db, 0)
      alike == Cardinality(DOMAIN FoldedMap(full.indexes)) # Cardinality(DOMAIN full.indexes)
  IN /\ phase # "failed"
     /\ phase = "settled" => /\ [cache EXCEPT !.indexesByTable = {}] = [full EXCEPT !.indexesByTable = {}]
                             /\ alike \/ cache.indexesByTable = full.indexesByTable
================================================================================
