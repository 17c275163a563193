------------------------------ MODULE MetadataMerge ------------------------------
(***************************************************************************)
(* One generation is loaded: the jobs of the categories finish in whatever *)
(* order their reads allow and each is merged into the cache               *)
(* (metadata/merge.go, internal/database/interbase_metadata_jobs.go).      *)
(* MetadataLoader models how the jobs run; here is what they leave.        *)
(***************************************************************************)
EXTENDS CatalogCache

CONSTANT Worlds    \* the databases the generations are loaded from

VARIABLES
  world,    \* the database
  wide,     \* whether the provider also has an all-schema column category
  merged    \* the cache so far
mergeVars == <<world, wide, merged>>

PlanOf(w) == InterBaseKinds \cup (IF w THEN {"columnsAll"} ELSE {})

MergeInit == world \in Worlds /\ wide \in BOOLEAN /\ merged = NewCache

\* The job of a category ends, after those it depends on.
Finish(kind) ==
  /\ kind \in PlanOf(wide) \ merged.ready /\ DependsOn(kind) \subseteq merged.ready
  /\ merged' = Merge(merged, kind, Read(world, kind, merged))
  /\ UNCHANGED <<world, wide>>

MergeNext == \E kind \in PlanOf(TRUE) : Finish(kind)

MergeSpec == MergeInit /\ [][MergeNext]_mergeVars

\* What system tables can say: only a relation that exists has columns and keys, and
\* views are of the provider's own schema.
IsDatabase(db) ==
  /\ DOMAIN db.columns = Relation /\ DOMAIN db.keys = Relation
  /\ \A r \in Relation :
       /\ db.columns[r] = [c \in DOMAIN db.columns[r] |-> db.columns[r][c]]
       /\ db.kind[r] = "none" => db.columns[r] = NoMap /\ db.keys[r] = <<>>
       /\ db.kind[r] = "view" => r \notin Elsewhere
WorldsAreDatabases == \A db \in Worlds : IsDatabase(db)

(* ------------------------------- property ------------------------------- *)

\* What the cache must say once exactly the categories of ready are merged.
Answer(db, ready) ==
  LET rows == IF "columnsAll" \in ready THEN ReadColumns(db, Relation)
              ELSE IF "columnsCurrent" \in ready THEN ReadColumns(db, Relation \ Elsewhere) ELSE NoMap
      isKey(c) == \E r \in Relation \ Elsewhere : /\ Folded[r] = Folded[c.table]
                                                  /\ \E k \in ToSet(db.keys[r]) : Folded[k] = Folded[c.name]
  IN [r \in DOMAIN rows |->
        {[c EXCEPT !.key = IF r \in Elsewhere THEN "own"
                           ELSE IF "primaryKeys" \notin ready THEN ""
                           ELSE IF isKey(c) THEN "YES" ELSE "NO"] : c \in rows[r]}]

\* Jobs finish in any order and the cache they leave is the same: the all-schema
\* columns win over the current schema's, a column says YES or NO exactly once
\* the primary keys are known, under its exact and under its folded name, and a
\* view never shows the Key its columns happened to have when it was read.
MergedInAnyOrder ==
  /\ merged.columns = Answer(world, merged.ready)
  /\ merged.byTable = ByTable(merged.columns)
  /\ \A v \in DOMAIN merged.views : /\ \A c \in merged.views[v].columns : c.key = "NO"
                                    /\ {c.name : c \in merged.views[v].columns} = DOMAIN world.columns[v]
  /\ "dependencies" \in merged.ready => merged.edges = EdgesOf(world, ViewsOf(world, Relation))
  /\ merged.objects = Objects(merged)
================================================================================
