--------------------------- MODULE CatalogDescriptors ---------------------------
(***************************************************************************)
(* What becomes of a declaration on its way through the catalog: the       *)
(* engine stores it as rows, the readers of internal/database turn the     *)
(* rows into the descriptors a generation keeps (interbase_catalog.go,     *)
(* interbase_cache_bulk.go, interbase_metadata_functions.go), and the      *)
(* detail renderers turn descriptors back into the driver's values, whose  *)
(* statements the editor shows (interbase_metadata_detail.go).  ObjectDDL  *)
(* (interbase_ddl.go) renders the rows directly.                           *)
(*                                                                         *)
(* A nullable value is the set that holds it, {} for NULL.  A type is a    *)
(* label: base, arguments, character set, collation.  The text of a        *)
(* default is a sequence of words.  Catalog padding, read failures and the *)
(* layout of statements are left out; a statement is the record of what it *)
(* says.  The driver's renderer refuses a type whose facts are incomplete. *)
(***************************************************************************)
EXTENDS Integers, Sequences, SequencesExt, FiniteSetsExt, Functions

CONSTANTS
  Subjects,   \* the declarations, each with its kind and dialect
  Generated   \* the domains the engine made for inline types (RDB$n)

VARIABLE subject

RefusedType == [base |-> "refused", args |-> <<>>, charset |-> {}, collation |-> {}]
Label(base, args) == [base |-> base, args |-> args, charset |-> {}, collation |-> {}]
Value(x, none) == IF x = {} THEN none ELSE CHOOSE v \in x : TRUE
Positive(x) == \E v \in x : v > 0
Negative(x) == \E v \in x : v < 0

(* ------------------------------- the engine ------------------------------ *)

Fixed == {"NUMERIC", "DECIMAL"}
Characters == {"CHAR", "VARCHAR", "CSTRING"}
CharacterCode == [CHAR |-> 14, VARCHAR |-> 37, CSTRING |-> 40]
PlainCode == [SMALLINT |-> 7, INTEGER |-> 8, FLOAT |-> 10, BIGINT |-> 16, BOOLEAN |-> 17, BLOB |-> 261]

\* RDB$FIELD_TYPE.  Dialect 1 has one date type, code 35, and stores wide fixed
\* numbers in doubles.
TypeCode(t, dialect) ==
  IF t.base \in Fixed
  THEN IF t.args[1] <= 4 /\ t.base = "NUMERIC" THEN 7
       ELSE IF t.args[1] <= 9 THEN 8 ELSE IF dialect = 1 THEN 27 ELSE 16
  ELSE IF t.base \in Characters THEN CharacterCode[t.base]
  ELSE IF t.base = "DOUBLE PRECISION" THEN 27
  ELSE IF t.base = "TIMESTAMP" \/ (t.base = "DATE" /\ dialect = 1) THEN 35
  ELSE IF t.base = "DATE" THEN 12 ELSE PlainCode[t.base]

Flag(on, clear) == IF on THEN {1} ELSE clear

\* The RDB$FIELDS row of a domain, or of an inline type.  Old catalogs record
\* neither the precision of a number nor the length of a text in characters.
Field(name, d, dialect) ==
  [name |-> name, system |-> {}, type |-> {TypeCode(d.type, dialect)},
   subtype |-> IF d.type.base \in Fixed THEN {IF d.type.base = "NUMERIC" THEN 1 ELSE 2} ELSE {},
   scale |-> IF d.type.base \in Fixed THEN {-d.type.args[2]} ELSE {},
   precision |-> IF d.type.base \in Fixed /\ d.recorded THEN {d.type.args[1]} ELSE d.clear,
   length |-> IF d.type.base \in Characters THEN {3 * d.type.args[1]} ELSE {4},
   characters |-> IF d.type.base \in Characters /\ d.recorded THEN {d.type.args[1]} ELSE {},
   charset |-> d.type.charset, collation |-> d.type.collation,
   null |-> Flag(d.notNull, d.clear), default |-> d.default, check |-> d.check, computed |-> d.computed]

\* A column of a domain, or of a type of its own, which the engine makes a domain
\* for.  Its default and its NOT NULL stay with the column.
InlineField(d, dialect) ==
  Field("RDB$1", [d EXCEPT !.notNull = FALSE, !.default = {}, !.check = {}], dialect)
FieldOf(c, dialect) == IF c.domain = {} THEN InlineField(c.own, dialect)
                       ELSE Field("D", Value(c.domain, 0), dialect)
ColumnRow(c, dialect) ==
  [source |-> FieldOf(c, dialect).name, null |-> Flag(c.own.notNull, c.own.clear), default |-> c.own.default,
   collation |-> c.collation, field |-> FieldOf(c, dialect)]

(* ------------------------------- the driver ------------------------------ *)

IsFixed(d) == d.type \subseteq {7, 8, 16, 27} /\ (Positive(d.subtype) \/ Negative(d.scale))
BaseNames == [x \in {7, 8, 10, 12, 16, 17, 27, 35, 261} |->
  CASE x = 7 -> "SMALLINT" [] x = 8 -> "INTEGER" [] x = 10 -> "FLOAT" [] x = 12 -> "DATE" [] x = 16 -> "BIGINT"
    [] x = 17 -> "BOOLEAN" [] x = 27 -> "DOUBLE PRECISION" [] x = 35 -> "TIMESTAMP" [] OTHER -> "BLOB"]
CharacterName(code) == CHOOSE n \in Characters : CharacterCode[n] = code
FixedName(d) == IF d.subtype = {2} THEN "DECIMAL" ELSE "NUMERIC"
Scale(d) == IF Negative(d.scale) THEN -Value(d.scale, 0) ELSE Value(d.scale, 0)

\* Domain.SQLType: dialect 3, with character set and collation.
SQLType(d) ==
  LET code == Value(d.type, 0) IN
    IF code \in Range(CharacterCode)
    THEN IF d.characters = {} THEN RefusedType
         ELSE [base |-> CharacterName(code), args |-> <<Value(d.characters, 0)>>, charset |-> d.charset,
               collation |-> d.collation]
    ELSE IF code \notin DOMAIN BaseNames THEN RefusedType
    ELSE IF IsFixed(d)
         THEN IF Positive(d.precision) THEN Label(FixedName(d), <<Value(d.precision, 0), Scale(d)>>) ELSE RefusedType
         ELSE Label(BaseNames[code], <<>>)

(* ----------------------------- rendered types ---------------------------- *)

\* Slip: any recorded precision is taken, 0 too.
NumericTypeRaw(base, natural, d) ==
  IF Value(d.subtype, 0) = 0 /\ Value(d.scale, 0) >= 0 THEN Label(base, <<>>)
  ELSE Label(FixedName(d), <<Value(d.precision, natural), Scale(d)>>)

\* A number keeps its natural precision where none is recorded.
NumericType(base, natural, d) ==
  IF Value(d.subtype, 0) = 0 /\ Value(d.scale, 0) >= 0 THEN Label(base, <<>>)
  ELSE Label(FixedName(d), <<IF Positive(d.precision) THEN Value(d.precision, 0) ELSE natural, Scale(d)>>)

CharacterLength(d) == Value(d.characters, Value(d.length, 0))

\* interBaseColumnType: what stands in for a type the driver refuses.
ColumnType(d) ==
  LET code == Value(d.type, 0) IN
    IF code = 7 THEN NumericType("SMALLINT", 4, d)
    ELSE IF code = 8 THEN NumericType("INTEGER", 9, d)
    ELSE IF code = 16 THEN NumericType("BIGINT", 18, d)
    ELSE IF code = 27 /\ Negative(d.scale) THEN NumericType("DOUBLE PRECISION", 15, d)
    ELSE IF code \in Range(CharacterCode) THEN Label(CharacterName(code), <<CharacterLength(d)>>)
    ELSE IF code = 35 THEN Label("DATE", <<>>)
    ELSE IF code \in DOMAIN BaseNames THEN Label(BaseNames[code], <<>>) ELSE Label("TYPE", <<code>>)

\* Slip: the driver's rendering is taken whatever the dialect.
TypeNameAnyDialect(field, dialect) ==
  IF field = {} THEN {}
  ELSE LET d == Value(field, 0) IN {IF SQLType(d) # RefusedType THEN SQLType(d) ELSE ColumnType(d)}

\* field holds the resolved domain; a column whose source has none has no type.
TypeName(field, dialect) ==
  IF field = {} THEN {}
  ELSE LET d == Value(field, 0) IN
    {IF dialect = 1 /\ d.type = {35} THEN Label("DATE", <<>>)
     ELSE IF SQLType(d) # RefusedType THEN SQLType(d) ELSE ColumnType(d)}

ColumnTypeName(field, dialect) == {[t EXCEPT !.charset = {}, !.collation = {}] : t \in TypeName(field, dialect)}

(* ------------------------------ descriptors ------------------------------ *)

\* InterBase has a null flag on the column and one on its domain.
Nullability(own, domain) == IF \E v \in own \cup domain : v # 0 THEN "NO" ELSE "YES"

\* interBaseDefault: the expression without its keyword; a blank text is none.
DefaultOf(source) ==
  LET words == Value(source, <<>>)
      bare == IF words # <<>> /\ Head(words) = "DEFAULT" THEN Tail(words) ELSE words
  IN IF bare = <<>> THEN {} ELSE {bare}

\* Slip: the domain's default comes first.
EffectiveDefaultOfEither(own, domain) == DefaultOf(IF domain # {} THEN domain ELSE own)
EffectiveDefault(own, domain) == DefaultOf(IF own # {} THEN own ELSE domain)

\* The driver reads everything the row says; the bulk reader neither the column's own
\* collation nor the domain's check and system flag.
DriverColumn(r) == r
BulkColumn(r) == [r EXCEPT !.collation = {}, !.field = [@ EXCEPT !.check = {}, !.system = {}]]

UserDomainName(source, field) ==
  IF source \in Generated \/ \E v \in field.system : v # 0 THEN {} ELSE {source}

\* The facts a descriptor keeps of its domain.
DomainFacts(d) ==
  [type |-> d.type, subtype |-> d.subtype, scale |-> d.scale, precision |-> d.precision, length |-> d.length,
   characters |-> d.characters, charset |-> d.charset, collation |-> d.collation, name |-> d.name,
   systemDomain |-> \E v \in d.system : v # 0, computed |-> d.computed, check |-> d.check, default |-> d.default,
   userDomain |-> FALSE, ownCollation |-> {}]
ParameterFacts(source, field) == [DomainFacts(field) EXCEPT !.userDomain = UserDomainName(source, field) # {}]
ColumnFacts(r) == [ParameterFacts(r.source, r.field) EXCEPT !.ownCollation = r.collation]

\* ColumnDesc: key says whether the relation's primary key has the column.
ColumnDescription(r, key, dialect) ==
  [type |-> ColumnTypeName({r.field}, dialect), null |-> Nullability(r.null, r.field.null),
   key |-> IF key THEN "YES" ELSE "NO", default |-> EffectiveDefault(r.default, r.field.default),
   extra |-> IF r.field.computed # {} THEN "COMPUTED" ELSE "", facts |-> ColumnFacts(r)]
\* A view has no primary key.
ViewColumnDescription(r, dialect) == ColumnDescription(r, FALSE, dialect)

\* Flags are kept apart from "not known".
FlagIsSet(flag) == {v # 0 : v \in flag}
FlagIsClear(flag) == {v = 0 : v \in flag}

DomainDescription(d, dialect) ==
  [name |-> d.name, type |-> TypeName({d}, dialect), nullable |-> FlagIsClear(d.null), default |-> d.default,
   check |-> d.check, charset |-> d.charset, collation |-> d.collation, facts |-> DomainFacts(d)]
IndexDescription(i) ==
  [name |-> i.name, relation |-> i.relation, columns |-> i.segments, expression |-> i.expression,
   unique |-> FlagIsSet(i.uniqueFlag), active |-> FlagIsClear(i.inactive), direction |-> i.type]
TriggerDescription(t) ==
  [name |-> t.name, relation |-> t.relation, typeCode |-> t.type, sequence |-> t.sequence,
   active |-> FlagIsClear(t.inactive), source |-> t.source]

\* RDB$PROCEDURE_PARAMETERS has no null flag: the domain's counts.
ParameterDescription(r, position, dialect) ==
  [position |-> position, type |-> TypeName({r.field}, dialect), domain |-> UserDomainName(r.source, r.field),
   nullable |-> {\A v \in r.field.null : v = 0}, facts |-> ParameterFacts(r.source, r.field)]
ProcedureDescription(p, dialect) ==
  [name |-> p.name, source |-> p.source,
   input |-> [i \in DOMAIN p.input |-> ParameterDescription(p.input[i], i - 1, dialect)],
   output |-> [i \in DOMAIN p.output |-> ParameterDescription(p.output[i], i - 1, dialect)]]

\* A type the driver refuses leaves the rest of the function as it is.
OptionalRendering(type) == IF type = RefusedType THEN {} ELSE {type}
FunctionDescription(f) ==
  [name |-> f.name, module |-> f.module, return |-> f.return,
   arguments |-> [i \in DOMAIN f.arguments |-> [facts |-> DomainFacts(f.arguments[i]),
                                                type |-> OptionalRendering(SQLType(f.arguments[i]))]]]

\* A foreign key is reported whole or not at all.
ForeignKey(fk) ==
  IF fk.columns = <<>> \/ Len(fk.columns) # Len(fk.referenced) THEN {}
  ELSE {[i \in DOMAIN fk.columns |-> <<fk.columns[i], fk.referenced[i]>>]}
\* The bulk reader pairs the fields of the two indexes by position, row by row.
BulkForeignKey(rows) ==
  IF \E i \in DOMAIN rows : rows[i][2] = {} THEN {}
  ELSE ForeignKey([columns |-> [i \in DOMAIN rows |-> rows[i][1]],
                   referenced |-> [i \in DOMAIN rows |-> Value(rows[i][2], 0)]])

(* --------------------- from descriptors to statements -------------------- *)

SchemaDomainFromFacts(facts) ==
  [name |-> facts.name, system |-> {IF facts.systemDomain THEN 1 ELSE 0}, type |-> facts.type,
   subtype |-> facts.subtype, scale |-> facts.scale, precision |-> facts.precision, length |-> facts.length,
   characters |-> facts.characters, charset |-> facts.charset, collation |-> facts.collation, null |-> {},
   default |-> facts.default, check |-> facts.check, computed |-> facts.computed]

InactiveFlag(active) == {IF b THEN 0 ELSE 1 : b \in active}
UniqueFlag(unique) == {IF b THEN 1 ELSE 0 : b \in unique}

SchemaColumn(desc) ==
  [source |-> desc.facts.name, null |-> {IF desc.null = "NO" THEN 1 ELSE 0}, default |-> desc.default,
   collation |-> desc.facts.ownCollation, field |-> SchemaDomainFromFacts(desc.facts)]
\* Slip: the descriptor's nullability is forgotten.
SchemaDomainFactsOnly(desc) == SchemaDomainFromFacts(desc.facts)
SchemaDomain(desc) == [SchemaDomainFromFacts(desc.facts) EXCEPT !.null = InactiveFlag(desc.nullable)]
SchemaParameter(desc) ==
  [source |-> desc.facts.name, field |-> SchemaDomainFromFacts(desc.facts),
   nullable |-> IF desc.nullable = {} THEN {TRUE} ELSE desc.nullable]
SchemaProcedure(desc) ==
  [name |-> desc.name, source |-> desc.source,
   input |-> [i \in DOMAIN desc.input |-> SchemaParameter(desc.input[i])],
   output |-> [i \in DOMAIN desc.output |-> SchemaParameter(desc.output[i])]]
SchemaTrigger(desc) ==
  [name |-> desc.name, relation |-> desc.relation, type |-> desc.typeCode, sequence |-> desc.sequence,
   inactive |-> InactiveFlag(desc.active), source |-> desc.source]
SchemaIndex(desc) ==
  [name |-> desc.name, relation |-> desc.relation, segments |-> desc.columns, expression |-> desc.expression,
   uniqueFlag |-> UniqueFlag(desc.unique), inactive |-> InactiveFlag(desc.active), type |-> desc.direction]
SchemaFunction(desc) ==
  [name |-> desc.name, module |-> desc.module, return |-> desc.return,
   arguments |-> [i \in DOMAIN desc.arguments |-> SchemaDomainFromFacts(desc.arguments[i].facts)]]

\* What the driver's GenerateDDL says; {} where it refuses.
TypeIn(d, dialect) == IF dialect = 1 /\ d.type = {35} THEN Label("DATE", <<>>) ELSE SQLType(d)
DomainStatement(d, dialect) ==
  IF TypeIn(d, dialect) = RefusedType THEN {}
  ELSE {[name |-> d.name, type |-> TypeIn(d, dialect), default |-> d.default, check |-> d.check,
         notNull |-> \E v \in d.null : v # 0]}
ParameterSays(x, dialect) ==
  [domain |-> UserDomainName(x.source, x.field), notNull |-> x.nullable = {FALSE},
   type |-> IF UserDomainName(x.source, x.field) = {} THEN TypeIn(x.field, dialect) ELSE Label("domain", <<>>)]
ProcedureStatement(p, dialect) ==
  LET said == [input |-> [i \in DOMAIN p.input |-> ParameterSays(p.input[i], dialect)],
               output |-> [i \in DOMAIN p.output |-> ParameterSays(p.output[i], dialect)], source |-> p.source]
  IN IF \E x \in Range(said.input) \cup Range(said.output) : x.type = RefusedType THEN {} ELSE {said}
IndexStatement(i) ==
  {[name |-> i.name, relation |-> i.relation, segments |-> i.segments, expression |-> i.expression,
    unique |-> \E v \in i.uniqueFlag : v # 0, inactive |-> \E v \in i.inactive : v # 0, type |-> i.type]}
TriggerStatement(t) == {[t EXCEPT !.inactive = {\E v \in t.inactive : v # 0}]}
FunctionStatement(f) ==
  IF \E d \in Range(f.arguments) : SQLType(d) = RefusedType THEN {}
  ELSE {[name |-> f.name, module |-> f.module, return |-> f.return,
         arguments |-> [i \in DOMAIN f.arguments |-> SQLType(f.arguments[i])]]}

(* ------------------------------ declarations ----------------------------- *)

\* Dialect 1 knows DATE only, and its numbers have 15 digits at most.
Digits(dialect) == 1..(IF dialect = 1 THEN 15 ELSE 18)
PlainBases(dialect) == DOMAIN PlainCode \cup {"DOUBLE PRECISION", "DATE"} \cup IF dialect = 1 THEN {} ELSE {"TIMESTAMP"}
IsType(t, dialect) ==
  /\ t.args \in Seq(Nat)
  /\ \/ /\ t.base \in Fixed /\ t.charset = {} /\ t.collation = {}
        /\ Len(t.args) = 2 /\ t.args[1] \in Digits(dialect) /\ t.args[2] \in 0..t.args[1]
     \/ t.base \in Characters /\ Len(t.args) = 1
     \/ t.base \in PlainBases(dialect) /\ t.args = <<>>
IsText(default) ==
  \A w \in default : default = {w} /\ w \in Seq(STRING) /\ w # <<>> /\ w # <<"DEFAULT">>
IsDeclared(d, dialect) ==
  /\ DOMAIN d = {"type", "notNull", "default", "check", "computed", "recorded", "clear"}
  /\ IsType(d.type, dialect) /\ IsText(d.default) /\ d.clear \in {{}, {0}}
  /\ d.notNull \in BOOLEAN /\ d.recorded \in BOOLEAN
IsColumn(c, dialect) ==
  /\ IsDeclared(c.own, dialect)
  /\ \A d \in c.domain : c.domain = {d} /\ IsDeclared(d, dialect)
\* A parameter has no NOT NULL of its own.
AreParameters(p, dialect) ==
  p \in Seq(Range(p)) /\ \A i \in DOMAIN p : IsColumn(p[i], dialect) /\ ~p[i].own.notNull

\* The fields of a foreign key and those of the key it refers to: at says to which
\* position each of these belongs.  The index can lack some.
IsForeignKey(s) ==
  /\ s.columns \in Seq(STRING) /\ s.columns # <<>> /\ s.referenced \in Seq(STRING)
  /\ s.at \in [DOMAIN s.referenced -> DOMAIN s.columns]
  /\ \A i, j \in DOMAIN s.at : i < j => s.at[i] < s.at[j]
SegmentRows(s) ==
  [i \in DOMAIN s.columns |-> <<s.columns[i], {s.referenced[j] : j \in {x \in DOMAIN s.at : s.at[x] = i}}>>]

IsSubject(s) ==
  CASE s.kind = "column"      -> IsColumn(s.column, s.dialect) /\ s.key \in BOOLEAN
    [] s.kind = "domain"      -> IsDeclared(s.domain, s.dialect)
    [] s.kind = "procedure"   -> AreParameters(s.input, s.dialect) /\ AreParameters(s.output, s.dialect)
    [] s.kind = "function"    -> s.arguments \in Seq(Range(s.arguments))
    [] s.kind = "foreign key" -> IsForeignKey(s)
    [] s.kind = "trigger"     -> s.trigger = [x \in {"name", "relation", "type", "sequence", "inactive", "source"} |-> s.trigger[x]]
    [] OTHER                  -> s.kind = "index"

\* The declarations are such as the engine takes, and it names its own domains as no
\* user does.
DeclarationsAreWritten ==
  "RDB$1" \in Generated /\ "D" \notin Generated /\ \A s \in Subjects : IsSubject(s)
ASSUME DescriptorAssumption == DeclarationsAreWritten

(* ------------------------------- properties ------------------------------ *)

DescriptorInit == subject \in Subjects

Source(c) == IF c.domain = {} THEN c.own ELSE Value(c.domain, 0)
\* A rendered type is the declared one; where the catalog does not record how wide
\* it is, it is no narrower.  Without a recorded precision nothing tells a number of
\* dialect 1 that is stored in a double and has no scale from a double.
Renders(label, d, dialect) ==
  \/ /\ label.base = d.type.base /\ Len(label.args) = Len(d.type.args)
     /\ d.recorded => label.args = d.type.args
     /\ \A i \in DOMAIN label.args : IF i = 1 THEN label.args[i] >= d.type.args[i] ELSE label.args[i] = d.type.args[i]
  \/ /\ ~d.recorded /\ d.type.base \in Fixed /\ TypeCode(d.type, dialect) = 27 /\ d.type.args[2] = 0
     /\ label = Label("DOUBLE PRECISION", <<>>)
NotNull(c) == c.own.notNull \/ \E d \in c.domain : d.notNull
DefaultIn(c) == IF c.own.default # {} THEN c.own.default ELSE Source(c).default
Words(default) == {IF Head(w) = "DEFAULT" THEN Tail(w) ELSE w : w \in default}

ColumnsSay(c, key, row, dialect) ==
  LET desc == ColumnDescription(BulkColumn(row), key, dialect)
      direct == ColumnDescription(DriverColumn(row), key, dialect)
  IN /\ \A t \in desc.type : Renders(t, Source(c), dialect)
     /\ (desc.null = "NO") = NotNull(c) /\ desc.default = Words(DefaultIn(c))
     /\ (desc.key = "YES") = key /\ (desc.extra = "COMPUTED") = (Source(c).computed # {})
     /\ desc.facts.userDomain = (c.domain # {})
     /\ [direct EXCEPT !.facts = desc.facts] = desc
     /\ [ViewColumnDescription(row, dialect) EXCEPT !.key = desc.key, !.facts = desc.facts] = desc
     /\ LET back == SchemaColumn(desc) IN
          /\ (back.null = {1}) = NotNull(c) /\ back.default = desc.default
          /\ back.source = row.source /\ SQLType(back.field) = SQLType(row.field)

ParameterRow(c, dialect) == [source |-> FieldOf(c, dialect).name, field |-> FieldOf(c, dialect),
                             nullable |-> {~NotNull(c)}]
ProceduresSay(s, p) ==
  LET desc == ProcedureDescription(p, s.dialect) IN
    /\ \A i \in DOMAIN s.input : \A t \in desc.input[i].type : Renders(t, Source(s.input[i]), s.dialect)
    /\ ProcedureStatement(SchemaProcedure(desc), s.dialect) = ProcedureStatement(p, s.dialect)

FunctionsSay(f) ==
  LET desc == FunctionDescription(f) IN
    /\ Len(desc.arguments) = Len(f.arguments)
    /\ FunctionStatement(SchemaFunction(desc)) = FunctionStatement(f)

\* The editor shows an object from the descriptors of its generation, and elsewhere
\* straight from the catalog; both say what was declared: the type with no width
\* lost, NOT NULL and default from where they were given, flags that are not known
\* as not known, a foreign key whole or not at all (columnDescription, DescribeDomains,
\* the interBaseSchema values, ObjectDDL, interBaseForeignKeys).
DescriptorsSayWhatIsDeclared ==
  LET s == subject IN
    CASE s.kind = "column" -> ColumnsSay(s.column, s.key, ColumnRow(s.column, s.dialect), s.dialect)
      [] s.kind = "domain" ->
           LET row == Field("D", s.domain, s.dialect)
               desc == DomainDescription(row, s.dialect)
           IN /\ \A t \in desc.type : Renders(t, s.domain, s.dialect)
              /\ DomainStatement(SchemaDomain(desc), s.dialect) = DomainStatement(row, s.dialect)
      [] s.kind = "procedure" ->
           ProceduresSay(s, [name |-> "P", source |-> "body",
                             input |-> [i \in DOMAIN s.input |-> ParameterRow(s.input[i], s.dialect)],
                             output |-> [i \in DOMAIN s.output |-> ParameterRow(s.output[i], s.dialect)]])
      [] s.kind = "function" ->
           FunctionsSay([name |-> "F", module |-> "M", return |-> 0,
                         arguments |-> [i \in DOMAIN s.arguments |-> Field("F", s.arguments[i], 3)]])
      [] s.kind = "index" -> IndexStatement(SchemaIndex(IndexDescription(s.index))) = IndexStatement(s.index)
      [] s.kind = "trigger" -> TriggerStatement(SchemaTrigger(TriggerDescription(s.trigger))) = TriggerStatement(s.trigger)
      [] s.kind = "foreign key" ->
           LET whole == DOMAIN s.columns = Range(s.at)
               pairs == IF whole THEN {[i \in DOMAIN s.columns |-> <<s.columns[i], s.referenced[i]>>]} ELSE {}
           IN BulkForeignKey(SegmentRows(s)) = pairs /\ ForeignKey(s) = pairs
=============================================================================
