--------------------------- MODULE MCDiagnosticsData ---------------------------
(***************************************************************************)
(* The inputs of MCDiagnosticsRuns: the procedures the flow analysis reads,*)
(* the singleton queries and the statements that assign.                   *)
(***************************************************************************)
EXTENDS ProcedureSyntax, Integers, Functions, TLC

(* ------------------------------ procedures ------------------------------ *)

Locals == {"x", "o"}
Simple == {Set("x", {}), Set("x", {"x"}), Set("o", {"x"}), Set("o", {}), Call("x"), SelectInto({"x"}, FALSE),
           SelectInto({"o"}, TRUE), Sql({"x"}, {}), Sql({}, {"o"}), Suspend, Exit, Bare}
Few == {Set("x", {}), Set("o", {"x"}), SelectInto({"x"}, FALSE), Exit, Suspend}
Nested(b, c) ==
  {If({"x"}, FALSE, b, <<c>>), IfNull("x", b, <<c>>), IfNotNull("x", b, <<>>), If({"x"}, TRUE, b, <<>>),
   While({"x"}, Block(<<b, c>>)), ForSelect({"x"}, Block(<<b, c>>)), Block(<<b, c, When(Sql({"x"}, {"o"}))>>)}
Procedures ==
  {Block(<<a, b, c>>) : a, b, c \in Simple}
  \cup UNION {{Block(<<a, n, d>>) : a, d \in Few, n \in Nested(b, c)} : b, c \in Few}
  \cup {Block(<<While({}, Block(<<If({}, FALSE, Block(<<a, b>>), <<>>), c>>))>>) : a, b, c \in Simple}

(* -------------------------- singleton queries --------------------------- *)

QueryColumns == {"a", "b"}
Pair(x, y) == [c \in QueryColumns |-> IF c = "a" THEN x ELSE y]
TableContents ==
  {<<>>, <<Pair(1, 1)>>, <<Pair(2, 0)>>}
  \cup {<<r, s>> : r \in {Pair(1, 1), Pair(1, 2), Pair(0, 1)},
                   s \in {Pair(1, 1), Pair(2, 1), Pair(1, 2), Pair(0, 1), Pair(1, 0)}}
KeysOfTable == {{}, {{"a"}}, {{"a", "b"}}}
Scalar == <<0, 1>>
First(c) == <<1, c>>
Second(c) == <<2, c>>
JoinConditions == {{<<Second("a"), First("a")>>}, {<<First("a"), Second("b")>>},
                   {<<Second("a"), First("b")>>, <<Scalar, Second("b")>>},
                   {<<First("a"), Scalar>>, <<Second("a"), First("b")>>}}
OneTableConditions == {{}, {<<First("a"), Scalar>>}, {<<First("b"), Scalar>>, <<First("a"), First("b")>>}}
Conditions == OneTableConditions
  \cup {{<<Second("a"), Scalar>>}, {<<First("a"), Scalar>>, <<Second("b"), First("a")>>}}

From(k) == [table |-> "T", keys |-> k, left |-> FALSE, on |-> {}]
Plain(relations, where) ==
  [relations |-> relations, where |-> where, group |-> FALSE, aggregate |-> FALSE, column |-> TRUE, distinct |-> FALSE, rows |-> 0]
Queries ==
  {[Plain(<<From(k)>>, w) EXCEPT !.group = g, !.aggregate = a, !.column = c, !.distinct = d, !.rows = n] :
     k \in KeysOfTable, w \in OneTableConditions, g, a, c, d \in BOOLEAN, n \in 0..2}
  \cup {Plain(<<From(k), [table |-> t, keys |-> l, left |-> left, on |-> on]>>, w) :
          k, l \in KeysOfTable, t \in {"T", "U"}, left \in BOOLEAN, on \in JoinConditions, w \in Conditions}

(* ----------------------------- assignments ------------------------------ *)

\* Integers of four and of eight bits, a number of one decimal in four bits, and
\* strings; an NCHAR is not read by stringTypeWidth.
Exactly(family, lo, hi, scale) ==
  [family |-> family, lo |-> lo, hi |-> hi, scale |-> scale, width |-> 0, spelled |-> FALSE]
Characterly(width, spelled) ==
  [family |-> "character", lo |-> 0, hi |-> 0, scale |-> 0, width |-> width, spelled |-> spelled]
BaseTypes ==
  "SMALLINT" :> Exactly("integer", -800, 700, 0) @@ "INTEGER" :> Exactly("integer", -12800, 12700, 0)
  @@ "NUMERIC1" :> Exactly("numeric", -80, 70, 1)
  @@ "CHAR2" :> Characterly(2, TRUE) @@ "CHAR4" :> Characterly(4, TRUE) @@ "NCHAR2" :> Characterly(2, FALSE)
DomainTypes == "D1" :> "SMALLINT" @@ "D2" :> "D1" @@ "D3" :> "D2" @@ "DC" :> "CHAR4"
NumberTokens == "1" :> 100 @@ "2" :> 200 @@ "3" :> 300 @@ "7" :> 700 @@ "8" :> 800 @@ "0.65" :> 65 @@ "7.4" :> 740
TextTokens == "'ab'" :> 2 @@ "'abc'" :> 3
LocalTypes == "x" :> "SMALLINT" @@ "y" :> "CHAR2" @@ "n" :> "NUMERIC1" @@ "w" :> "D2" @@ "M" :> "INTEGER" @@ "v" :> "D3"

Is(type, null) == [type |-> type, null |-> null]
Shared == "A" :> Is("SMALLINT", "not") @@ "B" :> Is("SMALLINT", "null") @@ "C" :> Is("CHAR2", "not")
          @@ "E" :> Is("NUMERIC1", "null") @@ "F" :> Is("DC", "null")
Read(k) == "K" :> Is("INTEGER", k) @@ "C" :> Is("CHAR4", "null") @@ "M" :> Is("SMALLINT", "not") @@ "G" :> Is("CHAR4", "not")
\* T and R are known, of U nothing is, and S was altered, its K and the widths of G and H too.
CatalogColumns == "T" :> Shared @@ "R" :> Read("unknown") @@ "S" :> ("K" :> Is("SMALLINT", "not") @@ "G" :> Is("CHAR4", "null") @@ "H" :> Is("CHAR2", "null"))
ActualColumns == "T" :> Shared @@ "R" :> Read("null") @@ "S" :> ("K" :> Is("INTEGER", "null") @@ "G" :> Is("CHAR2", "not") @@ "H" :> Is("CHAR4", "null"))
                 @@ "U" :> ("M" :> Is("INTEGER", "null") @@ "G" :> Is("CHAR2", "null"))

Constants == {Null, Num("7"), Num("8"), Num("0.65"), Neg("8"), Str("'ab'"), Str("'abc'")}
Joined(A, B) ==
  UNION {{Op("+", a, b), Op("-", a, b), Op("*", a, b), Op("||", a, b), Coalesce(<<a, b>>), CasesElse(<<a, b>>)} : a \in A, b \in B}
Applied(A) ==
  UNION {{CastTo(a, "SMALLINT"), CastTo(a, "NUMERIC1"), CastTo(a, "CHAR2"), Cases(<<a>>), Substr(a, "2"), Substr(a, "3"), TrimOf(a)} : a \in A}
Deep(a, b, c) ==
  {Op("-", a, Op("-", b, c)), Op("*", Op("+", a, b), c), Op("+", a, Op("*", b, Num("2"))), Op("/", a, b),
   Op("||", CasesElse(<<Op("||", a, b), c>>), a), Op("||", a, Op("||", b, c)), Coalesce(<<Cases(<<a>>), Op("+", b, c)>>),
   CastTo(Op("+", a, b), "SMALLINT"), TrimOf(CasesElse(<<a, CastTo(b, "CHAR4")>>)), CasesElse(<<Coalesce(<<a, b>>), c>>)}
DeepOf(A) == UNION {Deep(a, b, c) : a, b, c \in A}

CodeAtoms == Constants \cup {Name("", "x"), Name("", "y"), Name("", "n"), Name("", "w"), Param("M"), Name("", "v")}
CodeSources == CodeAtoms \cup Joined(CodeAtoms, CodeAtoms) \cup Applied(CodeAtoms)
               \cup DeepOf({Num("7"), Num("0.65"), Str("'ab'"), Name("", "y")})

\* What a query reads, with the columns it may name.
T == Source("T", "T", FALSE)
R == Source("R", "R", FALSE)
OfBoth == {Name("", "K"), Name("R", "C"), Name("T", "C"), Name("", "A"), Name("", "E"), Name("", "F"), Name("", "G")}
Reading ==
  {<<<<R>>, {Name("", "K"), Name("R", "C"), Name("", "G"), Name("", "M"), Name("R", "M")}>>,
   <<<<Source("R", "q", FALSE)>>, {Name("q", "C"), Name("", "K")}>>,
   <<<<T, R>>, OfBoth>>, <<<<T, Source("R", "R", TRUE)>>, OfBoth>>,
   <<<<R, Source("U", "U", FALSE)>>, {Name("R", "M"), Name("", "K"), Name("U", "G")}>>,
   <<<<Source("S", "S", FALSE)>>, {Name("", "K"), Name("", "G"), Name("", "H")}>>}
Atoms(columns) == columns \cup {Null, Num("7"), Str("'ab'"), Param("y"), Param("x")}
Sources(columns) ==
  Atoms(columns) \cup Applied(columns) \cup Joined(columns, Atoms(columns))
  \cup {CasesElse(<<Op("||", c, Str("'ab'")), d>>) : c, d \in columns} \cup {Coalesce(<<c, Op("+", d, Num("7"))>>) : c, d \in columns}
TargetsOfT == {"A", "C", "E", "F"}
Two(columns) == columns \X {Coalesce(<<Param("y"), Str("'abc'")>>), Op("||", Str("'ab'"), Param("y")), Null}
OfTable == {Name("", "B"), Name("", "C"), Name("T", "F"), Name("", "E")}

AssignmentStatements ==
  {Assign(t, e) : t \in {"x", "y"}, e \in CodeSources} \cup {Assign(t, e) : t \in {"n", "v"}, e \in CodeAtoms \cup Applied(CodeAtoms)}
  \cup UNION {{InsertSelect("T", <<t>>, <<e>>, q[1]) : t \in TargetsOfT, e \in Sources(q[2])} : q \in Reading}
  \cup UNION {{SelectIntoVars(<<"y", "w">>, <<e[2], e[1]>>, q[1]) : e \in Two(q[2] \cup Applied(q[2]))} : q \in Reading}
  \cup UNION {{NotIn(e, q[1], <<T>>) : e \in q[2] \cup Applied(q[2])} : q \in Reading}
  \cup {NotIn(e, <<Source("U", "U", FALSE)>>, <<R>>) : e \in Sources({Name("", "M"), Name("", "G"), Name("R", "C"), Name("", "K")})}
  \cup {[InsertSelect("T", <<"A">>, <<e>>, <<R>>) EXCEPT !.tested = t] :
           e \in {Name("", "C"), Name("R", "C"), Name("", "K")}, t \in {Name("", "C"), Name("R", "C")}}
  \cup {[NotIn(e, <<R>>, <<T>>) EXCEPT !.tested = t] : e \in {Name("", "C"), Name("R", "K")}, t \in {Name("", "C"), Name("R", "C")}}
  \cup {Update("T", <<"A", "C">>, e) : e \in Two(OfTable \cup Joined(OfTable, Constants))}
  \cup {[Update("T", <<"A">>, <<e>>) EXCEPT !.tested = Name("", "B")] : e \in OfTable}
  \cup {InsertValues("T", <<"E", "C">>, e) : e \in Two(Atoms({}) \cup Applied(Atoms({})))}
  \cup {InsertValues("S", <<"K", "G">>, e) : e \in Two(Atoms({}) \cup Applied(Atoms({})))}
  \cup UNION {{CallWith(e), CallBare(e)} : e \in Two(Constants \cup Applied(Constants))}
  \cup {Returning(vs) : vs \in {<<"x", "w">>, <<"n", "x">>, <<"M", "v">>}}
  \cup {NewField("T", c, e) : c \in TargetsOfT, e \in Constants \cup Joined(Constants, Constants) \cup Applied(Constants)}
=============================================================================
