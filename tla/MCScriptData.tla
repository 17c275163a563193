------------------------------ MODULE MCScriptData ------------------------------
(***************************************************************************)
(* Scripts over the table T (ID, NAME, "q"), the view U (ID, V), and the   *)
(* procedure S, which returns O.  Locals are called V, W, N, O, "w"; X and *)
(* Z name nothing; u, quoted, is no name but folds to U's.                 *)
(***************************************************************************)
EXTENDS ScriptSyntax, FiniteSets

TableColumns     == "T" :> <<"ID", "NAME", "q">>
ViewColumns      == "U" :> <<"ID", "V">>
ProcedureOutputs == "S" :> <<"O">>
TriggerRelations == "G" :> "U"
FoldedNames      == "u" :> "U"
Database == LET all == TableColumns @@ ViewColumns @@ ProcedureOutputs IN [n \in DOMAIN all |-> ToSet(all[n])]
KeywordsUsed == {"EXISTS", "TABLE", "DROP", "INTEGER", "TRIGGER", "BEFORE", "STATEMENT", "COUNT", "ROWS", "EXTRACT", "YEAR"}

Fine(n) == Declared(n, "typed")
Ok(ns)  == [k \in DOMAIN ns |-> Fine(ns[k])]
C(c)    == Column("", c)
Q(of, c) == Column(of, c)
T       == Table("T", "")
TA      == Table("T", "A")
U       == Table("U", "")
UA      == Table("U", "A")
UB      == Table("U", "B")
Of(c, from)  == Select(<<Item(C(c))>>, <<from>>)
All(from)    == Select(<<Item(Star(""))>>, <<from>>)
To(ns)       == [k \in DOMAIN ns |-> Target(ns[k], TRUE)]
Bare(ns)     == [k \in DOMAIN ns |-> Target(ns[k], FALSE)]
Eq(c, n)     == Compare(C(c), Local(n))
ById(q, n)   == Where(q, Eq("ID", n))
Late(q, ns)  == Into(q, To(ns))
Early(q, ns) == [Into(q, To(ns)) EXCEPT !.early = TRUE]

Create == <<"CREATE">>
AlterOr == <<"CREATE", "OR", "ALTER">>
Proc(locals, ss) == Procedure(Create, "P", <<>>, <<>>, locals, Block(ss))
Full(head, p, ins, outs, ls, ss) == Procedure(head, p, Ok(ins), Ok(outs), Ok(ls), Block(ss))
Local1 == Ok(<<"V">>)
Local2 == Ok(<<"V", "W">>)
Trig(locals, ss) == Trigger("CREATE", "G", "T", Ok(locals), Block(ss))

-----------------------------------------------------------------------------
(* Statements of a procedure that declares V and W.                        *)

Expressions ==
  {Local("V"), Call("UPPER", <<Local("V")>>), When(Compare(Local("V"), Literal), Local("W")),
   Scalar(ById(Of("NAME", T), "W")), Exists(ById(All(UA), "V")), Among(Local("V"), Of("ID", U)), Compare(Local("V"), Local("W"))}
Assignments == {Assign("V", e) : e \in Expressions \cup {Extract(Local("W"))}}
Reading == {Fetch(q) : q \in
  {Late(Of("NAME", T), <<"V">>), Late(ById(Of("NAME", T), "W"), <<"V">>), Early(ById(Of("NAME", TA), "W"), <<"V">>),
   Into(ById(Of("NAME", T), "W"), Bare(<<"V">>)),
   Late(Select(<<Item(C("ID")), Item(Q("A", "NAME"))>>, <<TA>>), <<"V", "W">>),
   Late(Where(Select(<<ItemAs(Scalar(Of("V", U)), "X")>>, <<TA>>), Exists(Where(All(UB), Compare(Q("B", "ID"), Q("A", "ID"))))), <<"V">>)}}
Writings ==
  {InsertValues("U", <<"ID", "V">>, <<Local("V"), Literal>>), InsertSelect("U", <<"ID">>, ById(Of("ID", TA), "V")),
   Update("U", "V", Local("V"), <<Eq("ID", "W")>>), Delete("U", <<Eq("V", "V")>>), Update("T", "NAME", Scalar(Of("V", UB)), <<>>),
   Execute("S", <<Local("V")>>, To(<<"W">>)), Execute("S", <<Local("V"), Local("W")>>, <<>>), Execute("S", <<Literal>>, Bare(<<"V">>)),
   Dynamic("V")}
Flowing ==
  {IfThen(Compare(Local("V"), Literal), Assign("W", Local("V"))),
   IfThen(Exists(ById(All(T), "V")), Block(<<Assign("V", Local("W"))>>)),
   WhileDo(Compare(Local("V"), Scalar(Of("ID", U))), Block(<<Assign("V", Literal), Assign("W", Local("V"))>>)),
   ForSelect(Late(Of("ID", UA), <<"V">>), Assign("W", Local("V"))),
   ForSelect(Late(ById(Of("ID", T), "W"), <<"V">>), Block(<<Update("U", "V", Local("V"), <<Eq("ID", "V")>>), Assign("W", Local("V"))>>))}
StatementsOfTwo == UNION {Assignments, Reading, Writings, Flowing}

-----------------------------------------------------------------------------
(* Queries whose names need their scopes.                                  *)

On(s, t, c, x) == Joined(s, Compare(Q(t, "ID"), Q(c, x)))
ScopedQueries ==
  {Select(<<Item(Q("A", "ID")), ItemAs(Q("B", "V"), "X")>>, <<TA, On(UB, "B", "A", "ID")>>),
   Select(<<Item(Q("A", "ID")), Item(Q("B", "ID"))>>, <<TA, UB>>),
   Select(<<Item(Star("A"))>>, <<TA, Joined(UB, Exists(Where(All(UA), Compare(Q("A", "ID"), Q("B", "ID")))))>>),
   Where(Select(<<ItemAs(Scalar(Where(Of("V", UA), Compare(Q("A", "ID"), C("ID")))), "X")>>, <<TA>>), Compare(Q("A", "ID"), Literal)),
   Select(<<Item(Q("D", "X"))>>, <<Derived(Select(<<ItemAs(Q("A", "ID"), "X")>>, <<TA>>), "D")>>),
   Select(<<Item(Q("D", "NAME"))>>, <<Derived(All(TA), "D"), On(UA, "A", "D", "ID")>>),
   Select(<<Item(Q("R", "O"))>>, <<Selectable("S", <<Literal>>, "R")>>),
   Union(Of("ID", TA), Where(Of("ID", UA), Compare(Q("A", "V"), Literal))),
   [Of("NAME", T) EXCEPT !.first = TRUE, !.order = <<C("NAME")>>],
   [Select(<<Item(C("ID")), ItemCalled(Call("COUNT", <<C("NAME")>>), "N")>>, <<T>>) EXCEPT
      !.having = <<Among(C("ID"), Of("ID", UA))>>],
   Where(Of("q", T), Among(C("ID"), Union(Of("ID", U), Of("V", UB)))),
   Where(Of("NAME", TA), Compare(Scalar(Where(Of("V", U), Compare(Q("U", "ID"), Q("A", "ID")))), Literal)),
   Where(Of("NAME", T), Compare(Q("T", "ID"), Literal)),
   [Select(<<Item(Q("T", "ID"))>>, <<T>>) EXCEPT !.rows = TRUE]}

Script(units) == SpellScript(units, Database, FALSE)
WithTerm(units) == SpellScript(units, Database, TRUE)

-----------------------------------------------------------------------------
(* Scripts that a local is renamed in.                                     *)

Headers ==
  {<<Full(Create, "P", <<"V">>, <<"O">>, <<"W">>, <<Assign("O", Local("V"))>>)>>,
   <<Full(AlterOr, "P", <<"V", "N">>, <<"O">>, <<>>, <<Fetch(Late(ById(Of("NAME", T), "N"), <<"O">>)), Assign("N", Local("V"))>>),
     Full(<<"ALTER">>, "R", <<"V">>, <<>>, <<"w">>, <<Assign("w", Local("V"))>>)>>,
   <<Proc(<<Fine("V"), Fine("W"), Fine("V")>>, <<Assign("W", Local("V"))>>)>>,
   <<Proc(<<Declared("V", "untyped"), Fine("W")>>, <<Assign("W", Local("V"))>>)>>,
   <<Proc(<<Fine("W"), Declared("V", "unended")>>, <<Assign("W", Local("V"))>>), Proc(Local1, <<Assign("V", Literal)>>)>>,
   <<Trig(<<"V">>, <<Fetch(Late(Of("NAME", T), <<"V">>))>>), Proc(Local1, <<Assign("V", Literal)>>)>>,
   <<With(<<Cte("T", <<>>, Of("ID", UA))>>, All(T)), Proc(Local1, <<Assign("V", Literal)>>)>>}
WithLocals == UNION {
  {<<Proc(Local2, <<s>>)>> : s \in StatementsOfTwo}, Headers, {<<Plainly(Fetch(q))>> : q \in ScopedQueries},
  {<<Proc(Local2, <<Assign("W", Local("V")), Fetch(Into(q, To(<<"W">>)))>>)>> : q \in ScopedQueries}}
Renamable == {Script(u) : u \in WithLocals} \cup {WithTerm(u) : u \in Headers}
Asked(key, quoted) == [key |-> key, quoted |-> quoted]
AskedNames == {Asked("X", FALSE), Asked("q", TRUE), Asked("V", FALSE), Asked("SELECT", TRUE), Asked("FROM", FALSE), Asked("LIMIT", FALSE)}
ReservedWords == {"SELECT", "FROM"}

-----------------------------------------------------------------------------
(* Scripts whose names are checked.                                        *)

X1 == Table("X", "")
K  == Table("K", "")
Ordered(q, c) == [q EXCEPT !.order = <<C(c)>>]
Renamed(from) == Select(<<ItemAs(C("NAME"), "X")>>, <<from>>)
OfDerived(c, q) == Of(c, Derived(q, "D"))
\* Where what is wrong is said in the end.
NamedQueries ==
  {All(X1), Of("Z", T), Of("Z", X1), Of("V", Table("S", "")),
   Select(<<Item(Q("Z", "ID"))>>, <<T>>), Select(<<Item(C("ID"))>>, <<T, U>>), Select(<<Item(Q("A", "Z"))>>, <<TA>>),
   Select(<<Item(Q("T", "ID"))>>, <<TA>>),
   Where(Of("NAME", TA), Exists(Where(All(UB), Compare(Q("A", "Z"), C("NAME"))))),
   Where(Of("NAME", TA), Exists(Where(All(UB), Compare(Q("Z", "V"), C("Z"))))),
   Where(Of("NAME", TA), Exists(Where(All(X1), Compare(Q("A", "ID"), C("Z"))))),
   Where(Renamed(T), Compare(C("X"), Literal)), Ordered(Renamed(T), "X"), Ordered(Renamed(T), "Z"),
   Ordered(All(T), "NAME"), Ordered(All(X1), "Z"), Ordered(Select(<<Item(Literal)>>, <<T>>), "Z"),
   Union(Renamed(T), Ordered(Of("V", U), "X")), Union(Of("ID", T), Ordered(Of("V", U), "V")),
   Union(Of("ID", T), Ordered(Of("V", U), "ID")),
   Select(<<Item(Q("D", "Z"))>>, <<Derived(All(T), "D")>>), OfDerived("NAME", Renamed(T)), OfDerived("X", Renamed(T)),
   OfDerived("NAME", Union(Of("NAME", T), Of("V", U))),
   Select(<<Item(Star("D")), Item(C("Z"))>>, <<Derived(Select(<<Item(Star("A")), Item(C("V"))>>, <<TA, UB>>), "D")>>),
   Select(<<Item(Q("R", "Z"))>>, <<Selectable("S", <<Literal>>, "R")>>),
   Select(<<Item(Q("S", "O")), Item(C("Z"))>>, <<Selectable("S", <<Literal>>, "")>>),
   Select(<<Item(Q("R", "Z"))>>, <<Selectable("X", <<Literal>>, "R")>>),
   Select(<<Item(C("NAME")), ItemCalled(Call("COUNT", <<C("Z")>>), "N")>>, <<T>>)}
NamedStatements ==
  {Update("T", "Z", Literal, <<Compare(C("Z"), Literal)>>), Update("X", "Z", Literal, <<>>), Delete("U", <<Compare(C("NAME"), Literal)>>),
   InsertValues("U", <<"ID", "Z">>, <<Literal, Literal>>), InsertSelect("U", <<"ID">>, Of("Z", T)), InsertSelect("U", <<"NAME">>, Of("V", T)),
   Delete("U", <<Exists(Where(All(TA), Compare(Q("A", "ID"), Q("U", "ID"))))>>)}
Bodies ==
  {Assign("X", Literal), Assign("V", Local("X")), IfThen(Compare(Local("X"), Literal), Assign("V", Literal)),
   Fetch(Late(Of("NAME", T), <<"X">>)), Fetch(Into(Of("NAME", T), Bare(<<"V">>))),
   WhileDo(Compare(Local("V"), Local("X")), Block(<<Assign("V", Local("V"))>>)),
   Fetch(Late(Of("V", U), <<"W">>)), Fetch(Late(Of("V", UA), <<"W">>)), Fetch(Late(Of("V", X1), <<"W">>)),
   Fetch(Late(Where(Of("V", U), Exists(All(T))), <<"W">>)),
   Assign("V", Scalar(Of("Z", T))), ForSelect(Late(Of("Z", T), <<"V">>), Assign("X", Local("W"))), Execute("S", <<Local("V")>>, To(<<"X">>))}
Rows ==
  {Assign("V", Row("NEW", "NAME")), Assign("V", Row("NEW", "Z")), Assign("X", Row("OLD", "V")), InsertValues("U", <<"ID">>, <<Row("NEW", "Z")>>),
   IfThen(Compare(Local("X"), Literal), Assign("V", Local("X"))), Fetch(Late(Of("Z", U), <<"X">>)), Fetch(Late(Of("V", U), <<"V">>)),
   ForSelect(Late(Where(Of("V", UA), Exists(Where(All(UB), Compare(Q("A", "Z"), C("Z"))))), <<"V">>), Assign("V", Local("V"))),
   InsertSelect("U", <<"V">>, Of("NAME", T)), Fetch(Late(Of("Z", Derived(All(T), "D")), <<"V">>))}
Alters(g, c) == <<Trigger("ALTER", g, "U", Ok(<<"V">>), Block(<<Assign("V", Row("NEW", c))>>))>>
ClearScripts == {Script(u) : u \in UNION {
  {<<Plainly(Fetch(q))>> : q \in NamedQueries \cup ScopedQueries}, {<<Plainly(s)>> : s \in NamedStatements},
  {<<Proc(Local2, <<s>>)>> : s \in Bodies}, {<<Trig(ls, <<s>>)>> : ls \in {<<"V">>, <<>>}, s \in Rows},
  {<<With(<<Cte("K", cs, Of("ID", T))>>, Of(c, K))>> : cs \in {<<>>, <<"X">>}, c \in {"X", "ID"}},
  {<<With(<<Cte("K", <<>>, Of("ID", T)), Cte("J", <<>>, Of(c, K))>>, Of("ID", Table("J", "")))>> : c \in {"ID", "NAME"}},
  {<<With(<<Cte("T", <<>>, Of("V", UA))>>, Of(c, T))>> : c \in {"V", "NAME"}},
  {<<Ddl("CREATE", "X", <<"Z">>), Plainly(Fetch(Of("Z", X1)))>>, <<Ddl("ALTER", "T", <<"Z">>), Plainly(Fetch(Of("Z", T)))>>,
   <<Plainly(Fetch(Of("Z", T))), Ddl("ALTER", "T", <<"Z">>)>>, Alters("G", "V"), Alters("G", "NAME"), Alters("H", "V"),
   <<Proc(<<Fine("V"), Fine("W"), Fine("V")>>, <<Assign("W", Local("V"))>>)>>, <<Trig(<<"V", "W", "V">>, <<Assign("W", Local("V"))>>)>>,
   <<Proc(<<Declared("V", "untyped"), Fine("W")>>, <<Assign("W", Local("V"))>>)>>}}}

\* Where it may be withheld: what a quoted name, a view that is dropped, a broken
\* list, a union of unequal arms or an unknown trigger is about is not certain, and
\* some places are not looked at or misread.
DoubtfulScripts == {Script(u) : u \in UNION {
  {<<Plainly(Fetch(q))>> : q \in
     {Of("NAME", Table("u", "")), Of("Z", Table("RDB$R", "")), [Renamed(T) EXCEPT !.having = <<Compare(C("X"), C("Z"))>>],
      Union(All(X1), Ordered(Of("V", U), "Z")), Union(All(T), Ordered(Of("V", U), "Z")), OfDerived("V", Union(Of("NAME", T), Of("V", U))),
      Select(<<Item(C("ID"))>>, <<TA, Joined(TA, Compare(Q("A", "Z"), C("NAME")))>>)}},
  {<<With(<<Cte("T", <<>>, Where(Of("NAME", T), Compare(C("ID"), Literal)))>>, Of(c, T))>> : c \in {"NAME", "Z"}},
  {<<With(<<Cte("J", <<>>, Of("V", U)), Cte("U", <<>>, Of("ID", T))>>, Of("ID", U))>>},
  {<<Procedure(Create, "P", <<>>, Ok(<<"O">>), <<>>, Block(<<ForSelect(Late(Of("O", Table("P", "")), <<"O">>), Assign("O", Literal))>>))>>,
   <<Proc(<<Fine("LIMIT"), Fine("W")>>, <<Assign("W", Local("LIMIT"))>>)>>},
  {<<Plainly(Broken(Of("Z", X1)))>>, <<Plainly(Broken(Of("Z", X1))), Plainly(Fetch(Of("Z", T)))>>,
   <<Ddl("DROP", "U", <<>>), Plainly(Fetch(Of("Z", U)))>>, Alters("H", "NAME")},
  {<<Proc(Local2, <<s>>)>> : s \in
     {IfThen(Exists(ById(All(T), "X")), Assign("V", Literal)), Assign("V", Call("UPPER", <<Local("X")>>)), Fetch(Late(Of("V", T), <<"V">>)),
      Execute("S", <<Local("X")>>, <<>>), Assign("V", Extract(Local("W"))), Assign("V", Extract(Local("X"))),
      Fetch(Into(Of("ID", T), Bare(<<"X">>))), Fetch(Into(Select(<<Item(Q("A", "ID"))>>, <<UA, UB>>), Bare(<<"V">>)))}},
  {<<Trig(ls, <<s>>)>> : ls \in {<<"V">>, <<>>}, s \in
     {Fetch(Late(Of("V", Selectable("S", <<Literal>>, "R")), <<"V">>)), Update("U", "Z", Local("V"), <<Compare(C("ID"), Row("OLD", "ID"))>>)}}}}
=============================================================================
