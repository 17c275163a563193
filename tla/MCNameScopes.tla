------------------------------ MODULE MCNameScopes ------------------------------
(***************************************************************************)
(* A trigger, with or without SQL in its body, and then a statement with   *)
(* or without a query in it.                                               *)
(***************************************************************************)
EXTENDS NameChecks, MCScriptData

TriggerScripts ==
  LET bodies == {Assign("V", Literal), Fetch(Late(Of("NAME", T), <<"V">>))}
      after  == {Of("ID", T), Where(Of("ID", T), Exists(All(UA)))}
  IN {Script(<<Trig(ls, <<s>>), Plainly(Fetch(q))>>) : ls \in {<<>>, <<"V">>}, s \in bodies, q \in after}
=================================================================================
