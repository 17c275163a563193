------------------------------- MODULE Commands -------------------------------
(***************************************************************************)
(* workspace/executeCommand: the only request that runs on a goroutine of  *)
(* its own (handler/dispatch.go), against $/cancelRequest and document     *)
(* edits on the read loop and connection changes by the coordinator.       *)
(*                                                                         *)
(* executeQuery runs the statements of a document, one after another;      *)
(* getQueryParameters names the parameters of a document and the context   *)
(* they were found in; executeQuery with values runs them if the context   *)
(* still holds; explainQuery prepares and runs nothing.  A document is one *)
(* of a few texts, a text is a sequence of statements, and a statement is  *)
(* what the routing tells apart.  What the database does with a statement  *)
(* is a choice.  Module ConnectionCoordinator has the life of the          *)
(* connection; here it is a generation that changes under connMu.          *)
(***************************************************************************)
EXTENDS Naturals, Sequences, SequencesExt

CONSTANTS
  Requests,     \* ids of executeCommand requests
  Docs,         \* texts the document can have
  Text,         \* the statements of a text: a sequence of [kind, named]
  Compiles,     \* the texts the parameter compiler accepts
  Abilities,    \* the sets of optional interfaces a repository may implement
  Catalogs,     \* what the cache may say of the procedure that is called
  MaxGen        \* bound: connection generations

NoDoc == 0

ASSUME CommandsAssumption ==
  /\ NoDoc \notin Docs /\ Text \in [Docs -> Seq([kind : STRING, named : BOOLEAN])] /\ MaxGen \in Nat \ {0}

NoContext == [doc |-> NoDoc, gen |-> 0]
Contexts == [doc : Docs \union {NoDoc}, gen : 0..MaxGen]
Kinds == {"query", "bound", "discover", "explain"}
Ends == {"ok", "failed", "stopped"}    \* stopped: what cancellationNotice has a message for

VARIABLES
  doc,                      \* the text of the open document
  gen, ready, changing,     \* connGeneration, connectionState and the writer of connMu
  abilities, catalog,       \* of the connection, and its metadata cache
  offered,                  \* contexts the client got from getQueryParameters
  req,                      \* the requests
  ran,                      \* what each request had the database execute
  entries                   \* cancelRegistry: the registered requests

cmdVars == <<doc, gen, ready, changing, abilities, catalog, offered, req, ran, entries>>
world == <<doc, gen, ready, changing, abilities, catalog>>

NewRequest == [at |-> "none", kind |-> "query", want |-> NoContext, cap |-> NoContext, cat |-> "none",
               i |-> 0, cancelled |-> FALSE, out |-> "none", reply |-> "none"]
Outs == {"none", "result", "discovery", "unsupported", "notice", "failed", "changing", "notReady",
         "noDocument", "stale", "refused", "cancelled", "late"}
Holding == {"locked", "running", "describing"}

CmdTypeOK ==
  /\ doc \in Docs \union {NoDoc} /\ gen \in 0..MaxGen /\ ready \in BOOLEAN
  /\ changing \in {"no", "wanted", "locked"}
  /\ abilities \in Abilities /\ catalog \in Catalogs /\ offered \subseteq Contexts /\ entries \subseteq Requests
  /\ req \in [Requests -> [at : {"none", "received", "registered", "locked", "running", "describing", "returned",
                                 "answered", "done"},
                           kind : Kinds, want : Contexts, cap : Contexts, cat : Catalogs \union {"none"},
                           i : Nat, cancelled : BOOLEAN, out : Outs, reply : Outs]]
  /\ DOMAIN ran = Requests

CmdInit ==
  /\ doc \in Docs \union {NoDoc} /\ gen = 1 /\ ready \in BOOLEAN /\ changing = "no"
  /\ abilities \in Abilities /\ catalog \in Catalogs
  /\ offered = {} /\ entries = {}
  /\ req = [c \in Requests |-> NewRequest] /\ ran = [c \in Requests |-> <<>>]

-----------------------------------------------------------------------------
(* The read loop, the coordinator and the metadata loader.                 *)

\* didOpen, didChange and didClose.
Edit(d) ==
  /\ d # doc /\ doc' = d
  /\ UNCHANGED <<gen, ready, changing, abilities, catalog, offered, req, ran, entries>>

\* attachIntent: Lock waits for the readers and keeps new ones out.
ChangeWanted ==
  /\ changing = "no" /\ gen < MaxGen /\ changing' = "wanted"
  /\ UNCHANGED <<doc, gen, ready, abilities, catalog, offered, req, ran, entries>>
ChangeBegins ==
  /\ changing = "wanted" /\ \A c \in Requests : req[c].at \notin Holding
  /\ changing' = "locked" /\ gen' = gen + 1 /\ ready' = FALSE
  /\ UNCHANGED <<doc, abilities, catalog, offered, req, ran, entries>>
ChangeEnds(ok, a) ==
  /\ changing = "locked" /\ changing' = "no" /\ ready' = ok /\ abilities' = a
  /\ UNCHANGED <<doc, gen, catalog, offered, req, ran, entries>>

\* Stop takes no connMu.
ServerStops ==
  /\ ready /\ changing = "no" /\ ready' = FALSE
  /\ UNCHANGED <<doc, gen, changing, abilities, catalog, offered, req, ran, entries>>

CatalogLoads(k) ==
  /\ k # catalog /\ catalog' = k
  /\ UNCHANGED <<doc, gen, ready, changing, abilities, offered, req, ran, entries>>

Step(c, r) == req' = [req EXCEPT ![c] = r]

\* A goroutine of its own; a submission carries a context the client was given.
Handle(c, kind, want) ==
  /\ req[c].at = "none" /\ (kind = "bound" => want \in offered) /\ (kind # "bound" => want = NoContext)
  /\ Step(c, [req[c] EXCEPT !.at = "received", !.kind = kind, !.want = want])
  /\ UNCHANGED <<world, offered, ran, entries>>

\* handleCancelRequest: the entry is looked up under the lock, marked, and its context
\* cancelled; a request that is not registered is left alone.
Cancel(c) ==
  /\ c \in entries /\ Step(c, [req[c] EXCEPT !.cancelled = TRUE])
  /\ UNCHANGED <<world, offered, ran, entries>>

-----------------------------------------------------------------------------
(* The request's goroutine.                                                *)

Register(c) ==
  /\ req[c].at = "received" /\ Step(c, [req[c] EXCEPT !.at = "registered"])
  /\ entries' = entries \union {c} /\ UNCHANGED <<world, offered, ran>>

Return(c, out) == Step(c, [req[c] EXCEPT !.at = "returned", !.out = out])

\* getQueryParameters looks at its context; then acquireReadyConnection: TryRLock,
\* and then the state.
AcquireReadyConnection(c) ==
  /\ req[c].at = "registered"
  /\ CASE req[c].kind = "discover" /\ req[c].cancelled -> Return(c, "cancelled")
       [] changing # "no" -> Return(c, "changing")
       [] changing = "no" /\ ~ready -> Return(c, IF req[c].kind = "discover" THEN "unsupported" ELSE "notReady")
       [] OTHER -> Step(c, [req[c] EXCEPT !.at = "locked"])
  /\ UNCHANGED <<world, offered, ran, entries>>

Named(d) == \E i \in DOMAIN Text[d] : Text[d][i].named

\* refuseLegacyNamedParameters: markers never reach the driver as text.
RefusedLegacy(d) == d \in Compiles /\ Named(d)

\* statementRouting and interBaseProcedureRouting, once per statement.
Route(kind, cat) ==
  [query |-> kind = "read",
   rows |-> kind = "call" /\ cat = "rows",
   unknown |-> kind = "call" /\ cat \in {"none", "missing", "unloaded"}]

\* boundReadFor, boundExecFor and queryResultWithRepository: the method a statement
\* is run with.  A read-only transaction is not given up for a bound read.
BoundRead(allowReadOnly) ==
  CASE allowReadOnly /\ "readOnlyParams" \in abilities -> "readOnlyParams"
    [] allowReadOnly /\ "readOnlyParams" \notin abilities /\ "readOnly" \in abilities -> "none"
    [] OTHER -> IF "params" \in abilities THEN "params" ELSE "none"
BoundExec == IF "params" \in abilities THEN "params" ELSE "none"
Method(route, args) ==
  CASE args /\ (route.query \/ route.rows) -> BoundRead(route.query)
    [] args /\ ~route.query /\ ~route.rows -> BoundExec
    [] ~args /\ route.query -> IF "readOnly" \in abilities THEN "readOnly" ELSE "query"
    [] OTHER -> IF route.rows THEN "query" ELSE "exec"

RouteOf(c, i) == Route(Text[req[c].cap.doc][i].kind, req[c].cat)
ArgsOf(c, i) == req[c].kind = "bound" /\ Text[req[c].cap.doc][i].named
MethodOf(c, i) == Method(RouteOf(c, i), ArgsOf(c, i))

\* captureEditorSnapshot, under stateMu: text, generation, repository and cache at
\* once.  Without a repository (Stop took the connection) nothing runs.
Captured(c) == [req[c] EXCEPT !.at = "running", !.i = 1, !.cap = [doc |-> doc, gen |-> gen], !.cat = catalog]

CaptureQuery(c) ==
  /\ req[c].at = "locked" /\ req[c].kind = "query"
  /\ CASE doc = NoDoc -> Return(c, "noDocument")
       [] doc # NoDoc /\ RefusedLegacy(doc) -> Return(c, "refused")
       [] doc # NoDoc /\ ~RefusedLegacy(doc) /\ ~ready -> Return(c, IF Text[doc] = <<>> THEN "result" ELSE "failed")
       [] OTHER -> Step(c, Captured(c))
  /\ UNCHANGED <<world, offered, ran, entries>>

\* A plausible mistake: the document is not compared.
SubmissionConnectionCurrent(c) == req[c].want.gen = gen
\* validateSubmission.
SubmissionCurrent(c) == req[c].want = [doc |-> doc, gen |-> gen]

Routable(c) ==
  \A i \in DOMAIN Text[doc] :
    Text[doc][i].named => Method(Route(Text[doc][i].kind, catalog), TRUE) # "none"

\* preflightBoundBatch: everything that can be checked is checked before the first
\* statement; whether the values bind is the client's doing.
Preflight(c, binds) ==
  /\ req[c].at = "locked" /\ req[c].kind = "bound"
  /\ CASE doc = NoDoc -> Return(c, "noDocument")
       [] doc # NoDoc /\ ~SubmissionCurrent(c) -> Return(c, "stale")
       [] doc # NoDoc /\ SubmissionCurrent(c) /\ ~(ready /\ doc \in Compiles /\ binds /\ Routable(c)) -> Return(c, "refused")
       [] OTHER -> Step(c, Captured(c))
  /\ UNCHANGED <<world, offered, ran, entries>>

\* getQueryParameters: the context is that of one capture.
Discover(c) ==
  /\ req[c].at = "locked" /\ req[c].kind = "discover"
  /\ CASE doc = NoDoc -> Return(c, "noDocument")
       [] doc # NoDoc /\ ~(ready /\ doc \in Compiles) -> Return(c, "failed")
       [] doc # NoDoc /\ ready /\ doc \in Compiles /\ Named(doc) /\ req[c].cancelled -> Return(c, "cancelled")
       [] OTHER -> Step(c, [Captured(c) EXCEPT !.at = IF Named(doc) /\ "describe" \in abilities THEN "describing" ELSE "returned",
                                               !.out = "discovery"])
  /\ UNCHANGED <<world, offered, ran, entries>>

\* inferParameterTypes: a failure leaves the types open, a cancelled context does not.
Describe(c) ==
  /\ req[c].at = "describing" /\ Return(c, IF req[c].cancelled THEN "cancelled" ELSE "discovery")
  /\ UNCHANGED <<world, offered, ran, entries>>

\* explainQuery: plans are asked for, statement by statement, and nothing runs.
Explain(c, end) ==
  /\ req[c].at = "locked" /\ req[c].kind = "explain"
  /\ end = "stopped" => req[c].cancelled
  /\ CASE doc = NoDoc -> Return(c, "noDocument")
       [] doc # NoDoc /\ "explain" \notin abilities -> Return(c, "failed")
       [] OTHER -> Return(c, CASE end = "ok" \/ Text[doc] = <<>> -> "result"
                                [] end = "failed" /\ Text[doc] # <<>> -> "failed"
                                [] OTHER -> "notice")
  /\ UNCHANGED <<world, offered, ran, entries>>

\* renderStatements and runRoutedStatementWithRepository: one statement.  A failed
\* call of an unknown procedure is reported in the result, and the batch goes on.
RunStatement(c, end) ==
  /\ req[c].at = "running" /\ req[c].i <= Len(Text[req[c].cap.doc])
  /\ end = "stopped" => req[c].cancelled
  /\ ran' = [ran EXCEPT ![c] = Append(@, [doc |-> req[c].cap.doc, gen |-> req[c].cap.gen, i |-> req[c].i,
                                          method |-> MethodOf(c, req[c].i), end |-> end])]
  /\ CASE end = "ok" \/ (end = "failed" /\ RouteOf(c, req[c].i).unknown) -> Step(c, [req[c] EXCEPT !.i = @ + 1])
       [] end = "failed" /\ ~RouteOf(c, req[c].i).unknown -> Return(c, "failed")
       [] OTHER -> Return(c, "notice")
  /\ UNCHANGED <<world, offered, entries>>

BatchEnds(c) ==
  /\ req[c].at = "running" /\ req[c].i > Len(Text[req[c].cap.doc]) /\ Return(c, "result")
  /\ UNCHANGED <<world, offered, ran, entries>>

\* A plausible mistake: every answer to a cancelled request carries the note.
ReplyAlwaysNoted(r) == IF r.cancelled THEN "late" ELSE r.out
\* handleWorkspaceExecuteCommand, after connMu was given back: a result that a
\* cancellation was too late for carries a note; discovery is no text.
ReplyOf(r) == IF r.out = "result" /\ r.cancelled THEN "late" ELSE r.out
Answer(c) ==
  /\ req[c].at = "returned"
  /\ Step(c, [req[c] EXCEPT !.at = "answered", !.reply = ReplyOf(req[c])])
  /\ UNCHANGED <<world, offered, ran, entries>>

\* The deferred calls, and then the reply.
Unregister(c) ==
  /\ req[c].at = "answered" /\ Step(c, [req[c] EXCEPT !.at = "done"])
  /\ entries' = entries \ {c}
  /\ offered' = IF req[c].reply = "discovery" THEN offered \union {req[c].cap} ELSE offered
  /\ UNCHANGED <<world, ran>>

-----------------------------------------------------------------------------
RequestStep(c) ==
  \/ Register(c) \/ AcquireReadyConnection(c)
  \/ CaptureQuery(c) \/ Discover(c) \/ Describe(c)
  \/ \E binds \in BOOLEAN : Preflight(c, binds)
  \/ \E end \in Ends : Explain(c, end) \/ RunStatement(c, end)
  \/ BatchEnds(c) \/ Answer(c) \/ Unregister(c)

CmdNext ==
  \/ \E d \in Docs \union {NoDoc} : Edit(d)
  \/ ChangeWanted \/ ChangeBegins \/ ServerStops
  \/ \E ok \in BOOLEAN, a \in Abilities : ChangeEnds(ok, a)
  \/ \E k \in Catalogs : CatalogLoads(k)
  \/ \E c \in Requests : \/ \E kind \in Kinds, want \in offered \union {NoContext} : Handle(c, kind, want)
                         \/ Cancel(c) \/ RequestStep(c)

CmdSpec == CmdInit /\ [][CmdNext]_cmdVars

-----------------------------------------------------------------------------
(* Properties.                                                             *)

InFlight == {c \in Requests : req[c].at \notin {"none", "received", "done"}}

\* What the client is told is what happened: a result, with or without the note
\* that a cancellation came too late, means that every statement ran to its end, once
\* and in order; the notice means that the last one was stopped; and a request that
\* was refused has executed nothing, so that it can be sent again after a fix
\* (preflightBoundBatch).  The cancel registry holds the requests in flight.
RepliesTellTheTruth ==
  /\ CmdTypeOK /\ entries = InFlight
  /\ \A c \in Requests :
       LET reply == req[c].reply IN
       /\ \A n \in DOMAIN ran[c] : ran[c][n].i = n /\ ran[c][n].method # "none"
       /\ \A n \in 1..(Len(ran[c]) - 1) : ran[c][n].end # "stopped"
       /\ reply \in {"result", "late"} /\ req[c].cap # NoContext =>
            Len(ran[c]) = Len(Text[req[c].cap.doc]) /\ \A n \in DOMAIN ran[c] : ran[c][n].end # "stopped"
       /\ reply = "notice" /\ req[c].kind # "explain" => ran[c] # <<>> /\ Last(ran[c]).end = "stopped"
       /\ reply \in {"stale", "refused", "changing", "notReady", "noDocument", "cancelled", "discovery"} => ran[c] = <<>>

\* Every statement runs on the connection its batch was captured under, which no
\* switch replaces meanwhile; one with submitted values runs the text, on the
\* connection, that the client was shown the parameters of.
RunsAsReviewed ==
  \A c \in Requests : ran'[c] # ran[c] =>
    LET r == Last(ran'[c]) IN
    /\ r.gen = gen /\ changing # "locked"
    /\ req[c].kind = "bound" => [doc |-> r.doc, gen |-> r.gen] = req[c].want
StatementsRunAsReviewed == [][RunsAsReviewed]_cmdVars

=============================================================================
