------------------------------ MODULE SingletonSelect ------------------------------
(***************************************************************************)
(* The check that a SELECT ... INTO returns at most one row                *)
(* (internal/sqlsymbol/singleton.go), against what the query returns from  *)
(* a database that respects the keys.                                      *)
(*                                                                         *)
(* A query lists relation instances, each with its keys, how it is joined  *)
(* and the equalities of its ON clause, then the equalities of WHERE.      *)
(* A side of an equality is a column of an instance, <<n, c>>, or a        *)
(* scalar, <<0, s>>.  Other comparisons and null tests can only remove     *)
(* rows and are left out; a query whose text the check does not accept     *)
(* (OR, subqueries, HAVING, UNION, casts) is not reported and not here.    *)
(***************************************************************************)
EXTENDS Naturals, Sequences, FiniteSets, SequencesExt

CONSTANTS
  Column,     \* column names
  Query,      \* the queries
  Contents    \* what a table may hold: sequences of rows, 0 standing for NULL

Null == 0

(* ------------------------------- the check ------------------------------ *)

\* A plausible mistake: ON constrains whichever side it names.
ConstrainsAnySide(eq, target) == TRUE
\* The ON clause of a LEFT JOIN constrains the new side only: only = its number.
Constrains(eq, target) == eq.only = 0 \/ eq.only = target[1]

\* The equalities parseRelations and the WHERE clause collect.
Equalities(q) ==
  UNION {{[left |-> e[1], right |-> e[2], only |-> IF q.relations[n].left THEN n ELSE 0] : e \in q.relations[n].on} :
           n \in DOMAIN q.relations}
  \cup {[left |-> e[1], right |-> e[2], only |-> 0] : e \in q.where}

\* keysBound: columns known to have one value, and instances known to have one row.
Columns(q) == {<<n, c>> : n \in DOMAIN q.relations, c \in Column}
Fixes(eq, target, source, fixed, bound) ==
  target[1] # 0 /\ Constrains(eq, target) /\ (source[1] = 0 \/ source[1] \in bound \/ source \in fixed)
StepColumns(q, fixed, bound) ==
  fixed \cup {t \in Columns(q) : \E eq \in Equalities(q) : \/ eq.left = t /\ Fixes(eq, t, eq.right, fixed, bound)
                                                           \/ eq.right = t /\ Fixes(eq, t, eq.left, fixed, bound)}
StepRelations(q, fixed, bound) ==
  bound \cup {n \in DOMAIN q.relations : \E key \in q.relations[n].keys : key # {} /\ \A c \in key : <<n, c>> \in fixed}
KeysBound(q) ==
  LET known[i \in 0..Cardinality(Columns(q)) + 1] ==
        IF i = 0 THEN [fixed |-> {}, bound |-> {}]
        ELSE LET last == known[i - 1]  fixed == StepColumns(q, last.fixed, last.bound)
             IN [fixed |-> fixed, bound |-> StepRelations(q, fixed, last.bound)]
  IN known[Cardinality(Columns(q)) + 1].bound = DOMAIN q.relations

Supported(q) == ~(q.aggregate /\ q.column /\ ~q.group)
Safe(q) ==
  \/ q.rows = 1
  \/ q.aggregate /\ ~q.group
  \/ q.distinct /\ ~q.aggregate /\ ~q.column
  \/ KeysBound(q)

(* ------------------------------- the query ------------------------------ *)

\* A database gives the rows of each instance: a sequence of column functions.
RowNull == [c \in Column |-> Null]
Respects(rows, keys) ==
  \A i, j \in DOMAIN rows, key \in keys :
    (i # j /\ \A c \in key : rows[i][c] # Null) => \E c \in key : rows[i][c] # rows[j][c]
Legal(q, db) == \A n \in DOMAIN q.relations :
                  /\ Respects(db[n], q.relations[n].keys)
                  /\ \A m \in DOMAIN q.relations : q.relations[n].table = q.relations[m].table => db[n] = db[m]

\* A combination picks a row number of each instance; 0 is the row of NULLs.
Side(db, combo, s) == IF s[1] = 0 THEN s[2] ELSE IF combo[s[1]] = 0 THEN Null ELSE db[s[1]][combo[s[1]]][s[2]]
Holds(db, combo, es) == \A e \in es : Side(db, combo, e[1]) # Null /\ Side(db, combo, e[1]) = Side(db, combo, e[2])
Extended(q, db, n, combo) ==
  LET matches == {Append(combo, i) : i \in {x \in DOMAIN db[n] : Holds(db, Append(combo, x), q.relations[n].on)}}
  IN IF matches = {} /\ q.relations[n].left THEN {Append(combo, 0)} ELSE matches
Combined(q, db) ==
  LET upto[n \in 0..Len(q.relations)] ==
        IF n = 0 THEN {<<>>} ELSE UNION {Extended(q, db, n, combo) : combo \in upto[n - 1]}
  IN {combo \in upto[Len(q.relations)] : Holds(db, combo, q.where)}

\* How many rows the query returns.  It groups by, and projects if it projects a
\* column, the same column of the first instance.
Returned(q, db) ==
  LET rows == Combined(q, db)
      groups == {Side(db, combo, <<1, CHOOSE c \in Column : TRUE>>) : combo \in rows}
      kept == IF q.aggregate /\ ~q.group THEN 1
              ELSE IF q.distinct /\ ~q.aggregate /\ ~q.column THEN IF rows = {} THEN 0 ELSE 1
              ELSE IF q.group \/ q.distinct THEN Cardinality(groups)
              ELSE Cardinality(rows)
  IN IF q.rows # 0 /\ q.rows < kept THEN q.rows ELSE kept

(* ------------------------------- the cases ------------------------------ *)

VARIABLES query, tables
singletonVars == <<query, tables>>

SingletonInit == query \in Query /\ tables \in {db \in [DOMAIN query.relations -> Contents] : Legal(query, db)}
(* ------------------------------- property ------------------------------- *)

\* A SELECT INTO the check lets pass never returns a second row, which InterBase
\* would answer with an error, from any database that respects the keys.
SafeMeansOneRow == Supported(query) /\ Safe(query) => Returned(query, tables) <= 1
================================================================================
