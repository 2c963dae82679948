------------------------------ MODULE SQLQuery ------------------------------
(***************************************************************************)
(* One Database::Query object on each of the three drivers: the named      *)
(* parameters are replaced, the statement is executed (with reconnection   *)
(* on MariaDB and PostgreSQL), rows are fetched into the bound variables,  *)
(* the object is destroyed.  The server and its client library are         *)
(* external: they fail, lose the connection before or after executing, and *)
(* return any rows.                                                        *)
(***************************************************************************)
EXTENDS Naturals, FiniteSets, FiniteSetsExt, Sequences, SequencesExt

CONSTANTS
  SQLDrivers,      \* drivers to check, out of "MariaDB", "PostgreSQL", "SQLite3"
  ResultRows,      \* the results a server may return: sequences of rows of values
  SQLKeys,         \* names of parameters: non-empty sequences of letters, as numbers
  MaxPlaceholders, \* bound: placeholders in a statement
  MaxLosses        \* bound: lost connections

ASSUME QueryAssumption == SQLKeys \subseteq Seq(Nat)

VARIABLES
  sdriver,      \* the driver, "none" before the query is created
  sphase,       \* where the query is
  stype,        \* the kind of the bound result variable and of the input variable
  execType,     \* "SELECT" or "INSERT"
  inputs,       \* the arrays for the inputs are allocated
  stmt,         \* the driver's statement or result handle is open
  stmtLeaks,    \* history: handles dropped while open
  applied,      \* history: how often the server executed the statement
  losses,
  srows, srow,  \* the result of the server and the next row in it
  svar, snull,  \* the bound variable: its value and its null flag
  fieldIsNull,  \* m_fieldIsNull
  stepResult    \* what the last step() returned

queryVars == <<sdriver, sphase, stype, execType, inputs, stmt, stmtLeaks, applied, losses, srows,
               srow, svar, snull, fieldIsNull, stepResult>>

\* Kinds of Memory::Abstract::Var the drivers treat alike.
VarKinds == {"number", "uint64", "text", "binary", "void"}
Unset == "unset"

QueryInit ==
  /\ sdriver = "none" /\ sphase = "new" /\ stype = "number" /\ execType = "SELECT"
  /\ inputs = FALSE /\ stmt = FALSE /\ stmtLeaks = 0 /\ applied = 0 /\ losses = 0
  /\ srows = <<>> /\ srow = 1
  /\ svar = Unset /\ snull = FALSE /\ fieldIsNull = <<>> /\ stepResult = "none"

-----------------------------------------------------------------------------
\* Query::replaceFirstKey, repeated: a statement is a sequence of placeholders,
\* a key is found in a placeholder of which it is a prefix.  The first position
\* wins; of the keys found there the last one in the order of the map, which is
\* the longest.
KeysAt(ph, keys) == {k \in keys : IsPrefix(k, ph)}

FirstKey(ph, keys) == CHOOSE k \in KeysAt(ph, keys) : \A j \in KeysAt(ph, keys) : Len(j) <= Len(k)

\* The keys by position that the loop of postBindInputVars leaves.
KeysByPos(statement, keys) == [i \in DOMAIN statement |-> FirstKey(statement[i], keys)]

\* A driver whose bind of this kind of variable throws.
BindThrows(d, k) == d = "SQLite3" /\ k = "uint64"

\* createQuery and bindInputVars.  MariaDB and PostgreSQL replace the keys and
\* copy the inputs into the client library's arrays here (postBindInputVars),
\* SQLite3 does both in exec0.
PrepareOn(d, k, e) ==
  /\ sphase = "new" /\ d \in SQLDrivers
  /\ sdriver' = d /\ stype' = k /\ execType' = e
  /\ inputs' = (d # "SQLite3")
  /\ sphase' = "exec"
  /\ UNCHANGED <<stmt, stmtLeaks, applied, losses, srows, srow, svar, snull, fieldIsNull, stepResult>>

MariaDBPrepare(k, e) == PrepareOn("MariaDB", k, e)
PostgreSQLPrepare(k, e) == PrepareOn("PostgreSQL", k, e)
SQLite3Prepare(k, e) == PrepareOn("SQLite3", k, e)

\* exec0 returns: the rows come with success.
Executed(rows) ==
  /\ sphase' = "ready"
  /\ srows' = rows /\ srow' = 1

ServerRows == IF execType = "SELECT" THEN ResultRows ELSE {<<>>}

-----------------------------------------------------------------------------
\* Query_MariaDB::exec0: prepare, bind, execute, store.  A lost connection - also
\* one lost after the server executed - goes to reconnection(), anything else
\* that fails returns false.
MariaDBExec ==
  /\ sdriver = "MariaDB" /\ sphase = "exec" /\ ~stmt
  /\ stmt' = TRUE
  /\ \/ /\ \E r \in ServerRows : Executed(r)
        /\ applied' = applied + 1 /\ UNCHANGED losses
     \/ /\ sphase' = "failed"
        /\ UNCHANGED <<applied, losses, srows, srow>>
     \/ /\ losses < MaxLosses
        /\ losses' = losses + 1
        /\ applied' \in {applied, applied + 1}
        /\ sphase' = "reconnect"
        /\ UNCHANGED <<srows, srow>>
  /\ UNCHANGED <<sdriver, stype, execType, inputs, stmtLeaks, svar, snull, fieldIsNull, stepResult>>

\* Query_MariaDB::reconnection: with a new connection the statement is closed and
\* exec0 runs again, as often as the connection is lost; without one it fails.
MariaDBReconnect ==
  /\ sdriver = "MariaDB" /\ sphase = "reconnect"
  /\ \/ stmt' = FALSE /\ sphase' = "exec"
     \/ sphase' = "failed" /\ UNCHANGED stmt
  /\ UNCHANGED <<sdriver, stype, execType, inputs, stmtLeaks, applied, losses, srows, srow, svar,
                 snull, fieldIsNull, stepResult>>

\* Query_PostgreSQL::exec0: without a result (and only then) it reconnects and
\* executes again; a result that reports an error is cleared.
PostgreSQLExec ==
  /\ sdriver = "PostgreSQL" /\ sphase = "exec" /\ ~stmt
  /\ \/ /\ \E r \in ServerRows : Executed(r)
        /\ stmt' = TRUE
        /\ applied' = applied + 1 /\ UNCHANGED losses
     \/ /\ sphase' = "failed" /\ stmt' = FALSE
        /\ UNCHANGED <<applied, losses, srows, srow>>
     \/ /\ losses < MaxLosses
        /\ losses' = losses + 1
        /\ applied' \in {applied, applied + 1}
        /\ sphase' \in {"exec", "failed"} /\ stmt' = FALSE
        /\ UNCHANGED <<srows, srow>>
  /\ UNCHANGED <<sdriver, stype, execType, inputs, stmtLeaks, svar, snull, fieldIsNull, stepResult>>

\* Query_SQLite3::exec0: prepare (the handle stays null when it fails), bind, and
\* for an INSERT the one step.
SQLite3Exec ==
  /\ sdriver = "SQLite3" /\ sphase = "exec" /\ ~stmt
  /\ \/ /\ sphase' = "failed" /\ stmt' = FALSE
        /\ UNCHANGED <<applied, srows, srow>>
     \/ /\ stmt' = TRUE
        /\ BindThrows(sdriver, stype)
        /\ sphase' = "thrown"
        /\ UNCHANGED <<applied, srows, srow>>
     \/ /\ stmt' = TRUE
        /\ ~BindThrows(sdriver, stype)
        /\ \/ \E r \in ServerRows : Executed(r) /\ applied' = applied + 1
           \/ /\ execType = "INSERT"
              /\ sphase' \in {"failed", "thrown"}
              /\ UNCHANGED <<applied, srows, srow>>
  /\ UNCHANGED <<sdriver, stype, execType, inputs, stmtLeaks, losses, svar, snull, fieldIsNull, stepResult>>

-----------------------------------------------------------------------------
\* How a column that is not null reaches the variable: MariaDB asks for the size
\* of texts and binaries first and stores nothing when it is zero; a void
\* variable is set to null; SQLite3 throws on uint64.
MariaDBColumn(v) ==
  IF stype \in {"text", "binary"} /\ v = "empty" THEN [value |-> svar, null |-> FALSE]
  ELSE [value |-> IF stype = "void" THEN svar ELSE v, null |-> stype = "void"]

PlainColumn(v) == [value |-> IF stype = "void" THEN svar ELSE v, null |-> stype = "void"]

SQLite3Column(v) == PlainColumn(v)
PostgreSQLColumn(v) == PlainColumn(v)

\* Mutant: the flag of the previous row stays.
StepResetForgotten == snull

\* Query::step clears the null flags before every row.
StepReset == FALSE

Fetch(column(_), found) ==
  LET v == srows[srow] c == column(v)
  IN /\ IF v = "null"
        THEN /\ snull' = TRUE /\ UNCHANGED svar
             /\ fieldIsNull' = <<TRUE>>
        ELSE /\ snull' = (c.null \/ StepReset)
             /\ svar' = c.value
             /\ fieldIsNull' = <<FALSE>>
     /\ srow' = srow + 1
     /\ stepResult' = found

\* No more rows: the flags were cleared, nothing is stored.
NoRow ==
  /\ srow > Len(srows)
  /\ snull' = StepReset /\ fieldIsNull' = <<>>
  /\ stepResult' = "no"
  /\ UNCHANGED <<svar, srow>>

QStepFrame == UNCHANGED <<sdriver, sphase, stype, execType, inputs, stmt, stmtLeaks, applied, losses, srows>>

\* Query_MariaDB::step0.
MariaDBStep ==
  /\ sdriver = "MariaDB" /\ sphase = "ready"
  /\ NoRow \/ (srow <= Len(srows) /\ Fetch(MariaDBColumn, "row"))
  /\ QStepFrame

\* Query_SQLite3::step0.
SQLite3Step ==
  /\ sdriver = "SQLite3" /\ sphase = "ready"
  /\ NoRow \/ (srow <= Len(srows) /\ Fetch(SQLite3Column, "row"))
  /\ QStepFrame

\* Query_PostgreSQL::step0 stores the row and advances, and returns false.
PostgreSQLStep ==
  /\ sdriver = "PostgreSQL" /\ sphase = "ready"
  /\ NoRow \/ (srow <= Len(srows) /\ Fetch(PostgreSQLColumn, "no"))
  /\ QStepFrame

DestroyOn(d) ==
  /\ sdriver = d /\ sphase \in {"ready", "failed", "thrown"}
  /\ sphase' = "destroyed"
  /\ stmt' = FALSE /\ inputs' = FALSE
  /\ UNCHANGED <<sdriver, stype, execType, stmtLeaks, applied, losses, srows, srow, svar, snull,
                 fieldIsNull, stepResult>>

\* The destructors of the three drivers close the statement or the result, if it
\* is open, and free the arrays of the inputs.
MariaDBDestroy == DestroyOn("MariaDB")
PostgreSQLDestroy == DestroyOn("PostgreSQL")
SQLite3Destroy == DestroyOn("SQLite3")

QueryNext ==
  \/ \E k \in VarKinds, e \in {"SELECT", "INSERT"} :
       MariaDBPrepare(k, e) \/ PostgreSQLPrepare(k, e) \/ SQLite3Prepare(k, e)
  \/ MariaDBExec \/ MariaDBReconnect \/ MariaDBStep
  \/ PostgreSQLExec \/ PostgreSQLStep
  \/ SQLite3Exec \/ SQLite3Step
  \/ MariaDBDestroy \/ PostgreSQLDestroy \/ SQLite3Destroy

QuerySpec == QueryInit /\ [][QueryNext]_queryVars

-----------------------------------------------------------------------------
(* A row that step() reports is the one the caller sees: the variable is null
   exactly when the column is, and has the column's value otherwise, not the
   one of an earlier row.  (On MariaDB an empty text or binary column leaves the
   variable as it was.) *)
RowIsFresh ==
  (stepResult = "row" /\ stype # "void") =>
    LET v == srows[srow - 1]
    IN /\ snull = (v = "null") /\ fieldIsNull = <<v = "null">>
       /\ v = "null" \/ svar = v
          \/ (sdriver = "MariaDB" /\ v = "empty" /\ stype \in {"text", "binary"})

(* exec() that reports success executed the statement at least once, and a
   statement that was executed twice lost its connection in between: the
   reconnection repeats a statement whose answer was lost. *)
SuccessWasApplied ==
  /\ sphase = "ready" => applied >= 1
  /\ applied <= 1 + losses

(* Whatever path exec took - lost connections, exceptions - the destructor
   leaves no statement, result or array of inputs behind. *)
NoStatementLeft == sphase = "destroyed" => ~stmt /\ ~inputs /\ stmtLeaks = 0

(* Every placeholder is bound to the variable of exactly its name, also when the
   name of one parameter is a prefix of another's. *)
ParametersBoundByName ==
  \A n \in 0..MaxPlaceholders : \A st \in [1..n -> SQLKeys] :
    sdriver = "none" => KeysByPos(st, SQLKeys) = st

(* A query on any driver: fresh rows, no success without its effect, nothing left
   behind, the parameters bound by name. *)
QuerySound == RowIsFresh /\ SuccessWasApplied /\ NoStatementLeft /\ ParametersBoundByName
=============================================================================
