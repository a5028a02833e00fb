------------------------------- MODULE Ingest -------------------------------
(***************************************************************************)
(* The ingestion commands .set, .append, .set-or-append and                *)
(* .set-or-replace (ingest.py).  A command is translated to several SQL    *)
(* statements that DuckDB (external) runs one after the other, each one    *)
(* committed on its own: when a statement fails the command ends there,    *)
(* and what the earlier ones wrote stays.  The source query is part of     *)
(* several of them and is evaluated anew, in the state it finds.           *)
(*                                                                         *)
(* Rows are members of a small set, a schema is a value that is equal or   *)
(* not to another (the ordered list of KQL type names, names ignored).     *)
(***************************************************************************)
EXTENDS Naturals, Sequences

CONSTANTS
    Tables,
    Schemas,
    Rows,
    Commands,       \* [verb, table, source] records, see below
    Interruptible,  \* a servertimeout may interrupt a statement
    Missing,        \* no such table
    NoReply,        \* no command has been answered with rows yet
    NoCommand,
    MaxRows         \* bound: no command is issued that could exceed it

Verbs == {"set", "append", "set-or-append", "set-or-replace"}

\* A source is a literal (datatable), a query over one table, or a literal that
\* fails at run time, when its rows are evaluated and not when it is bound.
SourceKinds == {"literal", "table", "failing"}

ASSUME CommandsAssumption ==
    \A c \in Commands :
        /\ c.verb \in Verbs
        /\ c.table \in Tables
        /\ c.source.kind \in SourceKinds
        /\ IF c.source.kind = "table" THEN c.source.table \in Tables
           ELSE c.source.types \in Schemas /\ c.source.rows \in Seq(Rows)
ASSUME NoCommandAssumption == NoCommand \notin Commands
ASSUME MissingAssumption   == Missing \notin [types : Schemas, rows : Seq(Rows)]
ASSUME InterruptAssumption == Interruptible \in BOOLEAN

VARIABLES
    tables,  \* each table's schema and rows, or Missing
    command, \* the command being run
    stage,   \* its next statement, "idle" when there is none
    before,  \* the tables when it was issued
    reply,   \* the RowCount of the last command, NoReply if it failed
    failed   \* how the last command failed: "no", "schema" or "otherwise"

vars == <<tables, command, stage, before, reply, failed>>

Stages == {"create", "guard", "delete", "insert", "count"}

Contents == [types : Schemas, rows : Seq(Rows)]

Init ==
    /\ tables = [t \in Tables |-> Missing]
    /\ before = tables
    /\ command = NoCommand
    /\ stage = "idle"
    /\ reply = NoReply
    /\ failed = "no"

-----------------------------------------------------------------------------
(* The source query, in the state a statement finds. *)

Bound(s) == s.kind = "table" => tables[s.table] # Missing

TypesOf(s) == IF s.kind = "table" THEN tables[s.table].types ELSE s.types

Evaluates(s) == Bound(s) /\ s.kind # "failing"

RowsOf(s) == IF s.kind = "table" THEN tables[s.table].rows ELSE s.rows

\* The source binds, and the target is there with the source's column types.
Ready(c) ==
    /\ Bound(c.source)
    /\ tables[c.table] # Missing
    /\ tables[c.table].types = TypesOf(c.source)

\* Types, and what the statements that write a target rely on: by then it is
\* there and has the column types of the source, so that every row a table gets
\* is a row of its schema.
TypeOK ==
    /\ tables \in [Tables -> Contents \cup {Missing}]
    /\ before \in [Tables -> Contents \cup {Missing}]
    /\ command \in Commands \cup {NoCommand}
    /\ stage \in Stages \cup {"idle"}
    /\ reply \in Nat \cup {NoReply}
    /\ failed \in {"no", "schema", "otherwise"}
    /\ stage \in {"delete", "insert", "count"} => Ready(command)

-----------------------------------------------------------------------------
(* render_ingestion: which statements a verb is made of. *)

First(verb) == IF verb = "append" THEN "guard" ELSE "create"

\* Mutant: a mismatch is left for the INSERT to find.
FollowingUnguarded(verb, s) ==
    CASE s = "create" -> IF verb = "set-or-replace" THEN "delete" ELSE "insert"
      [] s = "guard"  -> "insert"
      [] s = "delete" -> "insert"
      [] s = "insert" -> "count"
      [] s = "count"  -> "idle"

\* Mutant: every verb replaces.
FollowingDeletes(verb, s) ==
    CASE s = "create" -> IF verb = "set" THEN "insert" ELSE "guard"
      [] s = "guard"  -> "delete"
      [] s = "delete" -> "insert"
      [] s = "insert" -> "count"
      [] s = "count"  -> "idle"

Following(verb, s) ==
    CASE s = "create" -> IF verb = "set" THEN "insert" ELSE "guard"
      [] s = "guard"  -> IF verb = "set-or-replace" THEN "delete" ELSE "insert"
      [] s = "delete" -> "insert"
      [] s = "insert" -> "count"
      [] s = "count"  -> "idle"

\* The statement that is next has run and the command goes on.
Proceed ==
    /\ stage' = Following(command.verb, stage)
    /\ UNCHANGED <<command, before>>

\* It has failed, and the command with it.
Abort(how) ==
    /\ stage' = "idle"
    /\ reply' = NoReply
    /\ failed' = how
    /\ UNCHANGED <<tables, command, before>>

-----------------------------------------------------------------------------
RowsBound(c) ==
    \A t \in Tables : tables[t] # Missing =>
        Len(tables[t].rows) + (IF Bound(c.source) THEN Len(RowsOf(c.source)) ELSE 0)
            <= MaxRows

Issue(c) ==
    /\ stage = "idle"
    /\ RowsBound(c)
    /\ command' = c
    /\ before' = tables
    /\ stage' = First(c.verb)
    /\ UNCHANGED <<tables, reply, failed>>

\* Mutant: `.set` is IF NOT EXISTS too, and takes a table of any column types.
CreateIfNotExists ==
    LET c == command
        present == tables[c.table] # Missing
    IN  /\ stage = "create"
        /\ \/ /\ Bound(c.source)
              /\ tables' = IF present THEN tables
                           ELSE [tables EXCEPT ![c.table] =
                                    [types |-> TypesOf(c.source), rows |-> <<>>]]
              /\ Proceed
              /\ UNCHANGED <<reply, failed>>
           \/ ~Bound(c.source) /\ Abort("otherwise")

\* CREATE TABLE [IF NOT EXISTS] target AS SELECT * FROM source WHERE false
Create ==
    LET c == command
        present == tables[c.table] # Missing
    IN  /\ stage = "create"
        /\ \/ /\ Bound(c.source) /\ ~(present /\ c.verb = "set")
              /\ tables' = IF present THEN tables
                           ELSE [tables EXCEPT ![c.table] =
                                    [types |-> TypesOf(c.source), rows |-> <<>>]]
              /\ Proceed
              /\ UNCHANGED <<reply, failed>>
           \/ /\ ~Bound(c.source) \/ (present /\ c.verb = "set")
              /\ Abort("otherwise")

\* _schema_guard: DESCRIBE of the source and of the target, compared.
Guard ==
    LET c == command
        described == Bound(c.source) /\ tables[c.table] # Missing
        same == tables[c.table].types = TypesOf(c.source)
    IN  /\ stage = "guard"
        /\ \/ described /\ same /\ Proceed /\ UNCHANGED <<tables, reply, failed>>
           \/ described /\ ~same /\ Abort("schema")
           \/ ~described /\ Abort("otherwise")

\* Mutant: the table is dropped where its rows are to be deleted.
DeleteDrops ==
    /\ stage = "delete"
    /\ tables' = [tables EXCEPT ![command.table] = Missing]
    /\ Proceed
    /\ UNCHANGED <<reply, failed>>

\* DELETE FROM target
Delete ==
    /\ stage = "delete"
    /\ tables' = [tables EXCEPT ![command.table].rows = <<>>]
    /\ Proceed
    /\ UNCHANGED <<reply, failed>>

\* INSERT INTO target SELECT * FROM source; DuckDB refuses a source of another
\* shape.
Insert ==
    LET c == command
        fits == Evaluates(c.source) /\ tables[c.table].types = TypesOf(c.source)
    IN  /\ stage = "insert"
        /\ \/ /\ fits
              /\ tables' = [tables EXCEPT ![c.table].rows = @ \o RowsOf(c.source)]
              /\ Proceed
              /\ UNCHANGED <<reply, failed>>
           \/ /\ ~fits
              /\ Abort(IF Evaluates(c.source) THEN "schema" ELSE "otherwise")

\* Mutant: the extent row counts what the table holds.
CountTarget ==
    /\ stage = "count"
    /\ reply' = Len(tables[command.table].rows)
    /\ failed' = "no"
    /\ Proceed
    /\ UNCHANGED tables

\* RowCount: the source again, counted; no row at all stands for zero.
Count ==
    /\ stage = "count"
    /\ reply' = Len(RowsOf(command.source))
    /\ failed' = "no"
    /\ Proceed
    /\ UNCHANGED tables

\* A statement is interrupted and undone; nothing before it is.
Interrupted ==
    /\ Interruptible
    /\ stage # "idle"
    /\ Abort("otherwise")

Next ==
    \/ \E c \in Commands : Issue(c)
    \/ Create \/ Guard \/ Delete \/ Insert \/ Count \/ Interrupted

Spec == Init /\ [][Next]_vars

-----------------------------------------------------------------------------
(* Properties. *)

\* A command refused for its schema left every table exactly as it was, the
\* target's rows included: the check comes before the DELETE.  (_schema_guard:
\* "on refusal the target is left exactly as it was".)
SchemaRefusalChangesNothing == stage = "idle" /\ failed = "schema" => tables = before

\* Until a command is over, its statements are hidden: the tables are as it found
\* them.
tablesBar  == IF stage = "idle" THEN tables ELSE before
pendingBar == IF stage = "idle" THEN NoCommand ELSE command

Atomic == INSTANCE IngestSpec WITH tables <- tablesBar, pending <- pendingBar

\* Whatever its source and whatever fails or interrupts it, a command is one
\* step of IngestSpec: it does what its verb's entry in the table says and
\* replies the rows ingested, or it is refused and changes nothing, or it fails
\* and leaves its own table, and no other, created, emptied or filled.
IsAtomic == Atomic!Spec

\* .set-or-replace "replaces the rows" with those its source had.
ReplacesWithSource ==
    stage = "idle" /\ failed = "no" /\ command # NoCommand
    /\ command.verb = "set-or-replace" =>
        tables[command.table].rows = Atomic!RowsOf(command.source, before)
=============================================================================
