----------------------------- MODULE IngestSpec -----------------------------
(***************************************************************************)
(* What an ingestion command does, as one step: the table of ingest.py's   *)
(* module comment (each verb with the table missing or present), Kusto's   *)
(* schema check, and a reply that counts the rows ingested.  A command     *)
(* that is refused leaves everything exactly as it was; one that fails on  *)
(* the way may leave its target created, emptied or filled, and no more.   *)
(***************************************************************************)
EXTENDS Sequences

CONSTANTS Tables, Commands, Missing, NoReply, NoCommand

VARIABLES
    tables,
    pending,  \* the command being run, NoCommand when there is none
    reply     \* the RowCount of the last one

vars == <<tables, pending, reply>>

\* What the source of a command is in the state ts: rows of its own, or those
\* of a table.
Bound(s, ts)   == s.kind = "table" => ts[s.table] # Missing
TypesOf(s, ts) == IF s.kind = "table" THEN ts[s.table].types ELSE s.types
RowsOf(s, ts)  == IF s.kind = "table" THEN ts[s.table].rows ELSE s.rows

Accepts(c, ts) ==
    /\ Bound(c.source, ts)
    /\ c.verb = "append" => ts[c.table] # Missing
    /\ c.verb = "set" => ts[c.table] = Missing
    /\ ts[c.table] # Missing => ts[c.table].types = TypesOf(c.source, ts)

Result(c, ts) ==
    LET kept == IF ts[c.table] = Missing \/ c.verb = "set-or-replace"
                THEN <<>> ELSE ts[c.table].rows
    IN  [ts EXCEPT ![c.table] = [types |-> TypesOf(c.source, ts),
                                 rows  |-> kept \o RowsOf(c.source, ts)]]

\* A source that reads the table it is ingested into sees it change.
Independent(c) == c.source.kind = "table" => c.source.table # c.table

Emptied(c, ts) ==
    [ts EXCEPT ![c.table] = [types |-> TypesOf(c.source, ts), rows |-> <<>>]]

\* What a command that failed on the way may leave behind.
Remains(c, ts) ==
    {ts, Result(c, ts)} \cup
    (IF ts[c.table] = Missing \/ c.verb = "set-or-replace" THEN {Emptied(c, ts)} ELSE {})

OthersUntouched(c) == \A t \in Tables \ {c.table} : tables'[t] = tables[t]

Ingest(c) ==
    /\ Accepts(c, tables) /\ Independent(c)
    /\ tables' = Result(c, tables)
    /\ reply' = Len(RowsOf(c.source, tables))

\* Nothing is promised of its own table.
IngestFromItself(c) ==
    /\ Accepts(c, tables) /\ ~Independent(c)
    /\ OthersUntouched(c)

Refuse(c) ==
    /\ ~Accepts(c, tables)
    /\ reply' = NoReply
    /\ UNCHANGED tables

Fail(c) ==
    /\ Accepts(c, tables) /\ Independent(c)
    /\ tables' \in Remains(c, tables)
    /\ reply' = NoReply

Init ==
    /\ tables = [t \in Tables |-> Missing]
    /\ pending = NoCommand
    /\ reply = NoReply

Issue ==
    /\ pending = NoCommand
    /\ pending' \in Commands
    /\ UNCHANGED <<tables, reply>>

Finish ==
    /\ pending # NoCommand
    /\ pending' = NoCommand
    /\ \/ Ingest(pending) \/ IngestFromItself(pending)
       \/ Refuse(pending) \/ Fail(pending)

Spec == Init /\ [][Issue \/ Finish]_vars
=============================================================================
