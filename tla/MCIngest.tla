------------------------------ MODULE MCIngest ------------------------------
(* Two tables, two schemas, rows of two kinds; the sources of each run.     *)
EXTENDS Ingest

MCTables == {"T", "U"}
MCSchemas == {"long", "int"}
MCRows == 1..3

Literal(types, rows) == [kind |-> "literal", types |-> types, rows |-> rows]
FromTable(t) == [kind |-> "table", table |-> t]
Failing(types) == [kind |-> "failing", types |-> types, rows |-> <<1>>]

Literals == {Literal("long", <<>>), Literal("long", <<1, 2>>), Literal("int", <<3>>)}

CommandsOver(sources) ==
    [verb : Verbs, table : MCTables, source : sources]

MCEverything ==
    CommandsOver(Literals \cup {FromTable("T"), FromTable("U"), Failing("long")})

MCTotal == CommandsOver(Literals \cup {FromTable("T"), FromTable("U")})
=============================================================================
