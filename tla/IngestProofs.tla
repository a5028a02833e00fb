---------------------------- MODULE IngestProofs ----------------------------
(***************************************************************************)
(* Proofs about the ingestion commands, for every set of tables, schemas,  *)
(* rows and commands and wherever a statement may fail or be interrupted:  *)
(* the model is well typed, a command refused for its schema leaves every  *)
(* table as it was, and the statements of a command implement IngestSpec,  *)
(* where a command is one step, taken when it is over.                     *)
(***************************************************************************)
EXTENDS Ingest, TLAPS

\* Until a statement of the command has changed a table they are as before; the
\* guard then finds either that, or a target made after its source.
Progress ==
    /\ stage # "idle" => command \in Commands
    /\ stage = "create" => tables = before
    /\ stage = "guard" => tables = before \/ Ready(command)

IInv == TypeOK /\ Progress /\ SchemaRefusalChangesNothing

-----------------------------------------------------------------------------
(* The source of a command. *)

\* A source that is bound has a schema and a sequence of rows.
LEMMA SourceType ==
    ASSUME TypeOK, NEW c \in Commands, Bound(c.source)
    PROVE  TypesOf(c.source) \in Schemas /\ RowsOf(c.source) \in Seq(Rows)
<1>1. CASE c.source.kind = "table"
  <2>1. c.source.table \in Tables /\ tables[c.source.table] # Missing
    BY <1>1, CommandsAssumption DEF Bound
  <2>2. tables[c.source.table] \in Contents
    BY <2>1 DEF TypeOK
  <2> QED
    BY <1>1, <2>2 DEF TypesOf, RowsOf, Contents
<1>2. CASE c.source.kind # "table"
  BY <1>2, CommandsAssumption DEF TypesOf, RowsOf
<1> QED
  BY <1>1, <1>2

LEMMA TargetType ==
    ASSUME TypeOK, NEW c \in Commands
    PROVE  /\ c.table \in Tables
           /\ c.verb \in Verbs
           /\ tables[c.table] # Missing => tables[c.table] \in Contents
BY CommandsAssumption DEF TypeOK

\* The statement after one that is not the last is a statement.
LEMMA FollowingType ==
    ASSUME NEW v, NEW s \in Stages
    PROVE  /\ Following(v, s) \in Stages \cup {"idle"}
           /\ s = "create" => Following(v, s) = IF v = "set" THEN "insert" ELSE "guard"
           /\ s = "guard" => Following(v, s) \in {"delete", "insert"}
           /\ s = "delete" => Following(v, s) = "insert"
           /\ s = "insert" => Following(v, s) = "count"
           /\ s = "count" => Following(v, s) = "idle"
BY DEF Following, Stages

\* A failure keeps the invariant when it is not a schema's, or when no table
\* has changed.
LEMMA AbortKeeps ==
    ASSUME IInv, NEW how \in {"no", "schema", "otherwise"}, Abort(how),
           how = "schema" => tables = before
    PROVE  IInv'
BY DEF IInv, Abort, TypeOK, Progress, SchemaRefusalChangesNothing

-----------------------------------------------------------------------------
(* One lemma per statement. *)

LEMMA IssueKeeps ==
    ASSUME IInv, NEW c \in Commands, Issue(c)
    PROVE  IInv'
BY DEF IInv, Issue, First, TypeOK, Stages, Progress, SchemaRefusalChangesNothing

LEMMA CreateKeeps ==
    ASSUME IInv, Create
    PROVE  IInv'
<1> DEFINE c == command
           present == tables[c.table] # Missing
<1>1. c \in Commands /\ stage = "create" /\ tables = before
  BY DEF IInv, Create, Progress
<1>2. CASE Bound(c.source) /\ ~(present /\ c.verb = "set") /\ Proceed
           /\ UNCHANGED <<reply, failed>>
           /\ tables' = IF present THEN tables
                        ELSE [tables EXCEPT ![c.table] =
                                 [types |-> TypesOf(c.source), rows |-> <<>>]]
  <2>1. stage' = IF c.verb = "set" THEN "insert" ELSE "guard"
    BY <1>1, <1>2, FollowingType DEF Proceed, Stages
  <2>2. CASE present
    <3>1. tables' = before' /\ stage' = "guard"
      BY <1>1, <1>2, <2>1, <2>2 DEF Proceed
    <3> QED
      BY <1>1, <1>2, <2>2, <3>1
      DEF IInv, TypeOK, Progress, SchemaRefusalChangesNothing, Proceed, Stages
  <2>3. CASE ~present
    <3> DEFINE new == [types |-> TypesOf(c.source), rows |-> <<>>]
    <3>1. new \in Contents
      BY <1>1, <1>2, SourceType DEF IInv, Contents
    <3>2. c.table \in Tables
      BY <1>1, TargetType DEF IInv
    <3>3. tables' = [tables EXCEPT ![c.table] = new]
      BY <1>2, <2>3
    <3>4. tables' \in [Tables -> Contents \cup {Missing}]
      BY <3>1, <3>2, <3>3 DEF IInv, TypeOK
    <3>6. tables'[c.table] = new
      BY <3>2, <3>3 DEF IInv, TypeOK
    <3>7. new # Missing
      BY <3>1, MissingAssumption DEF Contents
    <3>8. c.source.kind = "table" => c.source.table # c.table
                                     /\ tables'[c.source.table] = tables[c.source.table]
      <4>1. c.source.kind = "table" => c.source.table \in Tables /\ c.source.table # c.table
        BY <1>1, <1>2, <2>3, CommandsAssumption DEF Bound
      <4> QED
        BY <4>1, <3>3 DEF IInv, TypeOK
    <3>9. Bound(c.source)' /\ TypesOf(c.source)' = TypesOf(c.source)
      <4>1. command' = command
        BY <1>2 DEF Proceed
      <4> QED
        BY <1>2, <3>8, <4>1 DEF Bound, TypesOf
    <3>10. Ready(command)'
      <4>1. command' = command
        BY <1>2 DEF Proceed
      <4> QED
        BY <3>6, <3>7, <3>9, <4>1 DEF Ready
    <3>11. TypeOK'
      BY <1>1, <1>2, <2>1, <3>4, <3>10 DEF IInv, TypeOK, Proceed, Stages
    <3> QED
      BY <1>1, <1>2, <2>1, <3>10, <3>11
      DEF IInv, Progress, SchemaRefusalChangesNothing, Proceed
  <2> QED
    BY <2>2, <2>3
<1>3. CASE Abort("otherwise")
  BY <1>3, AbortKeeps
<1> QED
  BY <1>2, <1>3 DEF Create

LEMMA GuardKeeps ==
    ASSUME IInv, Guard
    PROVE  IInv'
<1> DEFINE c == command
           described == Bound(c.source) /\ tables[c.table] # Missing
           same == tables[c.table].types = TypesOf(c.source)
<1>1. stage = "guard" /\ (tables = before \/ Ready(command)) /\ c \in Commands
  BY DEF IInv, Guard, Progress
<1>2. CASE described /\ same /\ Proceed /\ UNCHANGED <<tables, reply, failed>>
  <2>1. stage' \in {"delete", "insert"}
    BY <1>1, <1>2, FollowingType DEF Proceed, Stages
  <2>2. Ready(command)'
    BY <1>2 DEF Ready, Proceed, Bound, TypesOf
  <2> QED
    BY <1>1, <1>2, <2>1, <2>2
    DEF IInv, TypeOK, Progress, SchemaRefusalChangesNothing, Proceed, Stages
<1>3. CASE described /\ ~same /\ Abort("schema")
  BY <1>1, <1>3, AbortKeeps DEF Ready
<1>4. CASE ~described /\ Abort("otherwise")
  BY <1>4, AbortKeeps
<1> QED
  BY <1>2, <1>3, <1>4 DEF Guard

\* Rows come and go; the types of a table that is there stay.
LEMMA RowsKeepReady ==
    ASSUME IInv, Ready(command), Proceed, command \in Commands,
           NEW rows \in Seq(Rows),
           tables' = [tables EXCEPT ![command.table].rows = rows]
    PROVE  Ready(command)' /\ tables' \in [Tables -> Contents \cup {Missing}]
<1> DEFINE c == command
<1>1. /\ c.table \in Tables
      /\ tables[c.table] \in Contents
      /\ tables \in [Tables -> Contents \cup {Missing}]
  BY TargetType DEF IInv, Ready, TypeOK
<1>2. command' = command
  BY DEF Proceed
<1>3. [tables[c.table] EXCEPT !.rows = rows] \in Contents
  BY <1>1 DEF Contents
<1>4. [tables[c.table] EXCEPT !.rows = rows].types = tables[c.table].types
  BY <1>1 DEF Contents
<1>5. tables' = [tables EXCEPT ![c.table] = [tables[c.table] EXCEPT !.rows = rows]]
  OBVIOUS
<1>6. tables' \in [Tables -> Contents \cup {Missing}]
  BY <1>1, <1>3, <1>5
<1>7. /\ tables'[c.table] \in Contents
      /\ tables'[c.table].types = tables[c.table].types
      /\ \A t \in Tables \ {c.table} : tables'[t] = tables[t]
  BY <1>1, <1>3, <1>4, <1>5
<1>8. Missing \notin Contents
  BY MissingAssumption DEF Contents
<1>9. c.source.kind = "table" => c.source.table \in Tables
  BY CommandsAssumption
<1>10. Bound(c.source)'
  <2>1. CASE c.source.kind = "table" /\ c.source.table = c.table
    BY <1>2, <1>7, <1>8, <2>1 DEF Bound
  <2>2. CASE c.source.kind = "table" => c.source.table # c.table
    BY <1>2, <1>7, <1>9, <2>2 DEF Bound, Ready
  <2> QED
    BY <2>1, <2>2
<1>11. TypesOf(c.source)' = TypesOf(c.source)
  <2>1. CASE c.source.kind = "table" /\ c.source.table = c.table
    BY <1>2, <1>7, <2>1 DEF TypesOf
  <2>2. CASE c.source.kind = "table" => c.source.table # c.table
    BY <1>2, <1>7, <1>9, <2>2 DEF TypesOf
  <2> QED
    BY <2>1, <2>2
<1> QED
  BY <1>2, <1>6, <1>7, <1>8, <1>10, <1>11 DEF Ready

LEMMA DeleteKeeps ==
    ASSUME IInv, Delete
    PROVE  IInv'
<1>1. stage = "delete" /\ Ready(command) /\ command \in Commands /\ Proceed
  BY DEF IInv, Delete, TypeOK, Progress
<1>2. Ready(command)' /\ tables' \in [Tables -> Contents \cup {Missing}]
  <2>1. << >> \in Seq(Rows)
    OBVIOUS
  <2>2. tables' = [tables EXCEPT ![command.table].rows = << >>]
    BY DEF Delete
  <2> QED
    BY <1>1, <2>1, <2>2, RowsKeepReady
<1>3. stage' = "insert"
  BY <1>1, FollowingType DEF Proceed, Stages
<1> QED
  BY <1>1, <1>2, <1>3
  DEF IInv, Delete, TypeOK, Progress, SchemaRefusalChangesNothing, Proceed, Stages

LEMMA InsertKeeps ==
    ASSUME IInv, Insert
    PROVE  IInv'
<1> DEFINE c == command
           fits == Evaluates(c.source) /\ tables[c.table].types = TypesOf(c.source)
<1>1. stage = "insert" /\ Ready(command) /\ c \in Commands
  BY DEF IInv, Insert, TypeOK, Progress
<1>2. CASE fits /\ Proceed /\ UNCHANGED <<reply, failed>>
           /\ tables' = [tables EXCEPT ![c.table].rows = @ \o RowsOf(c.source)]
  <2> DEFINE rows == tables[c.table].rows \o RowsOf(c.source)
  <2>1. rows \in Seq(Rows)
    <3>1. tables[c.table].rows \in Seq(Rows)
      BY <1>1, TargetType DEF IInv, Ready, Contents
    <3>2. RowsOf(c.source) \in Seq(Rows)
      BY <1>1, SourceType DEF IInv, Ready
    <3> QED
      BY <3>1, <3>2
  <2>2. tables' = [tables EXCEPT ![c.table].rows = rows]
    BY <1>2
  <2>3. Ready(command)' /\ tables' \in [Tables -> Contents \cup {Missing}]
    <3> HIDE DEF rows
    <3> QED
      BY <1>1, <1>2, <2>1, <2>2, RowsKeepReady
  <2>4. stage' = "count"
    BY <1>1, <1>2, FollowingType DEF Proceed, Stages
  <2> QED
    BY <1>1, <1>2, <2>3, <2>4
    DEF IInv, TypeOK, Progress, SchemaRefusalChangesNothing, Proceed, Stages
<1>3. CASE ~fits /\ Abort(IF Evaluates(c.source) THEN "schema" ELSE "otherwise")
  <2>1. ~Evaluates(c.source)
    BY <1>1, <1>3 DEF Ready
  <2> QED
    BY <1>3, <2>1, AbortKeeps
<1> QED
  BY <1>2, <1>3 DEF Insert

LEMMA CountKeeps ==
    ASSUME IInv, Count
    PROVE  IInv'
<1>1. stage = "count" /\ Ready(command) /\ command \in Commands /\ Proceed
  BY DEF IInv, Count, TypeOK, Progress
<1>2. RowsOf(command.source) \in Seq(Rows)
  BY <1>1, SourceType DEF IInv, Ready
<1>3. reply' \in Nat
  BY <1>2 DEF Count
<1>4. stage' = "idle"
  BY <1>1, FollowingType DEF Proceed, Stages
<1> QED
  BY <1>1, <1>3, <1>4
  DEF IInv, Count, TypeOK, Progress, SchemaRefusalChangesNothing, Proceed, Stages

-----------------------------------------------------------------------------
LEMMA Inductive == IInv /\ [Next]_vars => IInv'
<1> SUFFICES ASSUME IInv, [Next]_vars
             PROVE  IInv'
  OBVIOUS
<1>1. ASSUME NEW c \in Commands, Issue(c)
      PROVE  IInv'
  BY <1>1, IssueKeeps
<1>2. CASE Create
  BY <1>2, CreateKeeps
<1>3. CASE Guard
  BY <1>3, GuardKeeps
<1>4. CASE Delete
  BY <1>4, DeleteKeeps
<1>5. CASE Insert
  BY <1>5, InsertKeeps
<1>6. CASE Count
  BY <1>6, CountKeeps
<1>7. CASE Interrupted
  BY <1>7, AbortKeeps DEF Interrupted
<1>8. CASE UNCHANGED vars
  BY <1>8 DEF vars, IInv, TypeOK, Progress, Ready, Bound, TypesOf,
              SchemaRefusalChangesNothing
<1> QED
  BY <1>1, <1>2, <1>3, <1>4, <1>5, <1>6, <1>7, <1>8 DEF Next

LEMMA InitIInv == Init => IInv
BY DEF Init, IInv, TypeOK, Progress, SchemaRefusalChangesNothing

\* The statements of a command never leave the model's types: in particular the
\* RowCount is counted from a source that is still there.
THEOREM TypeCorrect == Spec => []TypeOK
<1>1. IInv => TypeOK
  BY DEF IInv
<1> QED
  BY <1>1, InitIInv, Inductive, PTL DEF Spec

\* A schema refusal leaves every table exactly as it was: the guard refuses
\* before the DELETE, a table made by the same command is never refused, and
\* the INSERT after the guard finds no mismatch left to refuse.
THEOREM SchemaRefusalIsClean == Spec => []SchemaRefusalChangesNothing
<1>1. IInv => SchemaRefusalChangesNothing
  BY DEF IInv
<1> QED
  BY <1>1, InitIInv, Inductive, PTL DEF Spec

-----------------------------------------------------------------------------
(* The refinement of IngestSpec. *)

Target == command.table
Source == command.source

\* Its source and its target allow the command, in the tables it found.
Accepted == Atomic!Accepts(command, before)

Apart == Atomic!Independent(command)

\* The tables an accepted command makes, before it has rows to insert.
Prepared ==
    IF before[Target] = Missing \/ command.verb = "set-or-replace"
    THEN Atomic!Emptied(command, before) ELSE before

\* Wherever the command ends now, it leaves what it may leave.
EndsWell ==
    stage # "idle" =>
        /\ \A t \in Tables \ {Target} : tables[t] = before[t]
        /\ ~Accepted => tables = before
        /\ Accepted /\ Apart => tables \in Atomic!Remains(command, before)

\* What each statement finds.
Finds ==
    /\ stage = "create" => tables = before /\ command.verb # "append"
    /\ stage = "guard" =>
        /\ command.verb # "set"
        /\ \/ /\ tables = before
              /\ command.verb # "append" => before[Target] # Missing
           \/ /\ before[Target] = Missing
              /\ Accepted /\ Apart
              /\ tables = Atomic!Emptied(command, before)
    /\ stage \in {"delete", "insert", "count"} => Accepted
    /\ stage = "delete" =>
        /\ command.verb = "set-or-replace"
        /\ tables = IF before[Target] = Missing
                    THEN Atomic!Emptied(command, before) ELSE before
    /\ stage = "insert" /\ Apart => tables = Prepared
    /\ stage = "count" /\ Apart => tables = Atomic!Result(command, before)

AInv == IInv /\ EndsWell /\ Finds

-----------------------------------------------------------------------------
(* The abstract operators, in the tables the command found and in those it *)
(* has made.                                                               *)

\* A missing table is not one with contents.
LEMMA ContentsPresent == Missing \notin Contents
BY MissingAssumption DEF Contents

\* A command apart from its target reads the same source at every statement.
LEMMA SourceUnchanged ==
    ASSUME TypeOK, stage # "idle", command \in Commands, EndsWell, Apart
    PROVE  /\ Bound(Source) <=> Atomic!Bound(Source, before)
           /\ TypesOf(Source) = Atomic!TypesOf(Source, before)
           /\ RowsOf(Source) = Atomic!RowsOf(Source, before)
<1>1. Source.kind = "table" => Source.table \in Tables \ {Target}
  BY CommandsAssumption DEF Source, Target, Apart, Atomic!Independent
<1>2. Source.kind = "table" => tables[Source.table] = before[Source.table]
  BY <1>1 DEF EndsWell
<1> QED
  BY <1>2 DEF Bound, TypesOf, RowsOf, Atomic!Bound, Atomic!TypesOf, Atomic!RowsOf

\* In tables that are as the command found them, so is its source.
LEMMA SourceAsFound ==
    ASSUME tables = before
    PROVE  /\ Bound(Source) <=> Atomic!Bound(Source, before)
           /\ TypesOf(Source) = Atomic!TypesOf(Source, before)
           /\ RowsOf(Source) = Atomic!RowsOf(Source, before)
BY DEF Bound, TypesOf, RowsOf, Atomic!Bound, Atomic!TypesOf, Atomic!RowsOf

\* The same, for a source of an accepted command: types and rows.
LEMMA AcceptedSource ==
    ASSUME TypeOK, command \in Commands, Accepted
    PROVE  /\ Atomic!TypesOf(Source, before) \in Schemas
           /\ Atomic!RowsOf(Source, before) \in Seq(Rows)
           /\ Target \in Tables
           /\ before[Target] # Missing => /\ before[Target] \in Contents
                                          /\ before[Target].types = Atomic!TypesOf(Source, before)
<1>1. Atomic!Bound(Source, before)
  BY DEF Accepted, Source, Atomic!Accepts
<1>2. Target \in Tables
  BY CommandsAssumption DEF Target
<1>3. CASE Source.kind = "table"
  <2>1. Source.table \in Tables /\ before[Source.table] # Missing
    BY <1>1, <1>3, CommandsAssumption DEF Source, Atomic!Bound
  <2>2. before[Source.table] \in Contents
    BY <2>1 DEF TypeOK
  <2> QED
    BY <1>2, <1>3, <2>2
    DEF Accepted, Source, Target, Atomic!Accepts, Atomic!TypesOf, Atomic!RowsOf, Contents, TypeOK
<1>4. CASE Source.kind # "table"
  <2>1. Atomic!TypesOf(Source, before) \in Schemas /\ Atomic!RowsOf(Source, before) \in Seq(Rows)
    BY <1>4, CommandsAssumption DEF Source, Atomic!TypesOf, Atomic!RowsOf
  <2> QED
    BY <1>2, <2>1 DEF Accepted, Source, Target, Atomic!Accepts, TypeOK
<1> QED
  BY <1>3, <1>4

\* A command that ends keeps EndsWell and Finds, which say nothing of an idle
\* model.
LEMMA EndKeeps ==
    ASSUME stage' = "idle"
    PROVE  EndsWell' /\ Finds'
BY DEF EndsWell, Finds

-----------------------------------------------------------------------------
(* Each statement keeps EndsWell and Finds. *)

LEMMA IssueKeepsAInv ==
    ASSUME AInv, NEW c \in Commands, Issue(c)
    PROVE  EndsWell' /\ Finds'
<1>1. /\ tables' = before' /\ command' = c
      /\ stage' = IF c.verb = "append" THEN "guard" ELSE "create"
  BY DEF Issue, First
<1>2. Finds'
  BY <1>1 DEF Finds
<1>3. EndsWell'
  BY <1>1 DEF EndsWell, Atomic!Remains
<1> QED
  BY <1>2, <1>3

LEMMA CreateKeepsAInv ==
    ASSUME AInv, Create
    PROVE  EndsWell' /\ Finds'
<1> DEFINE present == tables[Target] # Missing
<1> USE DEF Target, Source
<1>1. /\ stage = "create" /\ command \in Commands /\ TypeOK
      /\ tables = before /\ command.verb # "append"
  BY DEF AInv, IInv, Create, Progress, Finds
<1>2. CASE Bound(Source) /\ ~(present /\ command.verb = "set") /\ Proceed
           /\ tables' = IF present THEN tables
                        ELSE [tables EXCEPT ![Target] =
                                 [types |-> TypesOf(Source), rows |-> <<>>]]
  <2>1. /\ stage' = IF command.verb = "set" THEN "insert" ELSE "guard"
        /\ command' = command /\ before' = before
    BY <1>1, <1>2, FollowingType DEF Proceed, Stages
  <2>2. CASE present
    <3>1. tables' = before /\ stage' = "guard"
      BY <1>1, <1>2, <2>1, <2>2
    <3> QED
      BY <1>1, <1>2, <2>1, <2>2, <3>1 DEF EndsWell, Finds, Accepted, Atomic!Remains
  <2>3. CASE ~present
    <3>1. /\ Atomic!Bound(Source, before)
          /\ tables' = Atomic!Emptied(command, before)
      BY <1>1, <1>2, <2>3, SourceAsFound DEF Atomic!Emptied
    <3>2. Accepted /\ Apart
      BY <1>1, <2>3, <3>1 DEF Accepted, Apart, Atomic!Accepts, Atomic!Independent, Atomic!Bound
    <3>3. Accepted' /\ Apart'
      BY <2>1, <3>2 DEF Accepted, Apart
    <3>4. \A t \in Tables \ {Target} : tables'[t] = before[t]
      BY <1>1, <3>1 DEF TypeOK, Atomic!Emptied
    <3>5. tables' = Prepared
      BY <1>1, <2>3, <3>1 DEF Prepared
    <3>6. EndsWell'
      BY <1>1, <2>1, <2>3, <3>1, <3>3, <3>4 DEF EndsWell, Atomic!Remains
    <3>7. Finds'
      BY <1>1, <2>1, <2>3, <3>1, <3>3, <3>5 DEF Finds, Prepared
    <3> QED
      BY <3>6, <3>7
  <2> QED
    BY <2>2, <2>3
<1>3. CASE Abort("otherwise")
  BY <1>3, EndKeeps DEF Abort
<1> QED
  BY <1>2, <1>3 DEF Create

LEMMA GuardKeepsAInv ==
    ASSUME AInv, Guard
    PROVE  EndsWell' /\ Finds'
<1> USE DEF Target, Source
<1>1. stage = "guard" /\ command \in Commands /\ TypeOK /\ EndsWell /\ command.verb # "set"
  BY DEF AInv, IInv, Guard, Progress, Finds
<1>2. CASE /\ Bound(Source) /\ tables[Target] # Missing
           /\ tables[Target].types = TypesOf(Source)
           /\ Proceed /\ UNCHANGED tables
  <2>1. /\ stage' = IF command.verb = "set-or-replace" THEN "delete" ELSE "insert"
        /\ command' = command /\ before' = before
    BY <1>1, <1>2 DEF Proceed, Following
  <2>2. CASE tables = before
    <3>1. Accepted
      BY <1>1, <1>2, <2>2, SourceAsFound DEF Accepted, Atomic!Accepts
    <3>2. before[Target] # Missing
      BY <1>2, <2>2
    <3> QED
      BY <1>1, <1>2, <2>1, <2>2, <3>1, <3>2
      DEF EndsWell, Finds, Accepted, Apart, Prepared
  <2>3. CASE /\ before[Target] = Missing
             /\ Accepted /\ Apart
             /\ tables = Atomic!Emptied(command, before)
    BY <1>1, <1>2, <2>1, <2>3 DEF EndsWell, Finds, Accepted, Apart, Prepared
  <2> QED
    BY <1>1, <2>2, <2>3 DEF AInv, Finds
<1>3. CASE stage' = "idle"
  BY <1>3, EndKeeps
<1> QED
  BY <1>2, <1>3 DEF Guard, Abort

LEMMA DeleteKeepsAInv ==
    ASSUME AInv, Delete
    PROVE  EndsWell' /\ Finds'
<1> USE DEF Target, Source
<1>1. /\ stage = "delete" /\ command \in Commands /\ TypeOK /\ EndsWell
      /\ Accepted /\ command.verb = "set-or-replace"
      /\ tables = IF before[Target] = Missing
                  THEN Atomic!Emptied(command, before) ELSE before
      /\ tables' = [tables EXCEPT ![Target].rows = <<>>]
  BY DEF AInv, IInv, Delete, Progress, Finds
<1>2. stage' = "insert" /\ command' = command /\ before' = before
  BY <1>1, FollowingType DEF Delete, Proceed, Stages
<1>3. tables' = Atomic!Emptied(command, before)
  <2> DEFINE types == Atomic!TypesOf(Source, before)
             made == [types |-> types, rows |-> <<>>]
  <2>1. Atomic!Emptied(command, before) = [before EXCEPT ![Target] = made]
    BY DEF Atomic!Emptied
  <2>2. Target \in Tables /\ (before[Target] # Missing =>
            before[Target] \in Contents /\ before[Target].types = types)
    BY <1>1, AcceptedSource
  <2>3. tables' = [tables EXCEPT ![Target] = [tables[Target] EXCEPT !.rows = <<>>]]
    BY <1>1
  <2>4. [tables[Target] EXCEPT !.rows = <<>>] = made
    <3>1. CASE before[Target] = Missing
      <4>1. tables[Target] = made
        BY <1>1, <2>1, <2>2, <3>1 DEF TypeOK
      <4> QED
        BY <4>1
    <3>2. CASE before[Target] # Missing
      <4>1. tables[Target] \in Contents /\ tables[Target].types = types
        BY <1>1, <2>2, <3>2
      <4> QED
        BY <4>1 DEF Contents
    <3> QED
      BY <3>1, <3>2
  <2>5. tables' = [tables EXCEPT ![Target] = made]
    BY <2>3, <2>4
  <2> QED
    BY <1>1, <2>1, <2>2, <2>5 DEF TypeOK
<1>4. \A t \in Tables \ {Target} : tables'[t] = before[t]
  BY <1>1, <1>3 DEF TypeOK, Atomic!Emptied
<1>5. tables' = Prepared
  BY <1>1, <1>3 DEF Prepared
<1> QED
  BY <1>1, <1>2, <1>3, <1>4, <1>5
  DEF EndsWell, Finds, Accepted, Apart, Prepared, Atomic!Remains

LEMMA InsertKeepsAInv ==
    ASSUME AInv, Insert
    PROVE  EndsWell' /\ Finds'
<1> USE DEF Target, Source
<1>1. /\ stage = "insert" /\ command \in Commands /\ TypeOK /\ EndsWell
      /\ Accepted /\ Target \in Tables
      /\ tables[Target] \in Contents
      /\ (Apart => tables = Prepared)
  BY TargetType DEF AInv, IInv, TypeOK, Insert, Progress, Ready, Finds
<1>2. CASE /\ Proceed
           /\ tables' = [tables EXCEPT ![Target].rows = @ \o RowsOf(Source)]
  <2>1. stage' = "count" /\ command' = command /\ before' = before
    BY <1>1, <1>2, FollowingType DEF Proceed, Stages
  <2>2. \A t \in Tables \ {Target} : tables'[t] = before[t]
    BY <1>1, <1>2 DEF EndsWell, TypeOK
  <2>3. ASSUME Apart PROVE tables' = Atomic!Result(command, before)
    <3> DEFINE types == Atomic!TypesOf(Source, before)
               kept == IF before[Target] = Missing \/ command.verb = "set-or-replace"
                       THEN <<>> ELSE before[Target].rows
               made == [types |-> types, rows |-> kept]
               full == [types |-> types, rows |-> kept \o Atomic!RowsOf(Source, before)]
    <3>1. /\ Atomic!Result(command, before) = [before EXCEPT ![Target] = full]
          /\ Atomic!Emptied(command, before) =
                [before EXCEPT ![Target] = [types |-> types, rows |-> <<>>]]
      BY DEF Atomic!Result, Atomic!Emptied
    <3>2. before[Target] # Missing =>
            before[Target] \in Contents /\ before[Target].types = types
      BY <1>1, AcceptedSource
    <3>3. tables = Prepared
      BY <1>1, <2>3
    <3>4. tables = [before EXCEPT ![Target] = made]
      <4>1. CASE before[Target] = Missing \/ command.verb = "set-or-replace"
        BY <3>1, <3>3, <4>1 DEF Prepared
      <4>2. CASE ~(before[Target] = Missing \/ command.verb = "set-or-replace")
        <5>1. before[Target] = made
          BY <3>2, <4>2 DEF Contents
        <5>2. tables = before
          BY <3>3, <4>2 DEF Prepared
        <5> HIDE DEF made
        <5> QED
          BY <1>1, <5>1, <5>2 DEF TypeOK
      <4> QED
        BY <4>1, <4>2
    <3>5. tables[Target] = made
      BY <1>1, <3>4 DEF TypeOK
    <3>6. RowsOf(Source) = Atomic!RowsOf(Source, before)
      BY <1>1, <2>3, SourceUnchanged
    <3>7. [tables[Target] EXCEPT !.rows = @ \o RowsOf(Source)] = full
      <4>1. tables[Target].rows = kept
        BY <3>5
      <4>2. [made EXCEPT !.rows = kept \o RowsOf(Source)] = full
        <5> HIDE DEF kept
        <5> QED
          BY <3>6
      <4> QED
        BY <3>5, <4>1, <4>2
    <3>8. tables' = [tables EXCEPT ![Target] = full]
      BY <1>2, <3>7
    <3> HIDE DEF made, full
    <3> QED
      BY <1>1, <3>1, <3>4, <3>8 DEF TypeOK
  <2>4. EndsWell'
    BY <1>1, <2>1, <2>2, <2>3 DEF EndsWell, Accepted, Apart, Atomic!Remains
  <2>5. Finds'
    BY <1>1, <2>1, <2>3 DEF Finds, Accepted, Apart
  <2> QED
    BY <2>4, <2>5
<1>3. CASE stage' = "idle"
  BY <1>3, EndKeeps
<1> QED
  BY <1>2, <1>3 DEF Insert, Abort

LEMMA CountKeepsAInv ==
    ASSUME AInv, Count
    PROVE  EndsWell' /\ Finds'
<1>1. stage' = "idle"
  BY FollowingType DEF Count, Proceed, Stages
<1> QED
  BY <1>1, EndKeeps

LEMMA InitAInv == Init => AInv
BY InitIInv DEF Init, AInv, EndsWell, Finds

LEMMA InductiveAInv == AInv /\ [Next]_vars => AInv'
<1> SUFFICES ASSUME AInv, [Next]_vars
             PROVE  EndsWell' /\ Finds'
  BY Inductive DEF AInv
<1>1. ASSUME NEW c \in Commands, Issue(c)
      PROVE  EndsWell' /\ Finds'
  BY <1>1, IssueKeepsAInv
<1>2. CASE Create
  BY <1>2, CreateKeepsAInv
<1>3. CASE Guard
  BY <1>3, GuardKeepsAInv
<1>4. CASE Delete
  BY <1>4, DeleteKeepsAInv
<1>5. CASE Insert
  BY <1>5, InsertKeepsAInv
<1>6. CASE Count
  BY <1>6, CountKeepsAInv
<1>7. CASE Interrupted
  BY <1>7, EndKeeps DEF Interrupted, Abort
<1>8. CASE UNCHANGED vars
  BY <1>8 DEF vars, AInv, EndsWell, Finds, Accepted, Apart, Prepared, Target
<1> QED
  BY <1>1, <1>2, <1>3, <1>4, <1>5, <1>6, <1>7, <1>8 DEF Next

-----------------------------------------------------------------------------
(* Steps of the command are steps of IngestSpec, or stutter. *)

LEMMA AbortFinishes ==
    ASSUME AInv, stage # "idle", NEW how, Abort(how)
    PROVE  Atomic!Finish
<1>1. /\ tablesBar = before /\ tablesBar' = tables
      /\ pendingBar = command /\ pendingBar' = NoCommand
      /\ reply' = NoReply
  BY DEF Abort, tablesBar, pendingBar
<1>2. command # NoCommand
  BY NoCommandAssumption DEF AInv, IInv, Progress
<1>3. EndsWell
  BY DEF AInv
<1>4. CASE ~Accepted
  <2>1. Atomic!Refuse(pendingBar)
    BY <1>1, <1>3, <1>4 DEF EndsWell, Accepted, Atomic!Refuse
  <2> QED
    BY <1>1, <1>2, <2>1 DEF Atomic!Finish
<1>5. CASE Accepted /\ Apart
  <2>1. Atomic!Fail(pendingBar)
    BY <1>1, <1>3, <1>5 DEF EndsWell, Accepted, Apart, Atomic!Fail
  <2> QED
    BY <1>1, <1>2, <2>1 DEF Atomic!Finish
<1>6. CASE Accepted /\ ~Apart
  <2>1. Atomic!IngestFromItself(pendingBar)
    BY <1>1, <1>3, <1>6
    DEF EndsWell, Accepted, Apart, Target, Atomic!IngestFromItself, Atomic!OthersUntouched
  <2> QED
    BY <1>1, <1>2, <2>1 DEF Atomic!Finish
<1> QED
  BY <1>4, <1>5, <1>6

LEMMA CountFinishes ==
    ASSUME AInv, Count
    PROVE  Atomic!Finish
<1>1. /\ stage = "count" /\ command \in Commands /\ TypeOK /\ EndsWell /\ Accepted
      /\ (Apart => tables = Atomic!Result(command, before))
  BY DEF AInv, IInv, Count, Progress, Finds
<1>2. stage' = "idle"
  BY <1>1, FollowingType DEF Count, Proceed, Stages
<1>3. /\ tablesBar = before /\ tablesBar' = tables
      /\ pendingBar = command /\ pendingBar' = NoCommand
      /\ reply' = Len(RowsOf(Source))
  BY <1>1, <1>2 DEF Count, tablesBar, pendingBar, Source
<1>4. command # NoCommand
  BY <1>1, NoCommandAssumption
<1>5. CASE Apart
  <2>1. RowsOf(Source) = Atomic!RowsOf(Source, before)
    BY <1>1, <1>5, SourceUnchanged
  <2>2. Atomic!Ingest(pendingBar)
    BY <1>1, <1>3, <1>5, <2>1 DEF Accepted, Apart, Source, Atomic!Ingest
  <2> QED
    BY <1>3, <1>4, <2>2 DEF Atomic!Finish
<1>6. CASE ~Apart
  <2>1. Atomic!IngestFromItself(pendingBar)
    BY <1>1, <1>3, <1>6
    DEF EndsWell, Accepted, Apart, Target, Atomic!IngestFromItself, Atomic!OthersUntouched
  <2> QED
    BY <1>3, <1>4, <2>1 DEF Atomic!Finish
<1> QED
  BY <1>5, <1>6

\* While a command has statements to run, none of what it does shows.
LEMMA Hidden ==
    ASSUME stage # "idle", stage' # "idle", reply' = reply,
           command' = command, before' = before
    PROVE  UNCHANGED Atomic!vars
BY DEF Atomic!vars, tablesBar, pendingBar

LEMMA AtomicInit == Init => Atomic!Init
BY DEF Init, Atomic!Init, tablesBar, pendingBar

LEMMA AtomicStep == AInv /\ [Next]_vars => [Atomic!Issue \/ Atomic!Finish]_(Atomic!vars)
<1> SUFFICES ASSUME AInv, [Next]_vars
             PROVE  Atomic!Issue \/ Atomic!Finish \/ UNCHANGED Atomic!vars
  OBVIOUS
<1>1. ASSUME NEW c \in Commands, Issue(c)
      PROVE  Atomic!Issue
  BY <1>1 DEF Issue, First, Atomic!Issue, tablesBar, pendingBar
<1>2. CASE Create
  <2>1. CASE Proceed /\ UNCHANGED reply
    <3>1. stage' # "idle" /\ stage # "idle"
      BY <1>2, <2>1, FollowingType DEF Create, Proceed, Stages
    <3> QED
      BY <2>1, <3>1, Hidden DEF Proceed
  <2>2. CASE Abort("otherwise")
    BY <1>2, <2>2, AbortFinishes DEF Create
  <2> QED
    BY <1>2, <2>1, <2>2 DEF Create
<1>3. CASE Guard
  <2>1. CASE Proceed /\ UNCHANGED reply
    <3>1. stage' # "idle" /\ stage # "idle"
      BY <1>3, <2>1, FollowingType DEF Guard, Proceed, Stages
    <3> QED
      BY <2>1, <3>1, Hidden DEF Proceed
  <2>2. CASE Abort("schema") \/ Abort("otherwise")
    BY <1>3, <2>2, AbortFinishes DEF Guard
  <2> QED
    BY <1>3, <2>1, <2>2 DEF Guard
<1>4. CASE Delete
  <2>1. stage' # "idle" /\ stage # "idle"
    BY <1>4, FollowingType DEF Delete, Proceed, Stages
  <2> QED
    BY <1>4, <2>1, Hidden DEF Delete, Proceed
<1>5. CASE Insert
  <2>1. CASE Proceed /\ UNCHANGED reply
    <3>1. stage' # "idle" /\ stage # "idle"
      BY <1>5, <2>1, FollowingType DEF Insert, Proceed, Stages
    <3> QED
      BY <2>1, <3>1, Hidden DEF Proceed
  <2>2. CASE Abort(IF Evaluates(command.source) THEN "schema" ELSE "otherwise")
    BY <1>5, <2>2, AbortFinishes DEF Insert
  <2> QED
    BY <1>5, <2>1, <2>2 DEF Insert
<1>6. CASE Count
  BY <1>6, CountFinishes
<1>7. CASE Interrupted
  BY <1>7, AbortFinishes DEF Interrupted
<1>8. CASE UNCHANGED vars
  BY <1>8 DEF vars, Atomic!vars, tablesBar, pendingBar
<1> QED
  BY <1>1, <1>2, <1>3, <1>4, <1>5, <1>6, <1>7, <1>8 DEF Next

\* The statements of an ingestion command, each committed on its own and each
\* reading its source anew, implement a command that is one step: done as its
\* verb's entry in the table says with the rows ingested counted, refused with
\* nothing changed, or failed with no table but its own touched.
THEOREM ImplementsIngestSpec == Spec => IsAtomic
<1>1. Init => Atomic!Init
  BY AtomicInit
<1>2. Spec => []AInv
  BY InitAInv, InductiveAInv, PTL DEF Spec
<1>3. AInv /\ [Next]_vars => [Atomic!Issue \/ Atomic!Finish]_(Atomic!vars)
  BY AtomicStep
<1> QED
  BY <1>1, <1>2, <1>3, PTL DEF Spec, IsAtomic, Atomic!Spec
=============================================================================
