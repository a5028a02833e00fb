# TLA+ models of duckdb-kql

duckdb-kql translates KQL queries and control commands to DuckDB SQL, runs them,
and offers two front ends on one DuckDB connection: a Kusto-shaped client and a
REST server. These modules model the parts of it that are hard to test, check
them with TLC, and prove what matters most with TLAPS. Paths below are relative
to `src/duckdb_kql/` unless they start with `docs/` or `tests/`.

Run from this directory:

    tlc -workers 2 -config MCPipeline_all.cfg MCPipeline
    tlapm DeadlineProofs.tla

`PROJECT.json` lists every run, the property each mutant breaks, the source lines
each definition stands for, the hazards, and the theorems.

## 1. Inventory

| part | state it keeps | operations | talks to |
|---|---|---|---|
| Request deadline (`kusto/client.py` `_Deadline`) | `_done`, `_fired`, `_guard`, a daemon watcher | enter, watch, interrupt, exit | the connection, from a second thread |
| REST server (`server.py`) | one connection, one lock, `allow_write` | `do_POST`: checks, run, reply | deadline, `to_sql`, the connection |
| Client (`kusto/client.py`) | RLock, `_is_closed`, the connection's current database | `execute*`, `close` | deadline, `to_sql`, the connection; clients may share one |
| Public API (`__init__.py`) | none of its own; reads the settings | `to_sql`, `is_write_*` | lowering, translation, commands |
| Engine (`engine.py`) | none | `kql`, `execute`, `script`, `schema`, `databases` | `to_sql`, the connection |
| Ingestion (`ingest.py`) | tables, in DuckDB | `.set`, `.append`, `.set-or-append`, `.set-or-replace` | rendered to several statements run in turn |
| Database commands (`databases.py`) | attached databases, in DuckDB | `.create`, `.attach`, `.detach` | as ingestion |
| Control commands (`control.py`) | none | `.show ...` | fixed SQL |
| Cluster maps (`clusters.py`) | a process-wide default | `set_clusters`, `parse_cluster_map`, `resolve` | lowering (stored functions), qualification (tables) |
| Per-statement state (`_state.py`) | context variables: names, clock, sharing scopes, `let`s | `get`, `bound` | every renderer |
| Lowering (`lower*.py`, `ir.py`) | scopes of lets, functions, parameters | parse tree to IR, `qualify` | clusters, stored functions, entity groups |
| Stored functions, entity groups | process-wide defaults | set, look up, expand | lowering |
| Translation (`translate/`) | the stages rendered so far, the column list, CTE names | one SELECT per operator | schema, naming, sharing |
| Schema (`schema.py`) | none | output columns of sources and operators, let or column | translation |
| Options, parameters, timespans | none | validate, bind, convert | API, server |
| Data model, CLI, oracle, fixtures, parser | none worth a model | | |

What is hard in it:

* **one connection, many actors**: request threads, their watchers, clients on
  several threads and several clients, each request being several calls;
* **deadlines**: an interrupt has no addressee, so it may be lost or hit the
  next statement;
* **checks far from their use**: `serves()` before the lock, the schema before
  the query, the cluster map fetched twice;
* **commands of several statements**, each committed alone;
* **two languages that disagree on names**: KQL tells `Foo` from `foo`, reads
  only an operator's input, and prefers a column to a `let`; DuckDB folds case
  and reads earlier items of the same SELECT. The translator bridges the two
  from a column list that nothing compares with the SQL;
* **evaluating once what a branch may never evaluate**;
* **three notions of scope**: lowering, `qualify` and translation each decide
  anew what a name is bound to, over a tree in which functions were expanded,
  scalar lets inlined and queries moved;
* **two languages that disagree on nulls**: in comparisons, join keys, groups,
  sorting and lists;
* **recursion in SQL**: walks that are seeded, reversed and pruned before the
  `where` is checked, and a closure with nothing but UNION to end it.

What makes each part correct:

* deadline: only the owner's statement is interrupted; an overrun is always and
  only reported as a timeout; a limited request always ends;
* server and client: an answer comes from the database that was named; only
  permitted requests write; every request is answered; nothing after `close`;
* ingestion: a command does what its verb says, or changes nothing, or leaves no
  more than its own table half done;
* cluster maps: spelling never matters and nothing is guessed;
* translation: the columns DuckDB has are the ones the translator believes in
  and the ones KQL means; the rows are rows KQL answers; binding a repeat changes
  no value, and runs nothing that one branch alone guards where that branch would
  not have run;
* scopes: a name reads the let, function or table KQL gives it where it is written;
* graphs: what is enumerated may be cut down, what is answered may not.

## 2. Modules

| module | models | state |
|---|---|---|
| `Deadline` | `_Deadline` under the server's lock, one action per step of the thread and of the watcher | `lock pc left raised watch done fired guard stmt cut outcome` |
| `RequestSpec` | the promise of a deadline, without threads | `holder phase late cut outcome` |
| `Server` | `do_POST` and `KustoRestServer.run` | `pc req status from attached writes lock allowWrite` |
| `KustoClient` | a request as calls on a shared connection, those that attach and detach databases included | `users lock closed open current attached pc job schemaOf target from steady outcome left` |
| `Ingest` | the statements of the four verbs | `tables command stage before reply failed` |
| `IngestSpec` | a command as one step | `tables pending reply` |
| `ClusterMap` | hosts, normalization, conflicts, lookup (operators) | |
| `Clusters` | the default map under concurrent calls | `default attempt refused pc kind own fetched function table` |
| `Sharing` | `translate/sharing.py` | `todo counts guards plan slots` |
| `Naming` | `translate/naming.py` and the column rules of `schema.py` (operators) | |
| `Pipeline` | `_render_scoped` and the operators it renders | `kusto duck cols accepted failed refused known doubt left` |
| `Scopes` | `lower.py`'s lets, calls and macro-expands, `qualify`, and translation's look-up of a name | `nodes lets reads stack visible scalars context value phase` |
| `GraphRelations` | the edge and node relations of `translate/graph.py` (operators) | |
| `Graph` | the recursions and the join, level by level | `graph query phase nodes closure at walks front answer` |
| `GraphMeaning` | what Kusto answers a graph query (operators) | |
| `Rows` | the rows of each operator's SQL | `table op steps` |
| `KustoRows` | the rows KQL answers; `KustoStep` is one operator | `table op steps` |
| `MC*` | the instances TLC checks | |
| `*Proofs` | the theorems | |

`Deadline` refines `RequestSpec` and `Ingest` refines `IngestSpec` (INSTANCE with
a mapping, the abstract specification as a property); each step of `Rows` is a step
of `KustoRows` (`AnswersAsKusto`), with the same variables and no mapping. `Server` abstracts what
`Deadline` details to its steps `GiveUp` and `Overrun`. `Clusters` extends
`ClusterMap` and `Pipeline` extends `Naming`. `Sharing` is what happens inside
one operator of `Pipeline`, which leaves it out: `SameAnswer` says it may.
`Pipeline` is about the names of a query's columns over several operators and `Rows`
about the rows of one; `Scopes` is about which table either of them reads, and
`Graph` about a source that is a graph.

A statement of `Scopes` is built by choosing what it says next, so the lowering of
every statement within the bound is a behaviour. `LetTable`, `LetScalar` and
`MacroExpand` bind, `ReadBare`, `ReadQualified` and `UseScalar` read, a read of a
function enters its body (`Expand`) and `Return` leaves it; `QualifyBody`, `EndQuery`
and `Translate` are the passes after it. `means` beside each read is what KQL means
by it where it is written: it is compared and never read by an action.

A graph of `Graph` is its relations' input, rows of ids; a null id is a node. `Walk`
is one level of a recursive CTE. `GraphMeaning` defines the same answers over whole
walks and over sets closed under the edges, without recursion.

Code outside the repository is modelled by how it is used: a DuckDB connection
runs one statement at a time and `interrupt()` fails the running one or does
nothing; DuckDB resolves a column by its folded name, the input before the items
to the left, and renames the later of two columns a stage cannot tell apart
(both pinned by `tests/test_case_collisions.py`); Kusto means what the comments
and tests of the repository record as measured.

## 3. Runs

Every run that passes has, for each of its properties, a mutant of a mapped
definition that breaks it: a plausible bug in the code, several of them bugs the
code's comments say it once had.

**deadline** (`MCDeadline_mixed.cfg`): two requests with a `servertimeout` and one
without, one statement each. Shows that no interrupt outlives its block
(`OwnInterrupt`), that statements of the shared connection never overlap, that an
overrun is reported as a timeout whatever the query did, that limited requests
and their watchers end (`LimitedEnds`), that everyone is served unless an unlimited statement never
ends, and that all of this implements `RequestSpec`. Three requests are enough
for one to be interrupted, one to inherit the connection and one to wait. One
statement is enough to tell *before*, *during* and *after* a statement apart. `left`,
which counts the statements to come, is only that bound: the code keeps no such count.
`TypeOK` holds besides the types that only a limited request has a watcher and that the
guard is taken exactly while its watcher looks at the event or interrupts.
Fairness (`FairSpec`): weak for every thread step, because Python schedules
every runnable thread; an interrupted statement ends, another need not; strong
for the exit's wait on `_guard`, because the watcher sleeps between interrupts
with the guard free.

**server** (`MCServer_all.cfg`): two concurrent requests with every database, command
and fault, on a server with and without `--allow-write`. `AnsweredFromSelected`: what
is read or written is in an attached database, and in the one the request selected when
qualification reaches the table (`reached`: a table that print, sort, top, range or an
index reads is left to the connection's current database, see `scopes_database`). No change is
made on behalf of a request that may not write; every request is answered
(weak fairness per request: threads run and statements end; the case where one does
not end belongs to `Deadline`). Two requests are enough: every race is one request
between check and use and one that attaches or detaches. `MaxWrites = 2` lets both
write the same database.

**client** (`MCKustoClient_all.cfg`, 3.6 million states): two threads of two requests over
three clients, one or two of them on the connection (`Groups`): one opened it and may
write, one may write, one may not. Requests query, show, write, attach and detach, so
what is attached may change between any two calls of another client's request.
`AnsweredFromNamed`: with nothing else on the connection, a thread is answered from the
database it names; its writes land there even when other clients switch, attach and
detach. It is about databases that stay attached: the history variable `steady` holds
while the named database has been attached since the request began. Without that
premise TLC finds the write that a detach retargets, described below. The schema
translated against is the database's (`SchemaIsCurrent`); closed is final; only permitted
requests write, attach or detach. The `Alone` premise is the one the class comment
states. Threads are symmetric. Two requests to a thread are enough for one to move the
connection or detach and the next to come after it.

**ingest** (`MCIngest_all.cfg`): every verb on two tables, with literal, table and
failing sources, and an interrupt at every statement; tables of at most four rows
(`MaxRows`), which allows two commands to add rows and a third to replace them.
`.append T <| T` doubles the table and replies twice the number ingested;
`IngestSpec` promises nothing of a source that reads its own target.

**ingest_replace** (violation `ReplacesWithSource`): `.set-or-replace T <| T ...` empties
`T`, because the DELETE runs before the source is evaluated. A replace that fails
after the DELETE leaves the table emptied too; `IngestSpec!Remains` allows it,
since the code makes no other promise.

**clusters** (`MCClusters_all.cfg`): eight maps over a host with two spellings and one
that has only one, a default changed at any time, one call. Whatever map is in force,
spelling never matters; a map is refused only for a real conflict; a lookup never
guesses; a command that fetches once gets one answer; a call's own map is not
completed from the default. One call is enough: calls share only the default, and
`SetClusters` already changes that between any two of its steps.

**sharing** (`MCSharing_all.cfg`): every expression of two leaves and up to three
operations, and two-predicate cases; every subset of the repeats that `MIN_SAVING`
could decide to bind; every row of three-valued leaves; inputs with and without columns
that look like a slot. Values are unchanged, the guard of a node is one all its readers
are behind, and an expression read behind one branch runs exactly where it ran. The
premise `NoTwin` of two of them is the slot name in another case described below. Three operations are the smallest DAG in which a node
is re-walked through a parent that was already walked. Deadlock is not checked: a
plan that is done stops.

**pipeline** (`MCPipeline_all.cfg`): every pipeline of up to three targets over two
tables and three right-hand sides, with the columns known and unknown. `Faithful`:
with the columns known, a query is refused or answers exactly what Kusto answers, and
one Kusto refuses is refused or fails. `PredictedIsActual`: the column list is what the
last stage has. `OnlyOrderIsLost`: without the columns, what is answered is right but
for the order. Three targets allow an assignment that reads another one followed by an
operator that reads the result, or three operators. Names are a let's, one in two
cases, and `Column1`. A clause reads its input, the let and the names it assigns; what
is left out by this is below. Deadlock is not checked: a query ends.

**scopes** (`MCScopes_all.cfg`, `MaxNodes = 4`): every statement of up to four lets,
calls and macro-expands over two names, one of them also a stored function of the
query's database and of another one. `TypeOK` holds that a body is expanded once at a
time, so recursion is refused however it goes round. `Faithful`: a read is answered
from what KQL means. `LetsAreNotRecaptured`: a scalar let's `toscalar` that reads a
let still reads that one wherever it is used. Four queries allow a let, a call of
another database's function that calls back, and a let between them. Deadlock is not
checked: a statement ends. The exemptions `HomeInsideOther` and `AmongMovedLets` are
described below.

**scopes_database** (violation `EveryTableHasADatabase`): `print x = toscalar(T | count)`
with `database=` reads `T` from the connection's current database, because
`_qualify_operator` does not reach print, sort, top, range or an index. The model's
`UseScalar` says of each use which kind of place it is.

**graph** (`MCGraph_all.cfg`): every graph of up to two edges over three ids (one null),
four larger ones with a cycle, a triangle, a diamond and parallel edges, one of two
partitions, node tables that repeat and miss ids; one path in every direction, range
from 0 or 2 up to 3, `cycles=` and combination of `where`, `(a)-[..]->(a)` included;
chains, a triangle and two paths between one pair; shortest paths, any and all; weak
and strong components. `NodesOnce`: the node relation has each id once.
`AnswersTheQuery`: matches, shortest paths and components are Kusto's, and the numbers
of components follow the first nodes. `Ends`: every recursion does. A range up to 3 is
enough to revisit an edge or node and to tell a start, an inner node and an end apart.
Fairness is weak on the next step: DuckDB goes on with a statement it was given.

**rows** (`MCRows_all.cfg`, `MaxSteps = 1`): each operator of the lists (110 predicates,
eight sorts, nine kinds of join, both of lookup, unions, seven aggregates, mv-expand over
lists of unequal length) over each table of the lists (every set of up to two rows over
1, 2 and null, ties, repeated rows and null keys). What DuckDB may choose, which ties
come first, which row `DISTINCT ON` keeps, is chosen in every way, and every such answer
must be one KQL gives (`AnswersAsKusto`). One operator is enough: the property is of a
step, and a step begins from any table. The exemptions `IsLiteralAmongColumns` and
`IsNullAmongNulls` are described below.

### What the runs leave out, and the code gets wrong

These are behaviours of the code that its own words contradict. No run states them;
each is visible in the module named.

* *Placeholder names* (`KustoClient`): a database name that is not attached is answered from
  whichever database an earlier request switched the connection to
  (`kusto/client.py:604`), where `616` says the caller names "the one database there is".
* *Writes whose database is detached* (`KustoClient!Translate`): a write reads what is attached
  twice, for its USE (`kusto/client.py:600`) and for its SQL (`554`). If another client of the
  connection switches it away and detaches the database in between, the target stays
  unqualified and the write lands in the current database, where the docstring (`516`)
  says that nothing can retarget it.
* *Dropped cluster entries* (`ClusterMap!Parsed`): `help` and `https://HELP/` normalize to one
  key and the later overwrites the earlier before conflicts are looked for
  (`clusters.py:195`), where `176` says no row may be dropped silently.
* *Rows that a repeat runs on* (`Sharing!Common`): `case(p1, x, p2, BIG, BIG)` computes BIG on
  rows that answer x (`translate/sharing.py:441`), where `54` says it runs on exactly the
  rows it ran on before.
* *Slot names in another case* (`Sharing!NoTwin`): `_prefix` says that no column in scope can
  collide with a slot (`translate/sharing.py:338`) and compares with case; DuckDB does not, so
  an input's `_KQLBIND0` is read in the slot's place.
* *Case twins* (`Pipeline`): the columns of join, lookup and union do not pass the case check
  (`translate/__init__.py:1368`), so `X | join kind=inner Y on k | project Foo` can answer
  X's `foo`; `docs/TRANSLATION.md:383` says a collision is refused. `Faithful` leaves these
  pipelines out (`doubt = "joined"`).
* *Literals against null items* (`Rows!InList`): `5 !in (k)` over a null k is null, not true
  (`translate/__init__.py:2363` skips the coalesce when the value is a literal), so `where`
  drops a row that R4 keeps.
* *Nulls among null items* (`Rows!InList`): `k in (v)` and `k !in (v)` with both null are false
  and true (`translate/__init__.py:2367`), where the table of R4 (`docs/TRANSLATION.md:315`)
  has null for both. The docstring of `_in_result` (`2361`) says membership has no both-null
  case. `KustoRows` follows the table, and `AnswersAsKusto` leaves the case out.
* *Tables of the home database inside another's function* (`Scopes!HomeInsideOther`): the body of
  a function of the query's database is not qualified when it ends; called inside the body of
  another database's function it gets that database (`lower.py:1388`).
* *Lets of macro-expand* (`Scopes!AmongMovedLets`): the first branch's lets are put before those
  of the query it heads (`lower.py:1911`), so they do not see lets written before them, and
  one may answer for a table.
* *Scalar lets that read a table*: `let x = toscalar(T | ..)` means the table where it is
  written; used below a tabular let named T it reads the let, since only two bindings on the
  stack are refused (`translate/__init__.py:1153`), where `1149` says scoping is lexical.

## 4. Proofs

All for every value of the constants, under the named assumptions of the modules
(limited requests are requests, a source has a schema and rows, `Nobody` is none of
the threads or requests (`NobodyAssumption`), a placeholder is not the name of a
database (`NamesAssumption`), bare names are names, ...).

* **DeadlineProofs.** `TypeCorrect`, `InterruptIsOwn`, `StatementsSerialized` and
  `KeepsPromise`, from `Invariance == Spec => []IInv`. `TypeOK` includes which requests have
  a watcher and when it has the guard. `OwnInterrupt` alone is not
  inductive: it needs that the holder of the lock is the only thread inside
  (`LockInv`), that a watcher which is about to interrupt has not been told to stop,
  which is what the guard is for (`GuardInv`), that what is interrupted has fired
  (`CutInv`) and, for the refinement, that a reported timeout was one (`ReportInv`).
* **ServerProofs.** `TypeCorrect`, `SelectedIsAnswered` and `WritesArePermitted`. A request
  whose table is reached by qualification is answered from the database it selected because
  that database is still attached when it is read; one that is not, from the current
  database, which is always attached. This needs that a request between `Acquire` and `Respond` holds the lock
  (`LockInv`), and so that the request which detaches is the only one that could be
  translated (`AttachedInv`); that a write has been let through by its two gates is
  `GateInv`.
* **KustoClientProofs.** `TypeCorrect`, `CloseIsFinal`, `NamedIsAnswered`,
  `SchemaStaysCurrent` and `WritesArePermitted`. A request that has begun holds its
  client's lock (`LockInv`) and has passed what comes before the point it is at
  (`PointInv`); when no other client uses the connection, the current database past its
  `USE` is the one it named and the schema it read is of that database (`CurrentInv`). A
  write needs none of the last: its target is in its SQL, if the database it named was
  attached at both times it looked, which is what `steady` remembers (`SteadyInv`, and the
  second half of `PointInv`).
* **ClustersProofs.** `SpellingsAreTheCluster`: a host and its other spelling are all
  hosts with its fully qualified name, so the lookup's two tries and the conflict
  check's groups agree. `AcceptedMapsIgnoreSpelling`: a map without conflicts answers
  all spellings alike. From these, that every map in force parsed without a conflict
  (`IInv`), what the default was made from (`AttemptInv`) and by which map a call
  resolves (`CallInv`), every invariant of the run: `TypeCorrect`,
  `SpellingNeverMattersAlways`, `RefusalsAreReal`, `NeverGuesses`, `OneAnswer`.
* **IngestProofs.** `TypeCorrect` and `SchemaRefusalIsClean`. The invariant follows a
  command: nothing has changed until `create`, and past the guard the source is bound
  and its types are those of the target (`Progress`), so an INSERT is never refused
  for its schema once rows are gone. `TypeOK` holds of what follows the guard that the target
  is there with the types of the source, so that what it inserts are rows of its schema. `ImplementsIngestSpec`: `Ingest` implements
  `IngestSpec`, under the mapping that hides the tables of a command until it is over.
  `Finds` says what each statement finds (the table as it was, made or emptied, then
  filled); `EndsWell` that, wherever the command ends, the tables are unchanged if the
  command was not acceptable and otherwise one of those it may leave. The first is needed
  for the last, and the second is all that a failure at any statement needs.
* **SharingProofs.** `TypeCorrect`, `ReadersAreBehindTheGuard`, `AnswersAreKept` and
  `OneBranchRuns`, for an operator of any number of nodes, any order of its arguments,
  any columns and any choice of what to bind. That a guard is one every reader is behind
  holds only when the walk is over; during it, each edge out of a node already reached
  either has that property or has a call of `walk` still to make (`ReadersInv`). A guard is
  also the only path to its node, if there is only one (`PathInv`, for
  `OneBranchRuns`), and a slot is behind the guard the walk left on its node (`SlotInv`).
  The values are recursive functions over the DAG, hence inductions over it: from below
  for what a node's value is, from above for which nodes a row evaluates. A node that is
  evaluated on a row is behind its guard (`InlinedAreBehind`), so the rebuilt CASE reaches
  it and its slot holds its value (`OneSlotMore`, one slot after another). The order of the
  plan is not needed. Assumed: arguments have
  smaller numbers than their node (a parse tree has no cycles), a `case` has an else.
* **PipelineProofs.** `TypeCorrect`, `AnswersAsKustoDoes`, `BelievesWhatIs` and
  `OrderOnlyIsLost`, for any tables, names, number of operators and of targets. None of
  the last three is inductive. That DuckDB has Kusto's columns after an operator needs that its
  look-up, which ignores case, finds the column that was meant: that every name of the
  input folds to another (`Told`), which holds because each computed list is checked and
  each table is. That the list is the one DuckDB has needs that it is Kusto's, since it
  is Kusto's names that a rule of `schema.py` computes. `Knows` states this for a
  translator that was given the columns and `Agrees` for one that was not; `IInv` is both
  and the types. `OperatorKeeps` reduces an operator to `Sound`: its predicted names are
  those of its meaning, and where the input agrees its SQL answers its meaning. Then there
  is one lemma for each operator (`WhereKeeps`, `ProjectKeeps`, ..., `UnionKeeps`). Below
  these is what the recursive definitions compute: a free number exists and `Namer`,
  `Disambiguate` and `JoinColumns` repeat no name (`FirstFreeIs`, `NamerIs`, `JoinColumnsIs`);
  a SELECT none of whose reads is missing from the input never reads an item to its left
  (`SelectIs`); a stage whose names are told apart renames nothing (`StageIs`). Assumed: the
  names of a table differ (perhaps in case only), a stem has a form in lower case, and
  "Column" is a stem.
* **ScopesProofs.** `TypeCorrect`, `FaithfulNames` and `LetsStay`, for any names, scalars,
  databases, registered functions and `MaxNodes`, from `Invariance == Spec => []IInv`. The
  properties speak of a statement that is rendered, three passes after a name was read,
  and none is inductive: `IInv` says at each step what the passes still to come will find.
  The queries are a tree, numbered outside in (`Tree`), and a let is bound in the query it
  is inside (`Placement`). The bodies being lowered are a path in it, of distinct calls
  (`Stacked`); their queries and the calls pending in them are bound nowhere yet
  (`Pending`), and nothing else inside them is unbound (`Kept`). The lets in scope are those
  bound in the bodies' queries (`Scoped`), and what a scalar let read is among them
  (`ScalarsHeld`), so an expression just lowered means what its name means (`Valued`). `Read`
  carries that to the end: a read that means a let sees it and no let of that name further
  in (`LetRead`); one that means a call sees the call's query, and crosses no other call's
  on the way (`FunctionRead`); one that means a table sees no let and has its database, or
  is inside the body that gives it one when it ends (`TableRead`, `Awaits`). For scalar lets
  only the first half of `LetRead` holds, and `Translate` refuses the rest.
  `TypeCorrect` also needs `Numbered`: a reference to a query is to one there is. Each action
  has a lemma that it keeps `IInv`, and under it one for each part that it disturbs.
  Assumed: the query's database is one of the databases and the connection's stands for
  one that is not; functions are of the databases; names are not scalars or numbers, and
  `None` is nothing else. The exemptions `HomeInsideOther` and `AmongMovedLets` are premises
  of `Faithful` itself.

Induction is by lemmas at the head of `SharingProofs` and `PipelineProofs`: a non-empty set
of naturals has a least member, so what holds at 0 and of the next number holds up to N
(`UpTo`, `FromBelow`, `FromAbove`, `Induction`), and a recursion that computes each value from
the one before has a solution and stays in its set (`RecursionExists`, `RecursionStays`,
`RecursionInto`). The induction theorems of the library take an operator as a parameter,
which the installed provers cannot instantiate; these take a set or a function.

The models are written for this: recursive functions where a fold or `SelectSeq` would
do (`Naming!Only`, `Sharing!Postorder`, `Sharing!Values`), no CASE whose arms overlap, and in
`Scopes` a set for the queries around one and a function made outright (`Declaring`).

Only model-checked:

* Liveness: `LimitedEnds` and the like of `Deadline`, `Server` and `Graph`. Liveness under
  fairness and ENABLED are out of TLAPS's reach.
* `Graph`. `IsEarlier` is RECURSIVE, which no module with a theorem may reach, and its answers are
  over `FlattenSeq`, `SetToSortSeq` and walks of every length, hence inductions over data.
* `Rows`. `AnswersAsKusto` compares each step with `KustoStep` over rows made by `@@` and `:>`,
  which the provers cannot expand, and by folds over a table's rows; `TypeOK` is only types.
* `EveryTableHasADatabase` and `ReplacesWithSource`, which are false.

## 5. Not modelled

* HTTP and JSON, the parser, formatting, the SQL of single scalar functions, regular
  expressions and `parse` patterns, the CLI, the oracle and fixtures.
* In `Server`, `.show tables` is modelled but no property is about it: it lists the
  startup database whatever the client picked (`docs/kusto-server.md:282`).
* In `Pipeline`: `count`, `getschema`, wildcard sources, `withsource`, `isfuzzy`,
  several names from one `arg_max`, and `gettype`'s exception in `distinct`. Queries
  that read a name their clause does not assign and their input lacks are left out,
  because DuckDB answers two of them that Kusto refuses: `Foo` over a column
  `foo`, and a *generated* name of the same clause (`extend x + 1, b = Column1`), where
  `docs/TRANSLATION.md` R21 says an assignment sees input columns only. So are
  `project-rename` onto a name that exists and an input column called `_parse`, which
  is read in place of `parse`'s captures (`translate/__init__.py:3249`).
* In `Sharing`: a node's SQL and its length, so every repeat may be bound or left.
* In `Scopes`: a function's parameters, which substitute as scalar lets do; graph lets, which
  leak out of the body they are in; the duplicate lets of macro bodies, which are not
  refused; entity groups of more than two; `isfuzzy`, which drops a branch on any schema
  error (`schema.py:515`). Queries are numbered as they are made, so that a generated CTE
  name is fresh holds by construction (`translate/__init__.py:1058`).
* In `Graph`: properties and labels of edges as values, `graph-to-table`, `map` and the
  projections, which are expressions over the matches; a conjunct is the set of ids or
  edges it holds of.
* In `Rows`: `between`, `has_any` and its kin, `percentile` and other aggregates of several
  values, strings and types; `getschema`, `evaluate`. A predicate has at most two atoms. Of `in` only
  the plain list is modelled (`translate/__init__.py:2449`): not a subquery (`2402`), a
  `toscalar` among the items (`2425`) or a single dynamic value (`2440`).
* A write that finishes just before its deadline is answered with the timeout
  (`server.py:720`, `Server!Overrun`): a client that retries writes twice.

## 6. Plan

1. `Databases` and `Script`: lifecycle commands as statements on a connection that
   clients share, with the `ifnotexists` row in its temp table; a script that stops or
   goes on after a failure, composed with `Ingest`.
2. `Settings`: `_state.py` under threads and copied contexts; no statement reads
   another's state.
3. `Values`: timespans and integer conversions at their bounds, binding of parameters.
4. `Rows` over the columns of `Pipeline`, so that a stage is checked for names and rows
   together, with `isfuzzy` branches that are dropped.
5. Proofs: `Graph!NodesOnce`, then that components are connected, with `IsEarlier` as a
   recursive function.
