------------------------------- MODULE Scopes -------------------------------
(***************************************************************************)
(* What the names of one statement mean.  lower.py turns the statement     *)
(* into queries that hold bindings that hold queries, expanding a stored   *)
(* function where it is called; qualify gives the tables that are left     *)
(* their database; translation decides, scope by scope, which binding a    *)
(* bare name reaches.  Three passes, each with a notion of its own of      *)
(* what is bound where.  Beside them the model keeps what Kusto means by   *)
(* each name at the place it is written (docs/stored-functions-proposal.md *)
(* section 2, measured): a let in scope, else a function of the database   *)
(* the text belongs to, else that database's table.                        *)
(*                                                                         *)
(* A statement is a choice: every let, call and read it could hold next.   *)
(* A value has one source.  A scalar let is the reads of its toscalar; a   *)
(* let function and the argument of a call, which substitute the same way, *)
(* are scalars too; a name is a table's or a scalar's.  Nodes are queries, *)
(* numbered as they are made, hence after those around them: the           *)
(* statement's is 1, each let and each expanded call has one.              *)
(***************************************************************************)
EXTENDS Naturals, Sequences, FiniteSets, SequencesExt

CONSTANTS
    Names,      \* of tables, of tabular lets and of stored functions
    Scalars,    \* names of scalar lets
    Databases,
    Home,       \* the database the query runs in: database=
    Connection, \* the database the connection is in when the rows are fetched
    Functions,  \* <<database, name>> of the registered functions
    None,
    MaxNodes    \* bound: lets, calls and macro-expands of one statement

ASSUME ScopesAssumption ==
    /\ Home \in Databases
    /\ Connection \notin Databases
    /\ Functions \subseteq Databases \X Names
    /\ None \notin Names \cup Databases \cup Nat
    /\ Names \cap (Scalars \cup Nat) = {}
    /\ MaxNodes \in Nat

VARIABLES
    nodes,    \* Seq of [name, key, chain]: its let's or call's name, the query and those around it
    lets,     \* Query.lets: node -> the nodes bound in it, in order
    reads,    \* the table references of the finished queries
    stack,    \* the bodies being lowered, outermost first, with what each restores
    visible,  \* _FunctionScope.visible: the tabular lets in scope
    scalars,  \* _FunctionScope.scalars: what a scalar let's value reads
    context,  \* _FunctionScope.context: whose functions an unqualified name calls
    value,    \* the reads of the expression just lowered; empty before one is
    phase

vars == <<nodes, lets, reads, stack, visible, scalars, context, value, phase>>

Entry == Last(stack)
NoCall == <<None, None>>
Fresh == Len(nodes) + 1
Lowering == phase = "lowering"

-----------------------------------------------------------------------------
(* What Kusto means.                                                       *)

\* The lets of the text being lowered, innermost body first; a stored
\* function is a macro, so its caller's lets are around its own.
LetOf(n) ==
    LET at == {i \in DOMAIN stack : n \in DOMAIN stack[i].declared}
    IN IF at = {} THEN None ELSE stack[Max(at)].declared[n]
KustoDatabase == IF Entry.key = NoCall THEN Home ELSE Entry.key[1]

\* The table or the function *n* of a database.
Entity(d, n) == IF <<d, n>> \in Functions THEN <<"function", d, n>> ELSE <<"table", d, n>>
Means(n) == IF LetOf(n) # None THEN <<"let", LetOf(n)>> ELSE Entity(KustoDatabase, n)

-----------------------------------------------------------------------------
(* Lowering a name.                                                        *)

\* The IR's table reference, with the ghosts: what the name means, and how
\* it comes to be where it is read.
Ref(n, d, via, m) ==
    [node |-> None, name |-> n, db |-> d, via |-> via, reached |-> TRUE, means |-> m]

\* The database whose function a name may call.
Where(d) == IF d = None THEN context ELSE d

\* Tabular lets shadow the functions of the context, never a qualified one.
CallsFunction(n, d) ==
    /\ ~(d = None /\ n \in visible)
    /\ <<Where(d), n>> \in Functions

Body(key, via, m) ==
    [node |-> Fresh, key |-> key, via |-> via, means |-> m, pending |-> <<>>,
     declared |-> << >>, visible |-> visible, scalars |-> scalars, context |-> context]

\* Mutant: only a call to itself is found.
CallsItself(key) == Entry.key = key

\* The recursion check, by database and name.
Expanding(key) == \E i \in DOMAIN stack : stack[i].key = key

\* Expands a call: its body is lowered afresh, in the caller's scope.
Expand(key, via, m) ==
    IF Expanding(key)
    THEN /\ phase' = "refused"
         /\ UNCHANGED <<nodes, lets, reads, stack, visible, scalars, context, value>>
    ELSE /\ Len(nodes) < MaxNodes
         /\ nodes' = Append(nodes, [name |-> Fresh, key |-> key,
                                    chain |-> {Fresh} \cup nodes[Entry.node].chain])
         /\ lets' = Append(lets, <<>>)
         /\ stack' = Append(stack, Body(key, via, m))
         /\ context' = key[1]
         /\ UNCHANGED <<reads, visible, scalars, value, phase>>

LowerName(n, d, via, m) ==
    IF CallsFunction(n, d)
    THEN Expand(<<Where(d), n>>, via, m)
    ELSE /\ value' = {Ref(n, d, via, m)}
         /\ UNCHANGED <<nodes, lets, reads, stack, visible, scalars, context, phase>>

\* A source: `T`, or `database("D").T`.
ReadBare(n) == Lowering /\ value = {} /\ LowerName(n, None, "direct", Means(n))
ReadQualified(n, d) == Lowering /\ value = {} /\ LowerName(n, d, "direct", Entity(d, n))

\* An expression that uses a scalar let holds everything the let's value
\* read.  qualify reaches the places of some operators and not of others
\* (print, sort, top, range, an index): *reached* says which this is.
UseScalar(x, reached) ==
    /\ Lowering /\ value = {}
    /\ scalars[x] # {}
    /\ value' = {[r EXCEPT !.reached = reached] : r \in scalars[x]}
    /\ UNCHANGED <<nodes, lets, reads, stack, visible, scalars, context, phase>>

-----------------------------------------------------------------------------
(* Binding what was lowered.                                               *)

\* Queries an expression ended in are placed before the query it is in.
Placed(q, more) == [lets EXCEPT ![q] = @ \o Entry.pending \o more]
At(q, rs) == {[r EXCEPT !.node = q] : r \in rs}

\* A let's name is bound to its query, a scalar's to None.
Declaring(declared, n, of) ==
    [m \in DOMAIN declared \cup {n} |-> IF m = n THEN of ELSE declared[m]]

LetTable(n) ==
    /\ Lowering /\ value # {}
    /\ \A r \in value : r.via # "macro"
    /\ n \notin DOMAIN Entry.declared
    /\ Len(nodes) < MaxNodes
    /\ nodes' = Append(nodes, [name |-> n, key |-> NoCall,
                               chain |-> {Fresh} \cup nodes[Entry.node].chain])
    /\ lets' = Append(Placed(Entry.node, <<Fresh>>), <<>>)
    /\ reads' = reads \cup At(Fresh, value)
    /\ stack' = [stack EXCEPT ![Len(stack)] =
                    [Entry EXCEPT !.pending = <<>>, !.declared = Declaring(@, n, Fresh)]]
    /\ visible' = visible \cup {n}
    /\ value' = {}
    /\ UNCHANGED <<scalars, context, phase>>

LetScalar(x) ==
    /\ Lowering /\ value # {}
    /\ \A r \in value : r.via # "macro"
    /\ x \notin DOMAIN Entry.declared
    /\ scalars' = [scalars EXCEPT ![x] = {[r EXCEPT !.via = "scalar"] : r \in value}]
    /\ stack' = [stack EXCEPT ![Len(stack)] = [Entry EXCEPT !.declared = Declaring(@, x, None)]]
    /\ value' = {}
    /\ UNCHANGED <<nodes, lets, reads, visible, context, phase>>

\* `macro-expand E as s (let t = n; t)` heading a query, over two entities.
\* The first branch becomes the query and its lets the query's first; the
\* second is a branch of a union, with a query of its own.
MacroExpand(t, n) ==
    LET q == Entry.node
        first == Fresh
        branch == Fresh + 1
        second == Fresh + 2
        around == nodes[q].chain
        Binding(c) == [name |-> t, key |-> NoCall, chain |-> c]
    IN
    /\ Lowering /\ value = {}
    /\ \A i \in DOMAIN stack : t \notin DOMAIN stack[i].declared
    /\ t # n /\ ~CallsFunction(n, None)
    /\ Len(nodes) < MaxNodes
    /\ nodes' = nodes \o << Binding({first} \cup around),
                            [name |-> None, key |-> NoCall, chain |-> {branch} \cup around],
                            Binding({second, branch} \cup around) >>
    /\ lets' = [lets EXCEPT ![q] = <<first>> \o @] \o << <<>>, <<second>>, <<>> >>
    /\ reads' = reads \cup At(first, {Ref(n, None, "spliced", Means(n))})
                      \cup At(second, {Ref(n, None, "direct", Means(n))})
                      \cup At(branch, {Ref(t, None, "direct", <<"let", second>>)})
    /\ value' = {Ref(t, None, "macro", <<"let", first>>)}
    /\ UNCHANGED <<stack, visible, scalars, context, phase>>

-----------------------------------------------------------------------------
(* Which binding a name reaches.                                           *)

\* The lets of *q* that are bound before *inner*, a query nested in it.
Before(q, inner) ==
    LET at == {i \in DOMAIN lets[q] : lets[q][i] = inner}
    IN IF at = {} THEN DOMAIN lets[q] ELSE {i \in DOMAIN lets[q] : i < Min(at)}

\* The query next inside *q* on the way to a read; a query's own operators
\* see all of its lets.
Inner(r, q) == Min({c \in nodes[r.node].chain : c > q})
Seen(r, q) == IF q = r.node THEN DOMAIN lets[q] ELSE Before(q, Inner(r, q))

\* The lets of *q* a read within it would be given, and the queries with any.
Bound(r, q) == {j \in Seen(r, q) : nodes[lets[q][j]].name = r.name}
Binders(r) == {q \in nodes[r.node].chain : Bound(r, q) # {}}

\* The innermost scope's, by exact name.
Reached(r) == LET q == Max(Binders(r)) IN lets[q][Max(Bound(r, q))]

-----------------------------------------------------------------------------
(* qualify.                                                                *)

Within(r, q) == q \in nodes[r.node].chain

\* Whether a let of *q*, or of a query inside it, is in scope at the read.
BoundWithin(r, q) == \E p \in Binders(r) : p >= q

\* Mutant: what a caller binds stops at the border of its database.
QualifiedAcross(r, q, d, bound) ==
    IF Within(r, q) /\ r.reached /\ r.db = None /\ ~BoundWithin(r, q)
    THEN [r EXCEPT !.db = d] ELSE r

\* A table no let binds gets the database.
Qualified(r, q, d, bound) ==
    IF Within(r, q) /\ r.reached /\ r.db = None
       /\ r.name \notin bound /\ ~BoundWithin(r, q)
    THEN [r EXCEPT !.db = d] ELSE r

-----------------------------------------------------------------------------
(* The end of a body, and of the statement.                                *)

\* The body's reads are placed and its scope is undone; the tables of a
\* body from another database are that database's, but for a name a let of
\* the caller's captures.  The binding it became is pending in the caller,
\* where a reference to it stands for the call.
Finish ==
    /\ lets' = Placed(Entry.node, <<>>)
    /\ reads' = reads \cup At(Entry.node, value)

Return ==
    LET caller == stack[Len(stack) - 1] IN
    /\ Lowering /\ value # {}
    /\ Len(stack) > 1
    /\ Finish
    /\ stack' = [Front(stack) EXCEPT ![Len(stack) - 1] =
                    [caller EXCEPT !.pending = Append(@, Entry.node)]]
    /\ visible' = Entry.visible
    /\ scalars' = Entry.scalars
    /\ context' = Entry.context
    /\ phase' = IF Entry.key[1] = Home THEN "lowering" ELSE "qualifying"
    /\ value' = {Ref(Entry.node, None, Entry.via, Entry.means)}
    /\ UNCHANGED nodes

QualifyBody ==
    LET q == Last(Entry.pending) IN
    /\ phase = "qualifying"
    /\ reads' = {Qualified(r, q, nodes[q].key[1], visible) : r \in reads}
    /\ phase' = "lowering"
    /\ UNCHANGED <<nodes, lets, stack, visible, scalars, context, value>>

EndQuery ==
    /\ Lowering /\ value # {}
    /\ Len(stack) = 1
    /\ Finish
    /\ value' = {}
    /\ phase' = "lowered"
    /\ UNCHANGED <<nodes, stack, visible, scalars, context>>

\* Mutant: the innermost binding is taken.
NeverAmbiguous(r) == FALSE

\* A toscalar that reads a name two scopes bind is refused.
Ambiguous(r) == r.via = "scalar" /\ r.db = None /\ Cardinality(Binders(r)) > 1

\* qualify, and then to_sql over what it left.
Translate ==
    LET qualified == {Qualified(r, 1, Home, {}) : r \in reads} IN
    /\ phase = "lowered"
    /\ reads' = qualified
    /\ phase' = IF \E r \in qualified : Ambiguous(r) THEN "refused" ELSE "rendered"
    /\ UNCHANGED <<nodes, lets, stack, visible, scalars, context, value>>

Init ==
    /\ nodes = <<[name |-> None, key |-> NoCall, chain |-> {1}]>>
    /\ lets = << <<>> >>
    /\ reads = {}
    /\ visible = {}
    /\ scalars = [x \in Scalars |-> {}]
    /\ context = Home
    /\ stack = <<[node |-> 1, key |-> NoCall, via |-> "direct", means |-> None,
                  pending |-> <<>>, declared |-> << >>,
                  visible |-> {}, scalars |-> scalars, context |-> Home]>>
    /\ value = {}
    /\ phase = "lowering"

Next ==
    \/ \E n \in Names : ReadBare(n) \/ LetTable(n)
    \/ \E n \in Names, d \in Databases : ReadQualified(n, d)
    \/ \E x \in Scalars : LetScalar(x) \/ UseScalar(x, TRUE) \/ UseScalar(x, FALSE)
    \/ \E t, n \in Names : MacroExpand(t, n)
    \/ Return \/ QualifyBody
    \/ EndQuery \/ Translate

Spec == Init /\ [][Next]_vars

-----------------------------------------------------------------------------
(* What the statement is answered from.                                    *)

\* An unqualified table is the connection's, as it is when rows are fetched.
Answered(r) ==
    IF r.db # None THEN <<"table", r.db, r.name>>
    ELSE IF Binders(r) = {} THEN <<"table", Connection, r.name>>
    ELSE LET b == Reached(r) IN
         IF nodes[b].key = NoCall THEN <<"let", b>>
         ELSE <<"function", nodes[b].key[1], nodes[b].key[2]>>

\* The body of a function of the home database is not qualified when it ends;
\* inside the body of another database's function it is qualified with that
\* one.  The README describes it.
HomeInsideOther(r) ==
    /\ r.means[1] = "table" /\ r.means[2] = Home
    /\ \E q \in nodes[r.node].chain : nodes[q].key[1] \notin {None, Home}

\* The lets of a macro-expand's first branch are put before the lets of the
\* query it heads: they do not see those, and those see them.
AmongMovedLets(r) ==
    \E q \in nodes[r.node].chain :
        \E m \in reads : /\ m.via = "spliced" /\ m.node \in Range(lets[q])
                        /\ Len(lets[q]) > 1

-----------------------------------------------------------------------------
(* Properties.                                                             *)

\* How a reference came to be where it is.
Ways == {"direct", "scalar", "macro", "spliced"}

\* The types of the lowering state: a body is expanded at most once at a
\* time (lower.py:1352), every let and call has one query, and every finished
\* read belongs to one.
TypeOK ==
    /\ Len(lets) = Len(nodes)
    /\ \A q \in DOMAIN lets : Range(lets[q]) \subseteq DOMAIN nodes
    /\ \A r \in reads : r.node \in DOMAIN nodes /\ r.via \in Ways
                        /\ r.db \in Databases \cup {None}
                        /\ r.name \in Names \cup DOMAIN nodes
    /\ \A i, j \in DOMAIN stack : stack[i].key = stack[j].key => i = j
    /\ context \in Databases /\ visible \subseteq Names
    /\ phase \in {"lowering", "qualifying", "lowered", "rendered", "refused"}

\* A name read where it is written is answered from what Kusto means by it:
\* the innermost let in scope there (its own text's, then its callers'), else
\* the function of the database the text belongs to, else that database's
\* table (lower.py:1204 and 1388, qualify, translate's _let_cte).
Faithful ==
    phase = "rendered" =>
        \A r \in reads :
            r.via # "scalar" /\ ~HomeInsideOther(r) /\ ~AmongMovedLets(r)
                => Answered(r) = r.means

\* A scalar let's toscalar that means a let still reads that one wherever the
\* scalar is used, in another body, database or place: a let that would
\* capture it is refused (translate/__init__.py:1143, _toscalar_scope).
LetsAreNotRecaptured ==
    phase = "rendered" =>
        \A r \in reads : r.via = "scalar" /\ r.means[1] = "let" => Answered(r) = r.means

\* "Give every unqualified table reference *database* as its database"
\* (qualify): no table is left to the database the connection is in.
EveryTableHasADatabase ==
    phase = "rendered" => \A r \in reads : Answered(r)[2] # Connection

=============================================================================
