------------------------------ MODULE Sharing ------------------------------
(***************************************************************************)
(* translate/sharing.py: an operator's expressions are a DAG, and a node    *)
(* read twice is given a column of its own (a slot) in a derived table      *)
(* under the operator's FROM.  bind_repeats walks the DAG to learn how      *)
(* often each node is reached and behind which branches (_reach), then      *)
(* takes the nodes children first and decides for each whether it becomes   *)
(* a slot, rebuilding around it the branch it was read from (_under_guard). *)
(*                                                                         *)
(* `iif`/`iff` is a `case` of three arguments, and the right side of        *)
(* `and`/`or` takes the arm of a second argument of `coalesce`.  How long   *)
(* the SQL of a node is (MIN_SAVING) is a free choice here.                 *)
(***************************************************************************)
EXTENDS Naturals, SequencesExt

CONSTANTS
    Expressions,    \* the operators translated: [nodes, exprs] records
    Columns         \* the columns an input may have that look like a slot

\* A column that could be mistaken for a slot is "_kqlbind0" with some number
\* of underscores, in this case or in another.
SlotLike == [underscores : 1 .. 3, sameCase : BOOLEAN]

ASSUME ColumnsAssumption == Columns \subseteq SlotLike

VARIABLES
    op,             \* the operator being rendered
    taken,          \* the columns in scope
    known,          \* whether the translator knows them (a schema was given)
    todo,           \* the calls of walk still to make, the next one first
    counts,         \* how often walk reached each node
    guards,         \* the branch each node is reached behind
    plan,           \* the nodes still to plan, children first
    slots           \* Scope.slots and Scope.names, in the order they nest

vars == <<op, taken, known, todo, counts, guards, plan, slots>>

Kinds == {"column", "call", "case", "coalesce", "toscalar", "volatile"}

Nodes == DOMAIN op.nodes

Args(n) == op.nodes[n].args

Kind(n) == op.nodes[n].kind

ASSUME ExpressionsAssumption ==
    \A e \in Expressions :
        /\ e.nodes \in Seq([kind : Kinds, args : Seq(Nat \ {0})])
        /\ \A n \in DOMAIN e.nodes : \A a \in Range(e.nodes[n].args) : a < n
        /\ e.exprs \in Seq(DOMAIN e.nodes)

\* `iif` is compiled with three arguments, `case` with an else (_render_case).
ASSUME CasesAssumption ==
    \A e \in Expressions : \A n \in DOMAIN e.nodes :
        e.nodes[n].kind = "case" => Len(e.nodes[n].args) % 2 = 1

-----------------------------------------------------------------------------
\* Paths: which argument of which node was taken, outermost first.

\* The step into a lazy position whose condition is not rebuilt.
Opaque == [owner |-> 0, index |-> 0]

Below(path, n, i) ==
    CASE i > 1 /\ Kind(n) = "case" -> Append(path, [owner |-> n, index |-> i])
      [] i > 1 /\ Kind(n) = "coalesce" -> Append(path, Opaque)
      [] OTHER -> path

Children(n, path) ==
    [i \in DOMAIN Args(n) |-> [node |-> Args(n)[i], path |-> Below(path, n, i)]]

Common(left, right) == LongestCommonPrefix({left, right})

\* The predicates evaluated on the way to argument i, in order.
ConditionsBefore(step) ==
    [j \in 1 .. step.index \div 2 |-> Args(step.owner)[2 * j - 1]]

SelectsOnMatch(step) == step.index % 2 = 0

\* Every node below n, itself included.
Descend(n) ==
    LET below[m \in Nodes] == {m} \cup UNION {below[a] : a \in Range(Args(m))}
    IN  below[n]

Bindable(n) ==
    /\ Kind(n) # "column"
    /\ \A m \in Descend(n) : Kind(m) # "volatile"

Rebuildable(n, guard) ==
    \A s \in Range(guard) :
        /\ s # Opaque
        /\ \A c \in Range(ConditionsBefore(s)) : n \notin Descend(c)

\* seen, and after it the nodes of s that are not in it, as they come.
AddNew(seen, s) ==
    LET upTo[i \in 0 .. Len(s)] ==
            IF i = 0 THEN seen
            ELSE IF Contains(upTo[i - 1], s[i]) THEN upTo[i - 1]
            ELSE Append(upTo[i - 1], s[i])
    IN  upTo[Len(s)]

\* The nodes of args and below them, where below[a] lists what is below a.
Joined(below, args) ==
    LET upTo[i \in 0 .. Len(args)] ==
            IF i = 0 THEN <<>>
            ELSE AddNew(upTo[i - 1], Append(below[args[i]], args[i]))
    IN  upTo[Len(args)]

\* Every node of e once, after the nodes it reads, as a depth-first walk that
\* skips what it has seen completes them.
Postorder(e) ==
    LET below[n \in 0 .. Len(e.nodes)] ==
            IF n = 0 THEN <<>>
            ELSE Append(below[n - 1], Joined(below[n - 1], e.nodes[n].args))
    IN  Joined(below[Len(e.nodes)], e.exprs)

-----------------------------------------------------------------------------
\* Slot names.

\* The shortest prefix no column in scope starts with.
Prefix == CHOOSE u \in 1 .. 4 :
    /\ [underscores |-> u, sameCase |-> TRUE] \notin taken
    /\ \A v \in 1 .. u - 1 : [underscores |-> v, sameCase |-> TRUE] \in taken

\* DuckDB resolves a name without regard to case, and to the first column of
\* that name: the input's, which `SELECT *` carries through, before the slot's.
Shadowed(i) == i = 1 /\ \E c \in taken : c.underscores = Prefix

\* No column in scope is the first slot's name in another case.
NoTwin == \A c \in taken : c.sameCase \/ c.underscores # Prefix

-----------------------------------------------------------------------------
TypeOK ==
    /\ taken \subseteq Columns
    /\ known \in BOOLEAN
    /\ \A i \in DOMAIN todo : todo[i].node \in Nodes
    /\ counts \in [Nodes -> Nat]
    /\ \A n \in Nodes : guards[n] \in Seq([owner : 0 .. Len(op.nodes), index : Nat])
    /\ Range(plan) \subseteq Nodes
    /\ \A i \in DOMAIN slots : slots[i].node \in Nodes

Init ==
    /\ op \in Expressions
    /\ taken \in SUBSET Columns
    /\ known \in BOOLEAN
    /\ counts = [n \in Nodes |-> 0]
    /\ guards = [n \in Nodes |-> <<>>]
    /\ slots = <<>>
    /\ IF known
       THEN /\ todo = [i \in DOMAIN op.exprs |-> [node |-> op.exprs[i], path |-> <<>>]]
            /\ plan = Postorder(op)
       ELSE todo = <<>> /\ plan = <<>>

\* Mutant: a node already walked is never walked again.
WalkOnce ==
    /\ todo # <<>>
    /\ LET n == Head(todo).node
           path == Head(todo).path
       IN  /\ counts' = [counts EXCEPT ![n] = @ + 1]
           /\ guards' = [guards EXCEPT ![n] = IF counts[n] = 0 THEN path ELSE Common(@, path)]
           /\ todo' = IF counts[n] > 0 THEN Tail(todo)
                      ELSE Children(n, path) \o Tail(todo)
    /\ UNCHANGED <<op, taken, known, plan, slots>>

\* One call of walk: below a node whose guard did not change nothing can change.
Walk ==
    /\ todo # <<>>
    /\ LET n == Head(todo).node
           path == Head(todo).path
           merged == IF counts[n] = 0 THEN path ELSE Common(guards[n], path)
       IN  /\ counts' = [counts EXCEPT ![n] = @ + 1]
           /\ guards' = [guards EXCEPT ![n] = merged]
           /\ todo' = IF counts[n] > 0 /\ merged = guards[n] THEN Tail(todo)
                      ELSE Children(n, merged) \o Tail(todo)
    /\ UNCHANGED <<op, taken, known, plan, slots>>

\* Mutant: a slot stands for the node at its position, not for the one planned.
SlotByPosition(n, guard) ==
    /\ todo = <<>>
    /\ plan # <<>>
    /\ Head(plan) = n
    /\ slots' = Append(slots, [node |-> Len(slots), guard |-> guard])
    /\ plan' = Tail(plan)
    /\ UNCHANGED <<op, taken, known, todo, counts, guards>>

Slot(n, guard) ==
    /\ todo = <<>>
    /\ plan # <<>>
    /\ Head(plan) = n
    /\ slots' = Append(slots, [node |-> n, guard |-> guard])
    /\ plan' = Tail(plan)
    /\ UNCHANGED <<op, taken, known, todo, counts, guards>>

BindScalar(n) == Kind(n) = "toscalar" /\ Slot(n, <<>>)

\* Mutant: the branch is not rebuilt around the binding.
BindRepeatUnguarded(n) ==
    /\ Kind(n) # "toscalar"
    /\ counts[n] > 1
    /\ Bindable(n)
    /\ Rebuildable(n, guards[n])
    /\ Slot(n, <<>>)

BindRepeat(n) ==
    /\ Kind(n) # "toscalar"
    /\ counts[n] > 1
    /\ Bindable(n)
    /\ Rebuildable(n, guards[n])
    /\ Slot(n, guards[n])

\* Not a repeat, not bindable, or too short to be worth a stage.
LeaveInline(n) ==
    /\ todo = <<>>
    /\ plan # <<>>
    /\ Head(plan) = n
    /\ Kind(n) # "toscalar"
    /\ plan' = Tail(plan)
    /\ UNCHANGED <<op, taken, known, todo, counts, guards, slots>>

Next ==
    \/ Walk
    \/ \E n \in Nodes : BindScalar(n) \/ BindRepeat(n) \/ LeaveInline(n)

Spec == Init /\ [][Next]_vars

Rendered == todo = <<>> /\ plan = <<>>
-----------------------------------------------------------------------------
\* What DuckDB computes.  A row gives each column, call and scalar the value it
\* has there; Unset is what a slot holds where its guard skipped it.

Truths == {"true", "false", "null"}

Unset == "unset"

Rows == [{n \in Nodes : Kind(n) \notin {"case", "coalesce"}} -> Truths]

\* The argument a CASE answers with: the one after the first predicate that
\* holds, the last when none does.
Branch(args, value) ==
    LET holds == {j \in 1 .. Len(args) - 1 : j % 2 = 1 /\ value[args[j]] = "true"}
    IN  IF holds = {} THEN Len(args) ELSE 1 + CHOOSE j \in holds : \A h \in holds : j <= h

\* The arguments of n that are evaluated, given their values.
Evaluated(n, value) ==
    LET args == Args(n)
    IN  CASE Kind(n) = "case" ->
               LET b == Branch(args, value)
               IN  {b} \cup {j \in 1 .. b : j % 2 = 1}
          [] Kind(n) = "coalesce" ->
               {j \in DOMAIN args : \A i \in 1 .. j - 1 : value[args[i]] = "null"}
          [] OTHER -> DOMAIN args

\* Reading a skipped slot spoils whatever reads it.
Combine(row, n, value) ==
    LET seen == {value[Args(n)[j]] : j \in Evaluated(n, value)}
    IN  IF Unset \in seen THEN Unset
        ELSE CASE Kind(n) = "case" -> value[Args(n)[Branch(Args(n), value)]]
               [] Kind(n) = "coalesce" ->
                    IF seen = {"null"} THEN "null" ELSE CHOOSE v \in seen : v # "null"
               [] OTHER -> row[n]

\* f, with v for x where f says nothing of it.
With(f, x, v) == [y \in DOMAIN f \cup {x} |-> IF y \in DOMAIN f THEN f[y] ELSE v]

\* The value of every node on a row, where columns holds those of the slots
\* that render_expr found.
Values(row, columns) ==
    LET upTo[n \in 0 .. Len(op.nodes)] ==
            IF n = 0 THEN <<>>
            ELSE LET value == upTo[n - 1]
                 IN  With(value, n, IF n \in DOMAIN columns THEN columns[n]
                                    ELSE Combine(row, n, value))
    IN  upTo[Len(op.nodes)]

\* Mutant: a declined predicate is rebuilt as NOT c, which a null is not.
ReachesWhenFalse(guard, value) ==
    \A s \in Range(guard) :
        LET cs == ConditionsBefore(s)
            fellThrough == IF SelectsOnMatch(s) THEN Front(cs) ELSE cs
        IN  /\ \A c \in Range(fellThrough) : value[c] = "false"
            /\ SelectsOnMatch(s) => value[Last(cs)] = "true"

\* Whether the CASE rebuilt by _under_guard reaches the slot's expression.
Reaches(guard, value) ==
    \A s \in Range(guard) :
        LET cs == ConditionsBefore(s)
            fellThrough == IF SelectsOnMatch(s) THEN Front(cs) ELSE cs
        IN  /\ \A c \in Range(fellThrough) : value[c] # "true"
            /\ SelectsOnMatch(s) => value[Last(cs)] = "true"

\* The slots' columns on a row, each computed from the ones nested inside it.
SlotColumns(row) ==
    LET upTo[i \in 0 .. Len(slots)] ==
            IF i = 0 THEN <<>>
            ELSE LET columns == upTo[i - 1]
                     value == Values(row, columns)
                     s == slots[i]
                     computed == Reaches(s.guard, value) /\ ~Shadowed(i)
                 IN  With(columns, s.node, IF computed THEN value[s.node] ELSE Unset)
    IN  upTo[Len(slots)]

\* The nodes a row evaluates when nothing is bound.
Inlined(row) ==
    LET value == Values(row, <<>>)
        reached[n \in Nodes] ==
            \/ n \in Range(op.exprs)
            \/ \E m \in n + 1 .. Len(op.nodes) :
                  reached[m] /\ \E j \in Evaluated(m, value) : Args(m)[j] = n
    IN  {n \in Nodes : reached[n]}

\* Every path from an expression of the operator down to n.
Paths(n) ==
    LET reach[m \in Nodes] ==
            {path \in {<<>>} : m \in Range(op.exprs)}
            \cup UNION {{Below(path, p, i) : path \in reach[p], i \in {j \in DOMAIN Args(p) : Args(p)[j] = m}}
                        : p \in m + 1 .. Len(op.nodes)}
    IN  reach[n]

-----------------------------------------------------------------------------
\* Properties.

\* Whatever is bound, each expression has on every row the value it had inline:
\* no slot is read on a row where its guard skipped it, a null predicate counts
\* as declined on both sides, and no column of the input answers in a slot's
\* place, unless one has its name in another case, which _prefix overlooks.
SameAnswer ==
    Rendered /\ slots # <<>> /\ NoTwin => \A row \in Rows :
        LET inline == Values(row, <<>>)
            bound == Values(row, SlotColumns(row))
        IN  \A n \in Range(op.exprs) : bound[n] = inline[n]

\* However often walk came back to a node and in whatever order it learned of
\* its readers, the branch it leaves on a node is one that every reader of the
\* node is behind: re-walking below a guard that shrank reaches all it affects.
EveryReaderIsBehindTheGuard ==
    (todo = <<>> /\ known) => \A n \in Nodes : \A i \in DOMAIN Args(n) :
        counts[n] > 0 => IsPrefix(guards[Args(n)[i]], Below(guards[n], n, i))

\* An expression that is read behind one branch only is computed, once bound,
\* on exactly the rows on which the query computed it.
OneBranchRunsWhereItRan ==
    Rendered /\ slots # <<>> /\ NoTwin => \A row \in Rows : \A i \in DOMAIN slots :
        LET s == slots[i]
            value == Values(row, SlotColumns(row))
        IN  (\E path \in Paths(s.node) : Paths(s.node) = {path}) /\ Kind(s.node) # "toscalar"
                => (Reaches(s.guard, value) <=> s.node \in Inlined(row))

=============================================================================
