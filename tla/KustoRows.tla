----------------------------- MODULE KustoRows -----------------------------
(***************************************************************************)
(* What KQL answers: the rows of a table after one tabular operator, as    *)
(* docs/TRANSLATION.md records the Kusto emulator to answer (R4, R5, R6,   *)
(* R9, R10, R14, R15, R18).  It is the reference Rows is checked against.  *)
(* A table is its set of columns and a sequence of rows, each a function   *)
(* of the columns; only `sort` and `top` say anything of the order (R10).  *)
(* An operator of a query is a record of Queries: the state machine picks  *)
(* one the table has the columns for and the next table is an answer.      *)
(***************************************************************************)
EXTENDS Integers, Sequences, FiniteSets, SequencesExt

CONSTANTS Null,       \* a missing value
          None,       \* no operator, no limit, no index column, no aggregate
          Tables,     \* the tables a query starts from
          Queries,    \* the operators a query is made of
          Renamed,    \* the name a column of a right side gets when the left has it
          MaxSteps    \* how many operators a query has

VARIABLES table, op, steps
vars == <<table, op, steps>>

-----------------------------------------------------------------------------
(* Rows, and tables compared as bags.                                      *)

Times(row, rows) == Cardinality({i \in DOMAIN rows : rows[i] = row})
SameRows(a, b) == \A row \in Range(a) \cup Range(b) : Times(row, a) = Times(row, b)
Only(row, cols) == [c \in cols |-> row[c]]
Blank(cols) == [c \in cols |-> Null]
And(row, more) == [c \in DOMAIN row \cup DOMAIN more |-> IF c \in DOMAIN row THEN row[c] ELSE more[c]]
Biggest(S) == CHOOSE n \in S : \A m \in S : m <= n

\* The columns a right side adds: its own names, or the next free ones.
Added(cols, right) == [c \in right |-> IF c \in cols THEN Renamed[c] ELSE c]
Side(row, names) == [n \in Range(names) |-> row[CHOOSE c \in DOMAIN names : names[c] = n]]

-----------------------------------------------------------------------------
(* Predicates: a comparison or a membership, alone or under one            *)
(* connective.  An operand is a column, a literal or a scalar subquery.    *)

Value(x, row) == IF x.kind = "column" THEN row[x.of] ELSE x.of

Negated == {"!=", "!contains", "!in"}
Total == {"==", "contains", "in"} \cup Negated

\* The strings 1 and 2 stand for are prefixes of each other.
Relates(test, a, b) ==
    CASE test = "==" -> a = b
      [] test = "!=" -> a # b
      [] test = "<" -> a < b
      [] test = "contains" -> a >= b
      [] test = "!contains" -> a < b

\* R4: the equality and matching families answer on one null, never on two;
\* the ordering ones answer null on any.
Compared(test, a, b) ==
    IF Null \notin {a, b} THEN Relates(test, a, b)
    ELSE IF test \notin Total \/ a = b THEN Null
    ELSE test \in Negated

\* R4's table, `in` and `!in` with it: one null has an answer, two have none.
Member(test, a, items) ==
    IF a = Null /\ Null \in items THEN Null ELSE (a \in items) # (test = "!in")

Not(p) == IF p = Null THEN Null ELSE ~p
Both(p, q) == IF FALSE \in {p, q} THEN FALSE ELSE IF Null \in {p, q} THEN Null ELSE TRUE
Either(p, q) == Not(Both(Not(p), Not(q)))

Combined(pred, Atom(_)) ==
    CASE pred.form = "atom" -> Atom(pred.p)
      [] pred.form = "not" -> Not(Atom(pred.p))
      [] pred.form = "and" -> Both(Atom(pred.p), Atom(pred.q))
      [] pred.form = "or" -> Either(Atom(pred.p), Atom(pred.q))

Asked(pred, row) ==
    Combined(pred, LAMBDA p :
        IF p.test \in {"in", "!in"}
        THEN Member(p.test, Value(p.left, row), {Value(p.items[i], row) : i \in DOMAIN p.items})
        ELSE Compared(p.test, Value(p.left, row), Value(p.right, row)))

-----------------------------------------------------------------------------
(* Orders: null is the smallest value unless the key says where it goes.   *)

Low(v) == IF v = Null THEN 0 ELSE v
InOrder(key, a, b) ==
    IF key.nulls # None /\ (a = Null) # (b = Null) THEN (a = Null) = (key.nulls = "first")
    ELSE IF key.ascending THEN Low(a) <= Low(b) ELSE Low(a) >= Low(b)
SameRank(key, a, b) == a = b
RowsInOrder(keys, r, s) ==
    \A i \in DOMAIN keys :
        (\A j \in 1..(i - 1) : SameRank(keys[j], r[keys[j].col], s[keys[j].col]))
            => InOrder(keys[i], r[keys[i].col], s[keys[i].col])
Ordered(keys, rows) == \A i, j \in DOMAIN rows : i < j => RowsInOrder(keys, rows[i], rows[j])

-----------------------------------------------------------------------------
(* Groups (R4: aggregates pass over nulls, and answer a neutral value).    *)

InGroup(key, rows) == {i \in DOMAIN rows : Only(rows[i], DOMAIN key) = key}
Present(rows, of, c) == {i \in of : rows[i][c] # Null}

IsAggregate(o, rows, of, row) ==
    LET present == Present(rows, of, o.col)
        values == {rows[i][o.col] : i \in present}
        \* The rows `arg_max` may answer from: those at the maximum, any of
        \* them when every maximised value is null.
        tops == {i \in of : \A j \in present : i \in present /\ rows[j][o.col] <= rows[i][o.col]}
    IN CASE o.fn = "count" -> row[o.name] = Cardinality(of)
         [] o.fn = "countif" -> row[o.name] = Cardinality({i \in of : Asked(o.pred, rows[i]) = TRUE})
         [] o.fn = "dcount" -> row[o.name] = Cardinality(values)
         [] o.fn = "sum" ->
              row[o.name] = FoldSet(LAMBDA i, n : n + rows[i][o.col], 0, present)
         [] o.fn = "max" -> IF values = {} THEN row[o.name] = Null ELSE row[o.name] = Biggest(values)
         [] o.fn = "make_set" -> row[o.name] = values
         [] o.fn = "arg_max" ->
              \E i \in tops : \A c \in o.picks \cup {o.col} : row[c] = rows[i][c]

\* One row to a group that is not empty, or one row in all without a key.
IsSummary(o, rows, out) ==
    LET keys == IF o.by = {} THEN {<<>>} ELSE {Only(rows[i], o.by) : i \in DOMAIN rows}
    IN /\ Len(out) = Cardinality(keys)
       /\ \A key \in keys : \E i \in DOMAIN out :
              /\ Only(out[i], o.by) = key
              /\ IsAggregate(o, rows, IF o.by = {} THEN DOMAIN rows ELSE InGroup(key, rows), out[i])

-----------------------------------------------------------------------------
(* Joins, one key value at a time: null is a key value like another (R14). *)

LeftKey(o, row) == [k \in o.on |-> row[k[1]]]
RightKey(o, row) == [k \in o.on |-> row[k[2]]]

\* How often the two rows of one key value meet: `innerunique` has one left row.
Joined(o, t, lefts, out) ==
    LET rights == DOMAIN o.right.rows
        lkeys == {LeftKey(o, t.rows[i]) : i \in lefts}
        rkeys == {RightKey(o, o.right.rows[j]) : j \in rights}
        names == IF o.op = "lookup"
                 THEN Added(t.cols, o.right.cols \ {k[2] : k \in o.on})
                 ELSE Added(t.cols, o.right.cols)
        L(row) == Only(row, t.cols)
        R(row) == Only(row, Range(names))
        FromRight(row) == {j \in rights : Side(o.right.rows[j], names) = R(row)}
        Count(row) ==
            CASE o.kind = "leftsemi" ->
                   Cardinality({i \in lefts : t.rows[i] = row /\ LeftKey(o, row) \in rkeys})
              [] o.kind = "leftanti" ->
                   Cardinality({i \in lefts : t.rows[i] = row /\ LeftKey(o, row) \notin rkeys})
              [] o.kind = "rightsemi" ->
                   Cardinality({j \in rights : o.right.rows[j] = row /\ RightKey(o, row) \in lkeys})
              [] o.kind = "rightanti" ->
                   Cardinality({j \in rights : o.right.rows[j] = row /\ RightKey(o, row) \notin lkeys})
              [] OTHER ->
                   Cardinality({p \in lefts \X FromRight(row) :
                                  /\ t.rows[p[1]] = L(row)
                                  /\ LeftKey(o, t.rows[p[1]]) = RightKey(o, o.right.rows[p[2]])})
                 + (IF o.kind \in {"leftouter", "fullouter"} /\ R(row) = Blank(Range(names))
                    THEN Cardinality({i \in lefts : t.rows[i] = L(row) /\ LeftKey(o, L(row)) \notin rkeys})
                    ELSE 0)
                 + (IF o.kind \in {"rightouter", "fullouter"} /\ L(row) = Blank(t.cols)
                    THEN Cardinality({j \in FromRight(row) : RightKey(o, o.right.rows[j]) \notin lkeys})
                    ELSE 0)
        \* Every row an answer may have.
        possible == CASE o.kind \in {"leftsemi", "leftanti"} -> {t.rows[i] : i \in lefts}
                      [] o.kind \in {"rightsemi", "rightanti"} -> Range(o.right.rows)
                      [] OTHER -> {And(l, r) : l \in {t.rows[i] : i \in lefts} \cup {Blank(t.cols)},
                                               r \in {Side(o.right.rows[j], names) : j \in rights}
                                                     \cup {Blank(Range(names))}}
    IN /\ Range(out) \subseteq possible
       /\ \A row \in possible : Times(row, out) = Count(row)

\* One left row for each of the left side's key values.
OnePerKey(o, t) == {S \in SUBSET DOMAIN t.rows :
    \A i \in DOMAIN t.rows : Cardinality({j \in S : LeftKey(o, t.rows[j]) = LeftKey(o, t.rows[i])}) = 1}

IsJoin(o, t, out) ==
    IF o.kind = "innerunique" THEN \E S \in OnePerKey(o, t) : Joined(o, t, S, out)
    ELSE Joined(o, t, DOMAIN t.rows, out)

-----------------------------------------------------------------------------
(* `mv-expand` (R18): the lists of one row in lockstep, the longest first  *)
(* to say how many rows.  A null is one element; an object is the list of  *)
(* its one-key bags.                                                       *)

Count(cell) == IF cell = Null THEN 1 ELSE Len(cell)
Element(cell, j) == IF cell = Null THEN Null ELSE IF j <= Len(cell) THEN cell[j] ELSE Null
Capped(n, limit) == IF limit = None \/ n <= limit THEN n ELSE IF limit < 0 THEN 0 ELSE limit

Expanded(o, row) ==
    LET n == Capped(Biggest({Count(row[x.column]) : x \in o.targets}), o.limit)
        Of(c, j) == LET xs == {x \in o.targets : x.name = c}
                    IN IF xs # {} THEN Element(row[(CHOOSE x \in xs : TRUE).column], j)
                       ELSE IF c = o.index THEN j - 1 ELSE row[c]
        cols == DOMAIN row \cup {x.name : x \in o.targets} \cup ({o.index} \ {None})
    IN [j \in 1..n |-> [c \in cols |-> Of(c, j)]]

-----------------------------------------------------------------------------
(* The answers to an operator.                                             *)

IsAnswer(o, t, u) ==
    LET rows == t.rows
        out == u.rows
    IN CASE o.op = "where" -> SameRows(out, SelectSeq(rows, LAMBDA r : Asked(o.pred, r) = TRUE))
         [] o.op = "extend" ->
              SameRows(out, [i \in DOMAIN rows |-> And(o.name :> Asked(o.pred, rows[i]), rows[i])])
         [] o.op = "count" -> out = << o.name :> Len(rows) >>
         [] o.op = "distinct" ->
              /\ \A row \in Range(out) : Times(row, out) = 1
              /\ Range(out) = {Only(row, o.cols) : row \in Range(rows)}
         [] o.op = "sort" -> SameRows(out, rows) /\ Ordered(o.keys, out)
         [] o.op = "take" ->
              /\ Len(out) = Capped(Len(rows), o.count)
              /\ \A row \in Range(out) : Times(row, out) <= Times(row, rows)
         [] o.op = "top" ->
              /\ Len(out) = Capped(Len(rows), o.count)
              /\ Ordered(o.keys, out)
              /\ \A row \in Range(rows) :
                     \/ Times(row, out) = Times(row, rows)
                     \/ \A kept \in Range(out) : RowsInOrder(o.keys, kept, row)
              /\ \A row \in Range(out) : Times(row, out) <= Times(row, rows)
         [] o.op = "summarize" -> IsSummary(o, rows, out)
         [] o.op \in {"join", "lookup"} -> IsJoin(o, t, out)
         [] o.op = "union" ->
              LET Padded(row) == [c \in u.cols |-> IF c \in DOMAIN row THEN row[c] ELSE Null]
              IN SameRows(out, [i \in DOMAIN rows |-> Padded(rows[i])]
                               \o [i \in DOMAIN o.right.rows |-> Padded(o.right.rows[i])])
         [] o.op = "mvexpand" ->
              SameRows(out, FlattenSeq([i \in DOMAIN rows |-> Expanded(o, rows[i])]))

\* The columns an answer has.
Answered(o, cols) ==
    CASE o.op \in {"where", "sort", "top", "take"} -> cols
      [] o.op \in {"extend", "mvexpand"} -> cols \cup o.adds
      [] o.op = "count" -> {o.name}
      [] o.op = "distinct" -> o.cols
      [] o.op = "summarize" ->
           o.by \cup (IF o.fn = "arg_max" THEN o.picks \cup {o.col} ELSE {o.name})
      [] o.op = "lookup" -> cols \cup Range(Added(cols, o.right.cols \ {k[2] : k \in o.on}))
      [] o.op = "join" -> IF o.kind \in {"leftsemi", "leftanti"} THEN cols
                          ELSE IF o.kind \in {"rightsemi", "rightanti"} THEN o.right.cols
                          ELSE cols \cup Range(Added(cols, o.right.cols))
      [] o.op = "union" -> IF o.kind = "inner" THEN cols \cap o.right.cols ELSE cols \cup o.right.cols

\* The columns an operator reads are there, and what it names is new.
Usable(o, cols) == o.reads \subseteq cols /\ o.adds \cap cols = {}

-----------------------------------------------------------------------------
KustoInit == table \in Tables /\ op = None /\ steps = 0
KustoStep ==
    /\ steps < MaxSteps
    /\ steps' = steps + 1
    /\ op' \in Queries
    /\ Usable(op', table.cols)
    /\ table'.cols = Answered(op', table.cols)
    /\ IsAnswer(op', table, table')
KustoSpec == KustoInit /\ [][KustoStep]_vars
=============================================================================
