-------------------------------- MODULE Rows --------------------------------
(***************************************************************************)
(* The rows the generated SQL answers (translate/__init__.py, and the      *)
(* templates of translate/functions.py): one action for each tabular       *)
(* operator, its SQL read with SQL's own rules - three-valued comparisons, *)
(* aggregates that are null over nothing, joins, UNNEST, ORDER BY - where  *)
(* KustoRows says what KQL answers.  DuckDB's choices (which rows a LIMIT  *)
(* keeps, which tie comes first, which row of a key DISTINCT ON keeps) are *)
(* nondeterministic.                                                       *)
(***************************************************************************)
EXTENDS KustoRows, TLC

Tabled(cols, rows) == [cols |-> cols, rows |-> rows]
Mapped(F(_), rows) == [i \in DOMAIN rows |-> F(rows[i])]

-----------------------------------------------------------------------------
(* Predicates.                                                             *)

SqlTest(test, a, b) == IF Null \in {a, b} THEN Null ELSE Relates(test, a, b)
Coalesce(a, b) == IF a = Null THEN b ELSE a

\* Statically incapable of being null: a literal that is not null.
NeverNull(x) == x.kind = "literal" /\ x.of # Null

\* _apply_null_semantics, for the operators that carry a null_result; the
\* ordering ones carry none.
Compare(test, x, y, row) ==
    LET a == Value(x, row)
        b == Value(y, row)
        answer == Coalesce(SqlTest(test, a, b), test \in Negated)
    IN CASE test \notin Total -> SqlTest(test, a, b)
         [] test \in Total /\ (NeverNull(x) \/ NeverNull(y)) -> answer
         [] OTHER -> IF a = Null /\ b = Null THEN Null ELSE answer

\* SQL's x IN (items), and _in_result: no coalesce where the value is a literal.
\* The items are a plain list: not a subquery, a toscalar or one dynamic value,
\* which _render_in_list renders in three branches before this one.
SqlIn(a, items) == IF a # Null /\ a \in items THEN TRUE
                   ELSE IF a = Null \/ Null \in items THEN Null ELSE FALSE
InList(test, x, items, row) ==
    LET sql == SqlIn(Value(x, row), {Value(items[i], row) : i \in DOMAIN items})
        rendered == IF test = "!in" THEN Not(sql) ELSE sql
    IN IF NeverNull(x) THEN rendered ELSE Coalesce(rendered, test = "!in")

Rendered(pred, row) ==
    Combined(pred, LAMBDA p : IF p.test \in {"in", "!in"} THEN InList(p.test, p.left, p.items, row)
                              ELSE Compare(p.test, p.left, p.right, row))

-----------------------------------------------------------------------------
(* ORDER BY, LIMIT.                                                        *)

\* Where ORDER BY puts nulls: as the key says, else by its direction.
NullsFirst(key) == IF key.nulls = None THEN key.ascending ELSE key.nulls = "first"

Precedes(key, a, b) ==
    IF a = Null \/ b = Null THEN a # b /\ (a = Null) = NullsFirst(key)
    ELSE IF key.ascending THEN a < b ELSE a > b
OrderBy(keys, r, s) ==
    \E i \in DOMAIN keys : /\ Precedes(keys[i], r[keys[i].col], s[keys[i].col])
                           /\ \A j \in 1..(i - 1) : r[keys[j].col] = s[keys[j].col]
SortedBy(keys, rows) ==
    LET Ordering == {Mapped(LAMBDA i : rows[i], p) : p \in Permutations(DOMAIN rows)}
    IN {s \in Ordering : \A i, j \in DOMAIN s : OrderBy(keys, s[i], s[j]) => i < j}
Limit(n, rows) == SubSeq(rows, 1, IF n < Len(rows) THEN n ELSE Len(rows))

-----------------------------------------------------------------------------
(* GROUP BY and the aggregates.                                            *)

\* The rows a group may answer with; `arg` is the row arg_max finds, one
\* whose value is the greatest, or the any_value of a group of nulls.
Aggregates(o, rows) ==
    LET present == SelectSeq(rows, LAMBDA r : r[o.col] # Null)
        values == {present[i][o.col] : i \in DOMAIN present}
        sum == FoldSeq(LAMBDA r, n : n + r[o.col], 0, present)
        greatest == {r \in Range(present) : \A v \in values : v <= r[o.col]}
        arg == IF greatest = {} THEN Range(rows) ELSE greatest
        One(v) == {o.name :> v}
    IN CASE o.fn = "count" -> One(Len(rows))
         [] o.fn = "countif" -> One(Len(SelectSeq(rows, LAMBDA r : Rendered(o.pred, r) = TRUE)))
         [] o.fn = "dcount" -> One(Cardinality(values))
         [] o.fn = "sum" -> One(Coalesce(IF values = {} THEN Null ELSE sum, 0))
         [] o.fn = "max" -> One(IF values = {} THEN Null ELSE Biggest(values))
         [] o.fn = "make_set" -> One(values)
         [] o.fn = "arg_max" -> {Only(r, o.picks \cup {o.col}) : r \in arg}

Grouped(o, rows) ==
    LET keys == IF o.by = {} THEN << <<>> >> ELSE SetToSeq({Only(rows[i], o.by) : i \in DOMAIN rows})
        Of(key) == SelectSeq(rows, LAMBDA r : o.by = {} \/ Only(r, o.by) = key)
    IN {Mapped(LAMBDA i : And(keys[i], f[i]), [i \in DOMAIN keys |-> i]) :
          f \in {g \in [DOMAIN keys -> UNION {Aggregates(o, Of(keys[i])) : i \in DOMAIN keys}] :
                   \A i \in DOMAIN keys : g[i] \in Aggregates(o, Of(keys[i]))}}

-----------------------------------------------------------------------------
(* Joins.                                                                  *)

\* Mutant: SQL's `=`, which a null key never passes.
SqlKeys(on, l, r) == \A k \in on : l[k[1]] # Null /\ l[k[1]] = r[k[2]]
\* IS NOT DISTINCT FROM on each key.
KeyEquality(on, l, r) == \A k \in on : l[k[1]] = r[k[2]]

\* DISTINCT ON the left keys: one row of each, whichever comes first.
DistinctOn(on, rows) ==
    LET Key(i) == [k \in on |-> rows[i][k[1]]]
    IN {S \in SUBSET DOMAIN rows :
          \A i \in DOMAIN rows : Cardinality({j \in S : Key(j) = Key(i)}) = 1}
LeftSides(o, rows) ==
    {Mapped(LAMBDA i : rows[i], SetToSeq(S)) :
       S \in IF o.kind = "innerunique" THEN DistinctOn(o.on, rows) ELSE {DOMAIN rows}}

\* The columns of the right side that are read: `lookup` drops its keys.
RightColumns(o) == IF o.op = "lookup" THEN o.right.cols \ {k[2] : k \in o.on} ELSE o.right.cols

JoinType(kind) ==
    CASE kind \in {"innerunique", "inner"} -> "INNER"
      [] kind = "leftouter" -> "LEFT"
      [] kind = "rightouter" -> "RIGHT"
      [] kind = "fullouter" -> "FULL OUTER"
      [] kind \in {"leftsemi", "rightsemi"} -> "SEMI"
      [] kind \in {"leftanti", "rightanti"} -> "ANTI"

\* The rows of LEFT, RIGHT and FULL OUTER that met nobody are padded with null.
SqlJoin(o, cols, lefts) ==
    LET rights == o.right.rows
        names == Added(cols, RightColumns(o))
        type == JoinType(o.kind)
        Meet(i, j) == KeyEquality(o.on, lefts[i], rights[j])
        pairs == SetToSeq({p \in (DOMAIN lefts) \X (DOMAIN rights) : Meet(p[1], p[2])})
        alone == SetToSeq({i \in DOMAIN lefts : \A j \in DOMAIN rights : ~Meet(i, j)})
        others == SetToSeq({j \in DOMAIN rights : \A i \in DOMAIN lefts : ~Meet(i, j)})
        pad(types, rows) == IF type \in types THEN rows ELSE <<>>
    IN Mapped(LAMBDA p : And(lefts[p[1]], Side(rights[p[2]], names)), pairs)
       \o pad({"LEFT", "FULL OUTER"}, Mapped(LAMBDA i : And(lefts[i], Blank(Range(names))), alone))
       \o pad({"RIGHT", "FULL OUTER"}, Mapped(LAMBDA j : And(Blank(cols), Side(rights[j], names)), others))

\* Mutant: the left's rows whichever side the kind names.
LeftOnly(o, lefts) ==
    SelectSeq(lefts, LAMBDA row : (\E j \in DOMAIN o.right.rows : KeyEquality(o.on, row, o.right.rows[j]))
                                  = (JoinType(o.kind) = "SEMI"))

\* SEMI and ANTI keep one side's rows, the right's with the sides swapped.
OneSided(o, lefts) ==
    LET rights == o.right.rows
        swapped == o.kind \in {"rightsemi", "rightanti"}
        kept == IF swapped THEN rights ELSE lefts
        Meets(row) == IF swapped THEN \E i \in DOMAIN lefts : KeyEquality(o.on, lefts[i], row)
                      ELSE \E j \in DOMAIN rights : KeyEquality(o.on, row, rights[j])
    IN SelectSeq(kept, LAMBDA row : Meets(row) = (JoinType(o.kind) = "SEMI"))

-----------------------------------------------------------------------------
(* UNNEST, which zips the lists of one select list.                        *)

Slice(list, limit) ==
    IF limit = None THEN list ELSE Limit(IF limit < 0 THEN 0 ELSE limit, list)
Elements(o, cell) == Slice(IF cell = Null THEN <<Null>> ELSE cell, o.limit)

\* generate_series(0, length - 1): the longest list's length, under the limit.
Indexes(o, row) ==
    LET longest == Biggest({Count(row[x.column]) : x \in o.targets})
    IN Slice([i \in 1..longest |-> i - 1], o.limit)

Unnested(o, row) ==
    LET lists == [x \in o.targets |-> Elements(o, row[x.column])]
        named == o.targets \cup (IF o.index = None THEN {} ELSE {[name |-> o.index]})
        list == [x \in named |-> IF x \in o.targets THEN lists[x] ELSE Indexes(o, row)]
        At(s, j) == IF j <= Len(s) THEN s[j] ELSE Null
    IN [j \in 1..Biggest({Len(list[x]) : x \in named}) |->
          And([n \in {x.name : x \in named} |-> At(list[CHOOSE x \in named : x.name = n], j)], row)]

-----------------------------------------------------------------------------
Init == KustoInit

\* One operator of the kinds given, each of whose SQL answers is a table.
Answer(kinds, Sql(_)) ==
    /\ steps < MaxSteps
    /\ steps' = steps + 1
    /\ op' \in {o \in Queries : o.op \in kinds /\ Usable(o, table.cols)}
    /\ table' \in Sql(op')

Where == Answer({"where"},
    LAMBDA o : {Tabled(table.cols, SelectSeq(table.rows, LAMBDA r : Rendered(o.pred, r) = TRUE))})
Extend == Answer({"extend"},
    LAMBDA o : {Tabled(table.cols \cup {o.name},
                       Mapped(LAMBDA r : And(o.name :> Rendered(o.pred, r), r), table.rows))})
CountRows == Answer({"count"}, LAMBDA o : {Tabled({o.name}, << o.name :> Len(table.rows) >>)})
Distinct == Answer({"distinct"},
    LAMBDA o : {Tabled(o.cols, SetToSeq({Only(r, o.cols) : r \in Range(table.rows)}))})
Sort == Answer({"sort"},
    LAMBDA o : {Tabled(table.cols, s) : s \in SortedBy(o.keys, table.rows)})
\* A negative count is clamped to zero, which DuckDB's LIMIT would refuse.
Top == Answer({"top"},
    LAMBDA o : {Tabled(table.cols, Limit(IF o.count < 0 THEN 0 ELSE o.count, s)) :
                  s \in SortedBy(o.keys, table.rows)})
Take == Answer({"take"},
    LAMBDA o : {Tabled(table.cols, Limit(o.count, Mapped(LAMBDA i : table.rows[i], p))) :
                  p \in Permutations(DOMAIN table.rows)})
Summarize == Answer({"summarize"},
    LAMBDA o : {Tabled(o.by \cup (IF o.fn = "arg_max" THEN o.picks \cup {o.col} ELSE {o.name}), s) :
                  s \in Grouped(o, table.rows)})
Join == Answer({"join", "lookup"},
    LAMBDA o : LET cols == CASE o.kind \in {"leftsemi", "leftanti"} -> table.cols
                             [] o.kind \in {"rightsemi", "rightanti"} -> o.right.cols
                             [] OTHER -> table.cols \cup Range(Added(table.cols, RightColumns(o)))
               IN {Tabled(cols, IF JoinType(o.kind) \in {"SEMI", "ANTI"} THEN OneSided(o, lefts)
                                ELSE SqlJoin(o, table.cols, lefts)) :
                     lefts \in LeftSides(o, table.rows)})

\* UNION ALL BY NAME, and the projection that drops what `inner` does not keep.
Union == Answer({"union"},
    LAMBDA o : LET kept == IF o.kind = "inner" THEN table.cols \cap o.right.cols
                           ELSE table.cols \cup o.right.cols
                   ByName(row) == Only(And(row, Blank(table.cols \cup o.right.cols)), kept)
               IN {Tabled(kept, Mapped(ByName, table.rows \o o.right.rows))})
MvExpand == Answer({"mvexpand"},
    LAMBDA o : {Tabled(table.cols \cup o.adds,
                       FlattenSeq(Mapped(LAMBDA r : Unnested(o, r), table.rows)))})

Next == Where \/ Extend \/ CountRows \/ Distinct \/ Sort \/ Top \/ Take
        \/ Summarize \/ Join \/ Union \/ MvExpand
Spec == Init /\ [][Next]_vars

-----------------------------------------------------------------------------
\* Every row of the table has exactly the table's columns.
TypeOK ==
    /\ steps \in 0..MaxSteps
    /\ op \in Queries \cup {None}
    /\ \A i \in DOMAIN table.rows : DOMAIN table.rows[i] = table.cols

\* A membership test of a row with a null among its items.
Atoms(o) == IF o.op \in {"where", "extend"} \/ (o.op = "summarize" /\ o.fn = "countif")
            THEN (IF o.pred.form \in {"and", "or"} THEN {o.pred.p, o.pred.q} ELSE {o.pred.p}) ELSE {}
AnItemIsNull(p, row) == p.test \in {"in", "!in"} /\ \E i \in DOMAIN p.items : Value(p.items[i], row) = Null

\* A literal tested against a null item: the SQL is null where R4 has an answer.
IsLiteralAmongColumns(o) ==
    \E p \in Atoms(o), row \in Range(table.rows) : AnItemIsNull(p, row) /\ NeverNull(p.left)

\* A null tested against a null item: null in R4's table (docs/TRANSLATION.md:315),
\* false or true to _in_result, whose docstring (translate/__init__.py:2361) has
\* membership without a both-null case.
IsNullAmongNulls(o) ==
    \E p \in Atoms(o), row \in Range(table.rows) : AnItemIsNull(p, row) /\ Value(p.left, row) = Null

\* The SQL of each operator answers what KQL does: every step of the SQL is a
\* step of KustoSpec, whichever rows, ties and nulls DuckDB meets (R4 to R18;
\* translate/__init__.py).  The two membership tests above are left out: in
\* those the code and R4's table disagree.
AnswersAsKusto ==
    KustoInit /\ [][KustoStep \/ IsLiteralAmongColumns(op') \/ IsNullAmongNulls(op')]_vars

=============================================================================
