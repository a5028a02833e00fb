------------------------------- MODULE MCRows -------------------------------
EXTENDS Rows

V == {1, 2, Null}
Three(k, v, w) == [k |-> k, v |-> v, w |-> w]
Row(k, v) == [k |-> k, v |-> v]

\* Tables of k and v: every set of up to two rows, and some of more with
\* repeated rows, ties and null keys; tables of two lists for mv-expand.
Wide == {Row(k, v) : k \in V, v \in V}
Lists == {Null, <<>>, <<1>>, <<1, Null>>, <<1, 2, 2>>}
Listed(k, a, b) == [k |-> k, a |-> a, b |-> b]
MCTables ==
    {Tabled({"k", "v"}, SetToSeq(S)) : S \in {T \in SUBSET Wide : Cardinality(T) <= 2}}
    \cup {Tabled({"k", "v"}, rows) : rows \in {
            <<Row(1, 1), Row(1, 1)>>, <<Row(1, 1), Row(1, 2), Row(1, Null)>>,
            <<Row(Null, 1), Row(Null, 2), Row(1, 2)>>, <<Row(2, Null), Row(2, Null), Row(1, 1)>>,
            <<Row(1, Null), Row(Null, Null), Row(Null, Null)>> }}
    \cup {Tabled({"k", "v", "w"}, << Three(k, v, 1), Three(1, 1, Null), Three(1, u, 2) >>) :
            k \in {1, Null}, v \in V, u \in V}
    \cup {Tabled({"k", "a", "b"}, << Listed(1, a, b) >>) : a \in Lists, b \in Lists}
    \cup {Tabled({"k", "a", "b"}, << Listed(1, <<1, 2>>, Null), Listed(Null, <<>>, <<2>>) >>)}

-----------------------------------------------------------------------------
Col(c) == [kind |-> "column", of |-> c]
Lit(n) == [kind |-> "literal", of |-> n]
Scalar(n) == [kind |-> "toscalar", of |-> n]
Test(test, x, y) == [test |-> test, left |-> x, right |-> y, items |-> <<>>]
In(test, x, items) == [test |-> test, left |-> x, right |-> Lit(Null), items |-> items]
Pred(form, p, q) == [form |-> form, p |-> p, q |-> q]

Pairs == { <<Col("k"), Col("v")>>, <<Col("k"), Lit(2)>>, <<Lit(1), Col("v")>>,
           <<Col("v"), Lit(Null)>>, <<Col("v"), Scalar(1)>>, <<Scalar(Null), Col("k")>> }
Tests == {Test(t, p[1], p[2]) : t \in {"==", "!=", "<", "contains", "!contains"}, p \in Pairs}
         \cup {In(t, x, i) : t \in {"in", "!in"}, x \in {Col("k"), Lit(2)},
                             i \in { <<Lit(1)>>, <<Lit(1), Lit(Null)>>, <<Col("v"), Lit(1)>>, <<Col("v")>> }}
Few == {Test("==", Col("k"), Col("v")), Test("<", Col("k"), Lit(2)), In("!in", Col("v"), <<Col("k")>>)}
Preds == {Pred(f, p, p) : f \in {"atom", "not"}, p \in Tests}
         \cup {Pred(f, p, q) : f \in {"and", "or"}, p \in Few, q \in Few}

Key(c, asc, nulls) == [col |-> c, ascending |-> asc, nulls |-> nulls]
Keys == {<<Key("k", asc, n)>> : asc \in BOOLEAN, n \in {None, "first", "last"}}
        \cup {<<Key("k", a, None), Key("v", ~a, None)>> : a \in BOOLEAN}

\* The right sides: one shares k and v, one has another column, one is empty.
Rights == { Tabled({"k", "v"}, <<Row(1, 2), Row(Null, 1), Row(1, 2)>>),
            Tabled({"k", "w"}, <<[k |-> Null, w |-> 1], [k |-> 2, w |-> Null], [k |-> Null, w |-> 2]>>),
            Tabled({"k", "v"}, <<>>) }
MCRenamed == [k |-> "k1", v |-> "v1", w |-> "w1"]
KV == {"k", "v"}

-----------------------------------------------------------------------------
Query(name, reads, adds, rest) == rest @@ [op |-> name, reads |-> reads, adds |-> adds]
Group(reads, by, fn, pred) ==
    Query("summarize", reads, {}, [by |-> by, fn |-> fn, col |-> "v", picks |-> reads \ KV, pred |-> pred, name |-> "n"])
Ons == { {<<"k", "k">>}, {<<"k", "k">>, <<"v", "v">>}, {<<"v", "k">>} }
Joins(name, kinds) ==
    {Query(name, KV, {"k1", "v1", "w"}, [kind |-> kind, on |-> x[1], right |-> x[2]]) :
        kind \in kinds, x \in {y \in Ons \X Rights : \A k \in y[1] : k[2] \in y[2].cols}}
Target(c, n) == [column |-> c, name |-> n]

MCQueries ==
    {Query("where", KV, {}, [pred |-> p]) : p \in Preds}
    \cup {Query("extend", KV, {"p"}, [name |-> "p", pred |-> p]) : p \in Preds}
    \cup {Query("count", {"k"}, {}, [name |-> "n"])}
    \cup {Query("distinct", cols, {}, [cols |-> cols]) : cols \in {{"k"}, KV}}
    \cup {Query("sort", KV, {}, [keys |-> keys]) : keys \in Keys}
    \cup {Query("top", KV, {}, [keys |-> keys, count |-> n]) : keys \in Keys, n \in {-1, 1, 2}}
    \cup {Query("take", {"k"}, {}, [count |-> n]) : n \in {0, 1}}
    \cup {Group(KV, by, fn, Pred("atom", Test("!=", Col("k"), Col("v")), Test("<", Col("k"), Lit(2)))) :
             by \in {{}, {"k"}}, fn \in {"count", "countif", "dcount", "sum", "max", "make_set"}}
    \cup {Group({"k", "v", "w"}, {"k"}, "arg_max", None)}
    \cup Joins("lookup", {"leftouter", "inner"})
    \cup Joins("join", {"innerunique", "inner", "leftouter", "rightouter", "fullouter",
                        "leftsemi", "rightsemi", "leftanti", "rightanti"})
    \cup {Query("union", {"k", "v"}, {}, [kind |-> kind, right |-> r]) : kind \in {"inner", "outer"}, r \in Rights}
    \cup {Query("mvexpand", {"a", "b"}, {i} \ {None}, [targets |-> t, limit |-> n, index |-> i]) :
             t \in { {Target("a", "a")}, {Target("a", "a"), Target("b", "b")}, {Target("a", "b")} },
             n \in {None, 2, 0, -1}, i \in {None, "i"}}
    \cup {Query("mvexpand", {"a", "b"}, {"x"}, [targets |-> {Target("a", "x")}, limit |-> None, index |-> None])}
=============================================================================
