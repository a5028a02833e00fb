------------------------------ MODULE MCGraph ------------------------------
EXTENDS Graph

CONSTANTS P, Q   \* partitions

Ids == {1, 2, Null}
In(part, rows) == [i \in DOMAIN rows |-> [src |-> Key(part, rows[i][1]), dst |-> Key(part, rows[i][2])]]
Of(part, ids) == [i \in DOMAIN ids |-> Key(part, ids[i])]
Plain(edges, tables) == [edges |-> edges, tables |-> tables]

\* Every graph of up to two edges, and larger ones: a cycle with a tail, a
\* triangle, a diamond with a short cut, parallel edges around a loop, two
\* partitions that share their ids.
Small == {Plain(In(P, rows), <<>>) : rows \in BoundedSeq(Ids \X Ids, 2)}
Large == {Plain(In(P, rows), <<>>) : rows \in {
            << <<1, 2>>, <<2, 1>>, <<1, Null>> >>,
            << <<1, 2>>, <<2, Null>>, <<Null, 1>> >>,
            << <<1, 2>>, <<2, 3>>, <<1, Null>>, <<Null, 3>>, <<1, 3>> >>,
            << <<1, 2>>, <<1, 2>>, <<2, 2>>, <<2, Null>> >> }}
Split == {Plain(In(P, << <<1, 2>>, <<2, 1>> >>) \o In(Q, << <<2, Null>>, <<1, 2>> >>), <<>>)}
Tables == { <<Of(P, <<2, Null, 2>>)>>,
            <<Of(P, <<Null, 3>>) \o Of(Q, <<1>>), Of(P, <<1, Null>>) \o Of(Q, <<1, Null>>)>> }
Tabled == {[g EXCEPT !.tables = t] : g \in Small \cup Large \cup Split, t \in Tables}

-----------------------------------------------------------------------------
Path(l, r, direction, low, high) ==
    [left |-> l, right |-> r, direction |-> direction, variable |-> TRUE, low |-> low, high |-> high]
Fixed(l, r, direction) ==
    [left |-> l, right |-> r, direction |-> direction, variable |-> FALSE, low |-> 1, high |-> 1]
Query(consumer, kind, edges, where, cycles, output) ==
    [consumer |-> consumer, kind |-> kind, edges |-> edges, where |-> where, cycles |-> cycles,
     output |-> output,
     vars |-> IF edges = <<>> THEN {"n"}
              ELSE UNION {{edges[i].left, edges[i].right} : i \in DOMAIN edges}]

Node(v, ok) == [on |-> "node", var |-> v, ok |-> ok]
OnPath(on, i, ok) == [on |-> on, path |-> i, ok |-> ok]
Start == Node("a", {1})
End == Node("b", {2, Null})
Wheres == { {}, {Start}, {End}, {Start, End},
            {OnPath("all", 1, {1, 3, 4})}, {OnPath("any", 1, {2}), Start},
            {OnPath("inner", 1, {2}), End} }
Modes == {"unique_edges", "all", "none"}
Directions == {"out", "in", "any"}

\* (a)-[p*low..high]->(b), and (a)-[p*low..high]->(a)
OnePath == {Query("match", None, <<Path("a", r, d, lo, 3)>>, w, c, None) :
              r \in {"a", "b"}, d \in Directions, lo \in {0, 2}, c \in Modes,
              w \in Wheres}
WellNamed(q) == \A c \in q.where : c.on = "node" => c.var \in q.vars
Shortest == {Query("shortest", None, <<Path("a", "b", d, lo, 3)>>, w, "unique_edges", o) :
              d \in Directions, lo \in {0, 2}, o \in {"any", "all"}, w \in Wheres}

\* Several edges: chains, a fork, a triangle, two paths between two nodes.
Shapes == { << >>,
            <<Fixed("a", "c", "any"), Fixed("c", "b", "any")>>,
            <<Fixed("a", "c", "out"), Fixed("c", "b", "out"), Fixed("b", "a", "out")>>,
            <<Fixed("a", "c", "out"), Path("c", "b", "out", 0, 2)>>,
            <<Path("a", "c", "in", 1, 2), Path("c", "b", "out", 0, 2)>>,
            <<Path("a", "b", "any", 1, 2), Path("a", "b", "out", 1, 2)>> }
Chained == {Query("match", None, s, w, c, None) :
              s \in Shapes, c \in Modes,
              w \in {{}, {Start, [on |-> "pair", var |-> "a", other |-> "b"]}, {End}}}

Marked == {Query("components", k, <<>>, {}, None, None) : k \in {"weak", "strong"}}

MCCases ==
    ((Small \cup Large \cup Split) \X ({q \in OnePath : WellNamed(q)} \cup Shortest)) \cup
    ((Small \cup Split) \X {q \in Chained : WellNamed(q)}) \cup
    (Tabled \X (Marked \cup {Query("match", None, << >>, {}, "all", None)}))
=============================================================================
