--------------------------- MODULE GraphRelations ---------------------------
(***************************************************************************)
(* The two relations a graph is (translate/graph.py): its edges, one row   *)
(* per edge row, keyed by position; its nodes, one row per node id, in     *)
(* order of first appearance.  A graph is a record: "edges", a sequence of *)
(* rows with a "src" and a "dst", and "tables", the node tables, each a    *)
(* sequence of keys.  A key is an id with the partition it is in; a graph  *)
(* that is not partitioned has one partition.                              *)
(***************************************************************************)
EXTENDS Naturals, Sequences, FiniteSets, SequencesExt

CONSTANT Null   \* the null id, which is a node like another

Key(part, id) == [part |-> part, id |-> id]

\* Mutant: SQL's `=`, true of no null.
SqlEqual(a, b) == a = b /\ a.id # Null

\* IS NOT DISTINCT FROM.
Same(a, b) == a = b

\* The first row of each key.
Once(s) ==
    LET first == {i \in DOMAIN s : \A j \in 1..(i - 1) : s[j] # s[i]}
        order == SetToSortSeq(first, <)
    IN [i \in DOMAIN order |-> s[order[i]]]

\* NOT EXISTS in the node tables before the *i*th.
Unseen(g, i, key) ==
    \A j \in 1..(i - 1) : \A k \in DOMAIN g.tables[j] : ~Same(g.tables[j][k], key)

TableNodes(g, i) == Once(SelectSeq(g.tables[i], LAMBDA key : Unseen(g, i, key)))

\* The ends of the edges in order, sources first, less those of the tables.
EdgeNodes(g) ==
    LET ends == FlattenSeq([i \in DOMAIN g.edges |-> <<g.edges[i].src, g.edges[i].dst>>])
    IN Once(SelectSeq(ends, LAMBDA key : Unseen(g, Len(g.tables) + 1, key)))

\* The node relation, numbered by position.
NodeRows(g) ==
    FlattenSeq([i \in DOMAIN g.tables |-> TableNodes(g, i)]) \o EdgeNodes(g)

EdgeRows(g) ==
    {[eid |-> i, rev |-> FALSE, src |-> g.edges[i].src, dst |-> g.edges[i].dst] :
        i \in DOMAIN g.edges}

\* Each edge once in each orientation, under the same eid.
Undirected(g) ==
    EdgeRows(g) \cup
    {[eid |-> e.eid, rev |-> TRUE, src |-> e.dst, dst |-> e.src] : e \in EdgeRows(g)}

\* What a pattern edge steps along, from "near" to "far" in pattern order.
Steps(g, direction) ==
    {[eid |-> e.eid, rev |-> e.rev,
      near |-> IF direction = "in" THEN e.dst ELSE e.src,
      far  |-> IF direction = "in" THEN e.src ELSE e.dst] :
        e \in IF direction = "any" THEN Undirected(g) ELSE EdgeRows(g)}

-----------------------------------------------------------------------------
(* Components.                                                             *)

\* The numbers of the nodes an edge joins.
Pairs(g, nodes, kind) ==
    LET out == {<<a, b>> \in (DOMAIN nodes) \X (DOMAIN nodes) :
                    \E e \in EdgeRows(g) : Same(nodes[a], e.src) /\ Same(nodes[b], e.dst)}
    IN out \cup (IF kind = "weak" THEN {<<p[2], p[1]>> : p \in out} ELSE {})

\* Mutant: a strong component is all a node reaches.
FirstReached(nodes, reach, kind, x) == Min({y \in DOMAIN nodes : <<x, y>> \in reach})

\* The earliest node of the component of *x*, by the closure *reach*.
Root(nodes, reach, kind, x) ==
    Min({y \in DOMAIN nodes : <<x, y>> \in reach /\ (kind = "weak" \/ <<y, x>> \in reach)})

\* dense_rank of the roots, less one, in each partition.
Numbered(nodes, reach, kind) ==
    [x \in DOMAIN nodes |->
        LET root == Root(nodes, reach, kind, x)
        IN Cardinality({r \in {Root(nodes, reach, kind, y) :
                                   y \in {z \in DOMAIN nodes : nodes[z].part = nodes[x].part}} :
                            r < root})]
=============================================================================
