---------------------------- MODULE GraphMeaning ----------------------------
(***************************************************************************)
(* What Kusto answers, as docs/graph-proposal.md section 2 measured it:    *)
(* an assignment of nodes to the pattern's node variables and a walk to    *)
(* each of its edges.  No closure, no recursion, no order of evaluation.   *)
(***************************************************************************)
EXTENDS GraphRelations

NodeKeys(g) ==
    UNION {ToSet(g.tables[i]) : i \in DOMAIN g.tables} \cup
    {g.edges[i].src : i \in DOMAIN g.edges} \cup {g.edges[i].dst : i \in DOMAIN g.edges}

-----------------------------------------------------------------------------
(* Matches (section 2.2).                                                  *)

\* A hop is an edge and the way it is taken; only `--` takes one backwards.
Hops(g, direction) ==
    [eid : DOMAIN g.edges, rev : IF direction = "any" THEN BOOLEAN ELSE {FALSE}]
From(g, direction, hop) ==
    IF hop.rev # (direction = "in") THEN g.edges[hop.eid].dst ELSE g.edges[hop.eid].src
To(g, direction, hop) ==
    IF hop.rev # (direction = "in") THEN g.edges[hop.eid].src ELSE g.edges[hop.eid].dst

Walks(g, edge) ==
    {w \in UNION {[1..n -> Hops(g, edge.direction)] : n \in edge.low..edge.high} :
        \A i \in 1..(Len(w) - 1) :
            To(g, edge.direction, w[i]) = From(g, edge.direction, w[i + 1])}

IsBetween(g, edge, a, w, b) ==
    IF w = <<>> THEN a = b
    ELSE From(g, edge.direction, w[1]) = a /\ To(g, edge.direction, Last(w)) = b

\* The nodes a walk passes between its ends.
Inner(g, edge, w) == [i \in 1..(Len(w) - 1) |-> To(g, edge.direction, w[i])]

\* No node twice, the start included.
IsSimple(g, edge, w) ==
    \A i, j \in DOMAIN w :
        /\ To(g, edge.direction, w[i]) # From(g, edge.direction, w[1])
        /\ To(g, edge.direction, w[i]) = To(g, edge.direction, w[j]) => i = j

IsInner(g, query, m, i, key) == key \in ToSet(Inner(g, query.edges[i], m.paths[i]))

\* cycles= (section 2.3).
Allowed(g, query, m) ==
    CASE query.cycles = "all" -> TRUE
      [] query.cycles = "unique_edges" ->
           LET all == FlattenSeq(m.paths)
           IN \A i, j \in DOMAIN all : all[i].eid = all[j].eid => i = j
      [] query.cycles = "none" ->
           /\ IsInjective(m.vars)
           /\ \A i \in DOMAIN query.edges :
                /\ query.edges[i].variable => IsSimple(g, query.edges[i], m.paths[i])
                /\ \A v \in DOMAIN m.vars : ~IsInner(g, query, m, i, m.vars[v])
                /\ \A j \in DOMAIN query.edges \ {i} : \A key \in NodeKeys(g) :
                        ~(IsInner(g, query, m, i, key) /\ IsInner(g, query, m, j, key))

\* One conjunct of the `where` (section 2.4).
IsTrueOf(g, query, m, c) ==
    CASE c.on = "node" -> m.vars[c.var].id \in c.ok
      [] c.on = "pair" -> m.vars[c.var] # m.vars[c.other]
      [] c.on = "all"  -> \A i \in DOMAIN m.paths[c.path] : m.paths[c.path][i].eid \in c.ok
      [] c.on = "any"  -> \E i \in DOMAIN m.paths[c.path] : m.paths[c.path][i].eid \in c.ok
      [] c.on = "inner" ->
           \A key \in ToSet(Inner(g, query.edges[c.path], m.paths[c.path])) : key.id \in c.ok

Binding(g, query) ==
    LET n == Len(query.edges)
        walks[i \in 0..n] ==
            IF i = 0 THEN {<<>>}
            ELSE {Append(t, w) : t \in walks[i - 1], w \in Walks(g, query.edges[i])}
    IN {m \in [vars : [query.vars -> NodeKeys(g)], paths : walks[n]] :
            /\ \A i \in 1..n : IsBetween(g, query.edges[i], m.vars[query.edges[i].left],
                                         m.paths[i], m.vars[query.edges[i].right])
            /\ \A c \in query.where : IsTrueOf(g, query, m, c)}

Matches(g, query) == {m \in Binding(g, query) : Allowed(g, query, m)}

\* Shortest paths (section 2.6): simple, and among those the `where` keeps.
ShortestPaths(g, query) ==
    LET edge == query.edges[1]
        eligible == {m \in Matches(g, query) : IsSimple(g, edge, m.paths[1])}
    IN {m \in eligible : \A k \in eligible :
            k.vars = m.vars => Len(m.paths[1]) <= Len(k.paths[1])}

-----------------------------------------------------------------------------
(* Components (section 2.7).                                               *)

\* A set of nodes no edge leaves.
IsClosed(g, kind, S) ==
    \A i \in DOMAIN g.edges :
        /\ g.edges[i].src \in S => g.edges[i].dst \in S
        /\ kind = "weak" /\ g.edges[i].dst \in S => g.edges[i].src \in S

Reaches(g, kind, x, y) ==
    \A S \in SUBSET NodeKeys(g) : IsClosed(g, kind, S) /\ x \in S => y \in S

Together(g, kind, x, y) == Reaches(g, kind, x, y) /\ Reaches(g, kind, y, x)
=============================================================================
