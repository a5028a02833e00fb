-------------------------------- MODULE Graph --------------------------------
(***************************************************************************)
(* A graph operator as DuckDB evaluates what translate/graph.py writes:    *)
(* the two relations, then for graph-mark-components a reachability        *)
(* closure and a numbering, for graph-match and graph-shortest-paths one   *)
(* bounded recursion per variable-length edge and a join over all of them. *)
(* A recursive CTE is evaluated one level at a time: what the last level   *)
(* found is joined once more, until a level finds nothing.                 *)
(*                                                                         *)
(* The conjuncts of the `where` are used twice.  Some restrict where a     *)
(* walk starts, or which side it is built from, or which walks are worth   *)
(* extending; then all of them are checked on the matches.  What must hold *)
(* is that the first use is never seen: the answer is Kusto's.             *)
(*                                                                         *)
(* A query is a record: "consumer" (match, shortest or components), "kind" *)
(* of the components, "vars" the node variables, "edges" of the pattern in *)
(* order, "where" a set of conjuncts, "cycles" and "output".               *)
(***************************************************************************)
EXTENDS GraphMeaning

CONSTANTS
    Cases,   \* the <<graph, query>> pairs
    None

VARIABLES
    graph, query, phase,
    nodes,   \* the node relation
    closure, \* the pairs of nodes the closure has reached
    at,      \* the pattern edge whose relation is being built
    walks,   \* the relation of each pattern edge so far
    front,   \* what the last level of a recursion found
    answer

vars == <<graph, query, phase, nodes, closure, at, walks, front, answer>>

Init ==
    /\ \E c \in Cases : graph = c[1] /\ query = c[2]
    /\ phase = "relations"
    /\ nodes = <<>> /\ closure = {} /\ at = 1 /\ walks = <<>> /\ front = {} /\ answer = None

-----------------------------------------------------------------------------
(* graph-mark-components.                                                  *)

Relations ==
    /\ phase = "relations"
    /\ nodes' = NodeRows(graph)
    /\ IF query.consumer = "components"
       THEN /\ phase' = "closing"
            /\ closure' = {<<x, x>> : x \in DOMAIN nodes'}
            /\ front' = closure'
       ELSE phase' = "stubs" /\ UNCHANGED <<closure, front>>
    /\ UNCHANGED <<graph, query, at, walks, answer>>

\* Mutant: UNION ALL keeps the pairs that were reached before.
Everything(found) == found

\* UNION drops the pairs that were reached before.
New(found) == found \ closure

Close ==
    LET pairs == Pairs(graph, nodes, query.kind)
        found == New({<<p[1], s[2]>> : <<p, s>> \in
                         {<<p, s>> \in front \X pairs : s[1] = p[2]}})
    IN
    /\ phase = "closing" /\ front # {}
    /\ closure' = closure \cup found
    /\ front' = found
    /\ UNCHANGED <<graph, query, phase, nodes, at, walks, answer>>

Number ==
    /\ phase = "closing" /\ front = {}
    /\ answer' = Numbered(nodes, closure, query.kind)
    /\ phase' = "done"
    /\ UNCHANGED <<graph, query, nodes, closure, at, walks, front>>

-----------------------------------------------------------------------------
(* The relation of a pattern edge.                                         *)

Edge == query.edges[at]

\* Mutant: only cycles= makes paths simple.
SimpleByCycles == query.cycles = "none"

\* Whether paths visit a node once: shortest paths always do.
Simple == query.consumer = "shortest" \/ query.cycles = "none"

\* The conjuncts that read one end of the path and nothing else.
Tests(var) == {c \in query.where : c.on = "node" /\ c.var = var}

\* A path is built from its end when only its end is tested.
Backward == Tests(Edge.left) = {} /\ Tests(Edge.right) # {}

\* Mutant: both ends are tested at the node a walk starts from.
BothEnds == Tests(Edge.left) \cup Tests(Edge.right)
Anchors == IF Backward THEN Tests(Edge.right) ELSE Tests(Edge.left)
Seeds == {key \in ToSet(nodes) : \A c \in Anchors : key.id \in c.ok}

Hop(s) == [eid |-> s.eid, rev |-> s.rev]
Eids(w) == {w.hops[i].eid : i \in DOMAIN w.hops}
Visited(w) == {w.st, w.en} \cup ToSet(w.inn)

\* A walk grows at its end, or at its start when it is built backwards; the
\* node it is at becomes an inner node, unless the walk is still a stub.
Tip(w) == IF Backward THEN w.st ELSE w.en
Joint(s) == IF Backward THEN s.far ELSE s.near
Reached(s) == IF Backward THEN s.near ELSE s.far

\* Mutant: the node a stub leaves is counted as inner.
GrownFromInner(w, s) ==
    [st |-> w.st, en |-> s.far, hops |-> Append(w.hops, Hop(s)), inn |-> Append(w.inn, w.en)]

Grown(w, s) ==
    IF Backward
    THEN [st |-> s.near, en |-> w.en, hops |-> <<Hop(s)>> \o w.hops,
          inn |-> IF w.hops = <<>> THEN w.inn ELSE <<w.st>> \o w.inn]
    ELSE [st |-> w.st, en |-> s.far, hops |-> Append(w.hops, Hop(s)),
          inn |-> IF w.hops = <<>> THEN w.inn ELSE Append(w.inn, w.en)]

IsFresh(w, s) ==
    /\ Simple => \A key \in Visited(w) : ~Same(key, Reached(s))
    /\ ~Simple /\ query.cycles = "unique_edges" => s.eid \notin Eids(w)

\* `all(p, ..)` and `all(inner_nodes(p), ..)` hold of a path only if they
\* hold of what it grew from.
Prunes(on) == {c \in query.where : c.on = on /\ c.path = at}
IsKept(w, s) ==
    /\ \A c \in Prunes("all") : s.eid \in c.ok
    /\ w.hops # <<>> => \A c \in Prunes("inner") : Tip(w).id \in c.ok

\* A fixed edge is the edge relation.
FixedEdge ==
    /\ phase = "stubs" /\ at <= Len(query.edges) /\ ~Edge.variable
    /\ walks' = Append(walks, {[st |-> s.near, en |-> s.far, hops |-> <<Hop(s)>>, inn |-> <<>>] :
                                  s \in Steps(graph, Edge.direction)})
    /\ at' = at + 1
    /\ UNCHANGED <<graph, query, phase, nodes, closure, front, answer>>

\* Every walk starts as a stub at a seed.
Stubs ==
    /\ phase = "stubs" /\ at <= Len(query.edges) /\ Edge.variable
    /\ front' = {[st |-> key, en |-> key, hops |-> <<>>, inn |-> <<>>] : key \in Seeds}
    /\ walks' = Append(walks, front')
    /\ phase' = "walking"
    /\ UNCHANGED <<graph, query, nodes, closure, at, answer>>

Walk ==
    LET found == {Grown(w, s) : <<w, s>> \in
                    {<<w, s>> \in front \X Steps(graph, Edge.direction) :
                        /\ Len(w.hops) < Edge.high
                        /\ Same(Joint(s), Tip(w))
                        /\ IsFresh(w, s) /\ IsKept(w, s)}}
    IN
    /\ phase = "walking" /\ front # {}
    /\ walks' = [walks EXCEPT ![at] = @ \cup found]
    /\ front' = found
    /\ UNCHANGED <<graph, query, phase, nodes, closure, at, answer>>

EndWalk ==
    /\ phase = "walking" /\ front = {}
    /\ phase' = "stubs"
    /\ at' = at + 1
    /\ UNCHANGED <<graph, query, nodes, closure, walks, front, answer>>

-----------------------------------------------------------------------------
(* The join.                                                               *)

\* The rows of the edges' relations together, with each range's low bound.
Rows ==
    LET n == Len(query.edges)
        rows[i \in 0..n] ==
            IF i = 0 THEN {<<>>}
            ELSE {Append(t, w) : t \in rows[i - 1],
                                 w \in {w \in walks[i] : Len(w.hops) >= query.edges[i].low}}
    IN rows[n]

Joined(vs, row) ==
    \A i \in DOMAIN row : /\ Same(row[i].st, vs[query.edges[i].left])
                          /\ Same(row[i].en, vs[query.edges[i].right])

Acyclic(vs, row) ==
    CASE query.consumer = "match" /\ query.cycles = "unique_edges" ->
           \A i, j \in DOMAIN row : i < j => Eids(row[i]) \cap Eids(row[j]) = {}
      [] query.cycles = "none" ->
           /\ \A v, u \in DOMAIN vs : v # u => ~Same(vs[v], vs[u])
           /\ \A i \in DOMAIN row : \A key \in ToSet(row[i].inn) :
                /\ \A v \in DOMAIN vs : ~Same(key, vs[v])
                /\ \A j \in DOMAIN row \ {i} : \A k \in ToSet(row[j].inn) : ~Same(key, k)
      [] OTHER -> TRUE

Holds(vs, row, c) ==
    CASE c.on = "node"  -> vs[c.var].id \in c.ok
      [] c.on = "pair"  -> vs[c.var] # vs[c.other]
      [] c.on = "all"   -> Eids(row[c.path]) \subseteq c.ok
      [] c.on = "any"   -> Eids(row[c.path]) \cap c.ok # {}
      [] c.on = "inner" -> \A key \in ToSet(row[c.path].inn) : key.id \in c.ok

Match(vs, row) == [vars |-> vs, paths |-> [i \in DOMAIN row |-> row[i].hops]]

\* Paths of the same ends compare by length, then by their edges in order.
RECURSIVE IsEarlier(_, _)
IsEarlier(p, q) ==
    /\ q # <<>>
    /\ \/ p = <<>>
       \/ p[1].eid < q[1].eid
       \/ p[1].eid = q[1].eid /\ IsEarlier(Tail(p), Tail(q))

\* QUALIFY rank() or row_number() OVER (PARTITION BY the ends ..) = 1.
Ranked(found) ==
    LET Beats(k, m) ==
            /\ k.vars = m.vars
            /\ \/ Len(k.paths[1]) < Len(m.paths[1])
               \/ /\ query.output = "any" /\ Len(k.paths[1]) = Len(m.paths[1])
                  /\ IsEarlier(k.paths[1], m.paths[1])
    IN {m \in found : \A k \in found : ~Beats(k, m)}

Select ==
    LET found == {Match(t[1], t[2]) : t \in
                    {t \in [query.vars -> ToSet(nodes)] \X Rows :
                        /\ Joined(t[1], t[2])
                        /\ Acyclic(t[1], t[2])
                        /\ \A c \in query.where : Holds(t[1], t[2], c)}}
    IN
    /\ phase = "stubs" /\ at > Len(query.edges)
    /\ answer' = IF query.consumer = "shortest" THEN Ranked(found) ELSE found
    /\ phase' = "done"
    /\ UNCHANGED <<graph, query, nodes, closure, at, walks, front>>

-----------------------------------------------------------------------------
Next == Relations \/ Close \/ Number \/ FixedEdge \/ Stubs \/ Walk \/ EndWalk \/ Select

\* DuckDB evaluates a statement it was given.
Spec == Init /\ [][Next]_vars /\ WF_vars(Next)

-----------------------------------------------------------------------------
(* Properties.                                                             *)

HopSeqs == Seq([eid : DOMAIN graph.edges, rev : BOOLEAN])
IsWalkRow(w) ==
    /\ {w.st, w.en} \cup ToSet(w.inn) \subseteq NodeKeys(graph)
    /\ w.hops \in HopSeqs
    /\ Len(w.inn) + 1 = IF w.hops = <<>> THEN 1 ELSE Len(w.hops)

\* The variables hold what the relations are made of: nodes of the graph,
\* pairs of their numbers, and walks that carry an inner node for each hop
\* after the first.
TypeOK ==
    /\ <<graph, query>> \in Cases
    /\ phase \in {"relations", "closing", "stubs", "walking", "done"}
    /\ ToSet(nodes) \subseteq NodeKeys(graph)
    /\ closure \subseteq (DOMAIN nodes) \X (DOMAIN nodes)
    /\ at \in 1..(Len(query.edges) + 1)
    /\ Len(walks) <= at
    /\ \A i \in DOMAIN walks : \A w \in walks[i] : IsWalkRow(w)
    /\ front # {} => front \subseteq IF phase = "closing" THEN closure ELSE walks[at]

\* The node relation holds each node once, and every id of the graph: what
\* every join of the SQL relies on to neither drop nor repeat a match
\* (_raw_nodes, and _path's comment on joining it).
NodesOnce ==
    phase # "relations" => IsInjective(nodes) /\ ToSet(nodes) = NodeKeys(graph)

\* A graph-match answers every match Kusto does and no other, whatever its
\* walks are seeded from, built from or pruned by (_path_ctes: "this changes
\* how much is enumerated, never what is returned").
AnswerIsTheMatches ==
    phase = "done" /\ query.consumer = "match" => answer = Matches(graph, query)

\* graph-shortest-paths answers, for each pair of ends that has one, a
\* shortest of the simple paths in range that the `where` keeps: each of
\* them under output=all, exactly one under output=any.
ShortestAreAnswered ==
    phase = "done" /\ query.consumer = "shortest" =>
        LET best == ShortestPaths(graph, query) IN
        /\ answer \subseteq best
        /\ query.output = "all" => answer = best
        /\ query.output = "any" =>
             \A m \in best : Cardinality({k \in answer : k.vars = m.vars}) = 1

\* Two nodes have one component exactly when they are in one partition and
\* no set the edges do not leave parts them; in each partition the numbers
\* are those from zero, in order of the components' first nodes.
ComponentsAreConnected ==
    phase = "done" /\ query.consumer = "components" =>
        /\ \A x, y \in DOMAIN nodes :
             nodes[x].part = nodes[y].part =>
                (answer[x] = answer[y] <=> Together(graph, query.kind, nodes[x], nodes[y]))
        /\ \A y \in DOMAIN nodes : answer[y] > 0 =>
             \E x \in 1..(y - 1) : nodes[x].part = nodes[y].part /\ answer[x] = answer[y] - 1

\* What each consumer of a graph promises of its answer.
AnswersTheQuery == AnswerIsTheMatches /\ ShortestAreAnswered /\ ComponentsAreConnected

\* Every recursion ends: a walk by its bound or for want of a fresh edge, the
\* closure, which has no bound, because a pair is followed once.
Ends == <>(phase = "done")
=============================================================================
