----------------------------- MODULE MCPipeline -----------------------------
(* Tables of two columns: one of them named as the let, one as KQL names a   *)
(* column that has no name, and names that differ in case only.             *)
EXTENDS Pipeline

MCLower == [x |-> "x", X |-> "x", y |-> "y", v |-> "v", Column |-> "column"]

Numbered1 == Numbered(Plain("Column"), 1)

Table(t, names) == [i \in DOMAIN names |-> Column(names[i], <<t, names[i].stem>>)]

x == Plain("x")
X == Plain("X")
y == Plain("y")
v == Plain("v")

MCNames == {x, X, v, Numbered1}

MCTables == {Table("t", <<x, v>>), Table("t", <<Numbered1, x>>)}

MCOthers == {Table("u", <<y, x>>), Table("u", <<X, y>>), Table("u", <<x, X>>)}
=============================================================================
