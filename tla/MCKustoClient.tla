--------------------------- MODULE MCKustoClient ----------------------------
(* Two threads; a client that opened the connection and has a default       *)
(* database, one that has neither, and one that may not write.  The two that*)
(* may write can each detach the database the other is writing to.  One or  *)
(* two of them share the connection.                                        *)
EXTENDS KustoClient, FiniteSets, TLC
CONSTANTS t1, t2
MCThreads == {t1, t2}
MCDatabases == {"main", "sales"}
MCClients == {"a", "b", "c"}
MCGroups == {g \in SUBSET MCClients : Cardinality(g) \in 1..2}
MCOwners == {"a"}
MCWriters == {"a", "b"}
MCDefaults == [c \in MCClients |-> IF c = "a" THEN "main" ELSE NoName]
MCSymmetry == Permutations(MCThreads)
=============================================================================
