------------------------------ MODULE Clusters ------------------------------
(***************************************************************************)
(* The process-wide cluster map (set_clusters, effective_clusters) and the *)
(* calls that resolve their cluster references against it or against a map *)
(* of their own (clusters.py and _to_sql in __init__.py).  A call resolves *)
(* references at two moments: while it is lowered, those of the stored     *)
(* functions it calls, and while it is qualified, those of the tables it   *)
(* reads.  An ingestion command fetches the map once for both, a query     *)
(* fetches it twice, and another thread may set the default in between.    *)
(***************************************************************************)
EXTENDS ClusterMap

CONSTANTS
    Calls,      \* calls of to_sql, each on a thread of its own
    Given,      \* the maps callers write
    NotYet      \* a reference that has not been resolved

ASSUME GivenAssumption == \A es \in Given : es \in Seq(Entries) /\ Distinct(es)

VARIABLES
    default,    \* clusters._DEFAULT
    attempt,    \* the last map given to set_clusters
    refused,    \* it was refused
    pc,         \* where each call is
    kind,       \* "query" or "ingestion"
    own,        \* the parsed clusters= argument, NoMap when omitted
    fetched,    \* the map the call fetched when it was lowered
    function,   \* the function reference it resolved, and to what
    table       \* the table reference it resolved, and to what

vars == <<default, attempt, refused, pc, kind, own, fetched, function, table>>

call == <<kind, own, fetched, function, table>>

References == [host : Hosts, database : Databases,
               target : Targets \cup {Nowhere}] \cup {NotYet}

TypeOK ==
    /\ default \in Maps \cup {NoMap}
    /\ attempt \in Given \cup {<<>>}
    /\ refused \in BOOLEAN
    /\ pc \in [Calls -> {"idle", "lowering", "qualifying", "ended"}]
    /\ kind \in [Calls -> {"query", "ingestion"}]
    /\ own \in [Calls -> Maps \cup {NoMap}]
    /\ fetched \in [Calls -> Maps \cup {NoMap}]
    /\ function \in [Calls -> References]
    /\ table \in [Calls -> References]

Init ==
    /\ default = NoMap
    /\ attempt = <<>>
    /\ refused = FALSE
    /\ pc = [c \in Calls |-> "idle"]
    /\ kind = [c \in Calls |-> "query"]
    /\ own = [c \in Calls |-> NoMap]
    /\ fetched = [c \in Calls |-> NoMap]
    /\ function = [c \in Calls |-> NotYet]
    /\ table = [c \in Calls |-> NotYet]

-----------------------------------------------------------------------------
\* Mutant: the map is kept as it was written.
SetClustersUnparsed(es) ==
    /\ attempt' = es
    /\ refused' = ~Accepted(es)
    /\ default' = es
    /\ UNCHANGED <<pc, call>>

\* set_clusters: parsed first, so a map that is refused changes nothing.
SetClusters(es) ==
    /\ attempt' = es
    /\ refused' = ~Accepted(es)
    /\ default' = IF Accepted(es) THEN Parsed(es) ELSE default
    /\ UNCHANGED <<pc, call>>

\* set_clusters(None)
ClearClusters ==
    /\ default' = NoMap
    /\ attempt' = <<>>
    /\ refused' = FALSE
    /\ UNCHANGED <<pc, call>>

-----------------------------------------------------------------------------
\* The call begins, with clusters= or without; its map may be refused.
Begin(c) ==
    /\ pc[c] = "idle"
    /\ \E k \in {"query", "ingestion"} : kind' = [kind EXCEPT ![c] = k]
    /\ \/ pc' = [pc EXCEPT ![c] = "lowering"] /\ UNCHANGED own
       \/ \E es \in Given :
            /\ own' = [own EXCEPT ![c] = IF Accepted(es) THEN Parsed(es) ELSE NoMap]
            /\ pc' = [pc EXCEPT ![c] = IF Accepted(es) THEN "lowering" ELSE "ended"]
    /\ UNCHANGED <<default, attempt, refused, fetched, function, table>>

\* effective_clusters: a map of its own replaces the default.
Effective(c) == IF own[c] = NoMap THEN default ELSE own[c]

\* lower: a reference that is refused raises.
Lower(c) ==
    /\ pc[c] = "lowering"
    /\ fetched' = [fetched EXCEPT ![c] = Effective(c)]
    /\ \/ UNCHANGED function /\ pc' = [pc EXCEPT ![c] = "qualifying"]
       \/ \E h \in Hosts, d \in Databases :
            LET t == Resolve(Effective(c), h, d) IN
            /\ function' = [function EXCEPT ![c] =
                               [host |-> h, database |-> d, target |-> t]]
            /\ pc' = [pc EXCEPT ![c] = IF t = Nowhere THEN "ended" ELSE "qualifying"]
    /\ UNCHANGED <<default, attempt, refused, kind, own, table>>

\* Mutant: an ingestion command fetches the map again.
QualifyRefetches(c) ==
    /\ pc[c] = "qualifying"
    /\ \E h \in Hosts, d \in Databases :
            table' = [table EXCEPT ![c] =
                         [host |-> h, database |-> d,
                          target |-> Resolve(Effective(c), h, d)]]
    /\ pc' = [pc EXCEPT ![c] = "ended"]
    /\ UNCHANGED <<default, attempt, refused, kind, own, fetched, function>>

\* Mutant: the default fills in what the call's own map lacks.
QualifyMerges(c) ==
    /\ pc[c] = "qualifying"
    /\ \E h \in Hosts, d \in Databases :
            LET m == IF own[c] # NoMap /\ Resolve(own[c], h, d) = Nowhere
                     THEN default ELSE fetched[c]
            IN  table' = [table EXCEPT ![c] =
                             [host |-> h, database |-> d, target |-> Resolve(m, h, d)]]
    /\ pc' = [pc EXCEPT ![c] = "ended"]
    /\ UNCHANGED <<default, attempt, refused, kind, own, fetched, function>>

\* qualify
Qualify(c) ==
    /\ pc[c] = "qualifying"
    /\ \E h \in Hosts, d \in Databases :
            LET m == IF kind[c] = "ingestion" THEN fetched[c] ELSE Effective(c)
            IN  table' = [table EXCEPT ![c] =
                             [host |-> h, database |-> d, target |-> Resolve(m, h, d)]]
    /\ pc' = [pc EXCEPT ![c] = "ended"]
    /\ UNCHANGED <<default, attempt, refused, kind, own, fetched, function>>

Next ==
    \/ \E es \in Given : SetClusters(es)
    \/ ClearClusters
    \/ \E c \in Calls : Begin(c) \/ Lower(c) \/ Qualify(c)

Spec == Init /\ [][Next]_vars

-----------------------------------------------------------------------------
(* Properties. *)

\* Whatever map is in force, process-wide or a call's own, the two spellings
\* of one cluster resolve to the same database or are both refused: an answer
\* never depends on how a query spells the host.  (_spellings, resolve and
\* _refuse_aliased_conflicts together.)
SpellingNeverMatters ==
    \A m \in {default} \cup {own[c] : c \in Calls} :
        \A g, h \in Hosts, d \in Databases :
            SameCluster(g, h) => Resolve(m, g, d) = Resolve(m, h, d)

\* A map is refused only when two of its entries name one cluster and database
\* and disagree: spellings that agree are allowed.  (_refuse_aliased_conflicts)
RefusalIsReal ==
    refused => \E i, j \in DOMAIN attempt :
                  /\ SameCluster(attempt[i].host, attempt[j].host)
                  /\ attempt[i].database = attempt[j].database
                  /\ attempt[i].target # attempt[j].target

\* What a map resolves, it was given for that very cluster and database: the
\* completed or shortened spelling is another name, never another cluster
\* (clusters.py: "guessing wrong costs a refusal - never a query answered from
\* the wrong database").  A call with a map of its own is answered from that
\* map alone, the default filling in nothing it lacks (effective_clusters).
NeverGuessed ==
    /\ default # NoMap /\ ~refused =>
           \A h \in Hosts, d \in Databases : Resolve(default, h, d) # Nowhere =>
               \E i \in DOMAIN attempt :
                   /\ SameCluster(attempt[i].host, h)
                   /\ attempt[i].database = d
                   /\ attempt[i].target = Resolve(default, h, d)
    /\ \A c \in Calls : own[c] # NoMap =>
           \A r \in {function[c], table[c]} \ {NotYet} :
               r.target = Resolve(own[c], r.host, r.database)

\* References of one command to one cluster and database get one answer, for
\* an ingestion command, which fetches the map once, and for a call with a map
\* of its own, whatever happens to the default meanwhile.
OneClusterOneAnswer ==
    \A c \in Calls :
        LET f == function[c]
            t == table[c]
        IN  /\ kind[c] = "ingestion" \/ own[c] # NoMap
            /\ f # NotYet /\ t # NotYet
            /\ SameCluster(f.host, t.host) /\ f.database = t.database
            => f.target = t.target

=============================================================================
