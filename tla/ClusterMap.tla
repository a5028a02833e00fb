----------------------------- MODULE ClusterMap -----------------------------
(***************************************************************************)
(* Cluster maps (clusters.py): which local DuckDB database stands in for a *)
(* Kusto cluster and database.  A host is a name, with or without the      *)
(* suffix ".kusto.windows.net" behind it; some names, the bare ones, are   *)
(* completed by the suffix, so that name and completed name are one        *)
(* cluster, and the others (localhost, an address, a Kusto domain) are     *)
(* not.  A caller writes a host in one of several styles (scheme, letter   *)
(* case, trailing slash, flat or nested entry), which normalization drops. *)
(***************************************************************************)
EXTENDS Naturals, Sequences

CONSTANTS
    Names,      \* host names, none of which ends in a suffix that Hosts adds
    Bare,       \* those that a cluster completes with its suffix
    Styles,     \* the ways of writing a host that normalize to it
    Databases,
    Targets,    \* DuckDB databases
    Nowhere,    \* no target: a reference that is refused
    NoMap       \* no map at all

ASSUME BareAssumption    == Bare \subseteq Names
ASSUME NowhereAssumption == Nowhere \notin Targets

Hosts == [name : Names, suffixed : BOOLEAN]

\* _is_bare_cluster_name: a completed name has "kusto" among its labels.
IsBare(h) == ~h.suffixed /\ h.name \in Bare

\* cluster_fqdn
Fqdn(h) == IF IsBare(h) THEN [h EXCEPT !.suffixed = TRUE] ELSE h

Short(h) == [h EXCEPT !.suffixed = FALSE]

\* Mutant: the suffix is stripped from any name, completed or not.
OtherStripsAny(h) == IF IsBare(h) THEN Fqdn(h) ELSE Short(h)

\* _spellings, after the host as written: its other spelling, itself if none.
Other(h) ==
    IF IsBare(h) THEN Fqdn(h)
    ELSE IF Fqdn(Short(h)) = h THEN Short(h) ELSE h

SameCluster(g, h) == Fqdn(g) = Fqdn(h)

-----------------------------------------------------------------------------
(* A map as the caller writes it: a dictionary, in its order, whose keys are *)
(* different as written.                                                     *)

Entries == [host : Hosts, style : Styles, database : Databases, target : Targets]

Distinct(es) ==
    \A i, j \in DOMAIN es :
        i # j => \/ es[i].host # es[j].host
                 \/ es[i].style # es[j].style
                 \/ es[i].database # es[j].database

Keys == Hosts \X Databases

Key(e) == <<e.host, e.database>>

\* A parsed map, Nowhere for what is not in it.
Maps == [Keys -> Targets \cup {Nowhere}]

ASSUME NoMapAssumption == NoMap \notin Maps

Last(es, k) ==
    {i \in DOMAIN es : /\ Key(es[i]) = k
                       /\ \A j \in DOMAIN es : Key(es[j]) = k => j <= i}

\* `out[(host, database)] = name`: an entry replaces an earlier one that
\* normalizes to the same key.
Parsed(es) ==
    [k \in Keys |-> IF Last(es, k) = {} THEN Nowhere
                    ELSE es[CHOOSE i \in Last(es, k) : TRUE].target]

\* Mutant: only keys that are the same host are compared.
ConflictingHosts(m) ==
    \E g, h \in Hosts, d \in Databases :
        /\ g = h
        /\ m[<<g, d>>] # Nowhere /\ m[<<h, d>>] # Nowhere
        /\ m[<<g, d>>] # m[<<h, d>>]

\* Mutant: agreeing spellings are refused too.
ConflictingAlways(m) ==
    \E g, h \in Hosts, d \in Databases :
        /\ SameCluster(g, h) /\ g # h
        /\ m[<<g, d>>] # Nowhere /\ m[<<h, d>>] # Nowhere

\* _refuse_aliased_conflicts
Conflicting(m) ==
    \E g, h \in Hosts, d \in Databases :
        /\ SameCluster(g, h)
        /\ m[<<g, d>>] # Nowhere /\ m[<<h, d>>] # Nowhere
        /\ m[<<g, d>>] # m[<<h, d>>]

\* parse_cluster_map returns and does not raise.
Accepted(es) == ~Conflicting(Parsed(es))

\* resolve: the host as written first, then its other spelling.
Resolve(m, h, d) ==
    CASE m = NoMap                             -> Nowhere
      [] m # NoMap /\ m[<<h, d>>] # Nowhere    -> m[<<h, d>>]
      [] m # NoMap /\ m[<<h, d>>] = Nowhere    -> m[<<Other(h), d>>]
=============================================================================
