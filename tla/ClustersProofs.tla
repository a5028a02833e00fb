--------------------------- MODULE ClustersProofs ---------------------------
(***************************************************************************)
(* Proofs about cluster maps: the spellings of a host are exactly the      *)
(* hosts of its cluster, a map that is accepted answers each of them       *)
(* alike, and so does every map that is ever in force.  A map is refused   *)
(* for a real conflict only, what it resolves was given for that cluster,  *)
(* and a call that resolves twice by one map gets one answer.              *)
(***************************************************************************)
EXTENDS Clusters, TLAPS

-----------------------------------------------------------------------------
(* The operators of ClusterMap. *)

\* The host as written and its other spelling are all the hosts that share its
\* fully qualified name: no pair a lookup could confuse escapes the conflict
\* check, which groups by that name.  (_spellings: "this returns precisely the
\* hosts sharing one cluster_fqdn".)
THEOREM SpellingsAreTheCluster ==
    ASSUME NEW h \in Hosts
    PROVE  {h, Other(h)} = {g \in Hosts : SameCluster(g, h)}
<1>1. Other(h) \in Hosts /\ SameCluster(Other(h), h)
  BY DEF Other, SameCluster, Hosts, Fqdn, IsBare, Short
<1>2. ASSUME NEW g \in Hosts, SameCluster(g, h)
      PROVE  g \in {h, Other(h)}
  <2>1. g.name = h.name /\ g.name \in Names /\ g.suffixed \in BOOLEAN /\ h.suffixed \in BOOLEAN
    BY <1>2 DEF SameCluster, Hosts, Fqdn, IsBare
  <2>2. g = [name |-> h.name, suffixed |-> g.suffixed] /\ h = [name |-> h.name, suffixed |-> h.suffixed]
    BY <2>1 DEF Hosts
  <2>3. CASE g.suffixed = h.suffixed
    BY <2>2, <2>3
  <2>4. CASE g.suffixed /\ ~h.suffixed
    BY <1>2, <2>1, <2>2, <2>4 DEF Other, SameCluster, Hosts, Fqdn, IsBare, Short
  <2>5. CASE ~g.suffixed /\ h.suffixed
    BY <1>2, <2>1, <2>2, <2>5 DEF Other, SameCluster, Hosts, Fqdn, IsBare, Short
  <2> QED
    BY <2>1, <2>3, <2>4, <2>5
<1>3. SameCluster(h, h)
  BY DEF SameCluster
<1> QED
  BY <1>1, <1>2, <1>3

\* Parsing yields a map, whatever was written.
LEMMA ParsedType ==
    ASSUME NEW es, es \in Seq(Entries)
    PROVE  Parsed(es) \in Maps
<1>1. ASSUME NEW k \in Keys, Last(es, k) # {}
      PROVE  es[CHOOSE i \in Last(es, k) : TRUE].target \in Targets
  <2>1. (CHOOSE i \in Last(es, k) : TRUE) \in DOMAIN es
    BY <1>1 DEF Last
  <2>2. \A i \in DOMAIN es : es[i] \in Entries
    OBVIOUS
  <2> QED
    BY <2>1, <2>2 DEF Entries
<1> QED
  BY <1>1 DEF Parsed, Maps

\* A parsed map without a conflict resolves the two spellings of a cluster to
\* one database, or refuses both.
THEOREM AcceptedMapsIgnoreSpelling ==
    ASSUME NEW m \in Maps, ~Conflicting(m),
           NEW g \in Hosts, NEW h \in Hosts, NEW d \in Databases,
           SameCluster(g, h)
    PROVE  Resolve(m, g, d) = Resolve(m, h, d)
<1>1. CASE g = h
  BY <1>1
<1>2. CASE g # h
  <2>1. g = Other(h)
    BY <1>2, SpellingsAreTheCluster
  <2>2. h = Other(g)
    <3>1. SameCluster(h, g)
      BY DEF SameCluster
    <3> QED
      BY <1>2, <3>1, SpellingsAreTheCluster
  <2>3. m # NoMap
    BY NoMapAssumption
  <2>4. m[<<g, d>>] = Nowhere \/ m[<<h, d>>] = Nowhere \/ m[<<g, d>>] = m[<<h, d>>]
    BY DEF Conflicting
  <2> QED
    BY <2>1, <2>2, <2>3, <2>4 DEF Resolve
<1> QED
  BY <1>1, <1>2

LEMMA NoMapRefuses ==
    ASSUME NEW h, NEW d
    PROVE  Resolve(NoMap, h, d) = Nowhere
BY DEF Resolve

-----------------------------------------------------------------------------
(* The state machine. *)

\* A map in force is none, or one that parsed without a conflict.
InForce(m) == m = NoMap \/ (m \in Maps /\ ~Conflicting(m))

IInv == InForce(default) /\ \A c \in Calls : InForce(own[c])

OwnType == DOMAIN own = Calls

LEMMA AcceptedInForce ==
    ASSUME NEW es \in Given, Accepted(es)
    PROVE  InForce(Parsed(es))
BY GivenAssumption, ParsedType DEF InForce, Accepted

LEMMA InitInForce == Init => IInv /\ OwnType
BY DEF Init, IInv, OwnType, InForce

LEMMA StepInForce ==
    ASSUME IInv, OwnType, [Next]_vars
    PROVE  IInv' /\ OwnType'
<1>1. ASSUME NEW es \in Given, SetClusters(es)
      PROVE  IInv' /\ OwnType'
  <2>1. InForce(default')
    BY <1>1, AcceptedInForce DEF SetClusters, IInv
  <2> QED
    BY <1>1, <2>1 DEF SetClusters, call, IInv, OwnType, InForce
<1>2. CASE ClearClusters
  BY <1>2 DEF ClearClusters, call, IInv, OwnType, InForce
<1>3. ASSUME NEW c \in Calls, Begin(c)
      PROVE  IInv' /\ OwnType'
  <2>1. CASE UNCHANGED own
    BY <1>3, <2>1 DEF Begin, IInv, OwnType, InForce
  <2>2. ASSUME NEW es \in Given,
               own' = [own EXCEPT ![c] = IF Accepted(es) THEN Parsed(es) ELSE NoMap]
        PROVE  IInv' /\ OwnType'
    <3>1. InForce(own'[c])
      BY <2>2, AcceptedInForce DEF OwnType, InForce
    <3>2. \A b \in Calls \ {c} : own'[b] = own[b]
      BY <2>2 DEF OwnType
    <3>3. default' = default
      BY <1>3 DEF Begin
    <3> QED
      BY <2>2, <3>1, <3>2, <3>3 DEF IInv, OwnType, InForce
  <2> QED
    BY <1>3, <2>1, <2>2 DEF Begin
<1>4. ASSUME NEW c \in Calls, Lower(c) \/ Qualify(c)
      PROVE  IInv' /\ OwnType'
  BY <1>4 DEF Lower, Qualify, IInv, OwnType, InForce
<1>5. CASE UNCHANGED vars
  BY <1>5 DEF vars, IInv, OwnType, InForce
<1> QED
  BY <1>1, <1>2, <1>3, <1>4, <1>5 DEF Next

LEMMA InForceIgnoresSpelling == IInv => SpellingNeverMatters
<1> SUFFICES ASSUME IInv,
                    NEW m \in {default} \cup {own[c] : c \in Calls},
                    NEW g \in Hosts, NEW h \in Hosts, NEW d \in Databases,
                    SameCluster(g, h)
             PROVE  Resolve(m, g, d) = Resolve(m, h, d)
  BY DEF SpellingNeverMatters
<1>1. InForce(m)
  BY DEF IInv
<1>2. CASE m = NoMap
  BY <1>2, NoMapRefuses
<1>3. CASE m \in Maps /\ ~Conflicting(m)
  BY <1>3, AcceptedMapsIgnoreSpelling
<1> QED
  BY <1>1, <1>2, <1>3 DEF InForce

\* However many maps are set, cleared and passed, by however many threads, an
\* answer never depends on how a query spells a cluster.
THEOREM SpellingNeverMattersAlways == Spec => []SpellingNeverMatters
<1>1. Init => IInv /\ OwnType
  BY InitInForce
<1>2. (IInv /\ OwnType) /\ [Next]_vars => (IInv /\ OwnType)'
  BY StepInForce
<1>3. IInv /\ OwnType => SpellingNeverMatters
  BY InForceIgnoresSpelling
<1> QED
  BY <1>1, <1>2, <1>3, PTL DEF Spec

-----------------------------------------------------------------------------
(* What the maps in force were made from, and what calls resolved by them. *)

\* The default is what the last accepted map parsed to; what was refused had
\* a conflict.
AttemptInv ==
    /\ refused => attempt \in Given /\ ~Accepted(attempt)
    /\ default # NoMap /\ ~refused =>
           attempt \in Given /\ default = Parsed(attempt)

\* A reference has not been resolved yet, or it was by the map m.
By(m, r) == r # NotYet => r.target = Resolve(m, r.host, r.database)

\* A call resolves its references by its own map, or, when it is an ingestion
\* command, by the one it fetched.
CallInv(c) ==
    /\ pc[c] \in {"idle", "lowering"} => function[c] = NotYet
    /\ pc[c] # "ended" => table[c] = NotYet
    /\ InForce(fetched[c])
    /\ kind[c] = "ingestion" => By(fetched[c], function[c]) /\ By(fetched[c], table[c])
    /\ own[c] # NoMap => By(own[c], function[c]) /\ By(own[c], table[c])
    /\ own[c] # NoMap /\ pc[c] = "qualifying" => fetched[c] = own[c]

CInv == TypeOK /\ IInv /\ AttemptInv /\ \A c \in Calls : CallInv(c)

\* What a parsed map holds is an entry of what was written.
LEMMA ParsedFrom ==
    ASSUME NEW es, NEW h \in Hosts, NEW d \in Databases,
           Parsed(es)[<<h, d>>] # Nowhere
    PROVE  \E i \in DOMAIN es : /\ es[i].host = h /\ es[i].database = d
                                /\ es[i].target = Parsed(es)[<<h, d>>]
<1> DEFINE k == <<h, d>>
           i == CHOOSE i \in Last(es, k) : TRUE
<1>1. k \in Keys
  BY DEF Keys
<1>2. Last(es, k) # {} /\ Parsed(es)[k] = es[i].target
  BY <1>1 DEF Parsed
<1>3. i \in DOMAIN es /\ Key(es[i]) = k
  BY <1>2 DEF Last
<1> QED
  BY <1>2, <1>3 DEF Key

LEMMA ResolveType ==
    ASSUME NEW m \in Maps \cup {NoMap}, NEW h \in Hosts, NEW d \in Databases
    PROVE  Resolve(m, h, d) \in Targets \cup {Nowhere}
<1>1. Other(h) \in Hosts
  BY DEF Other, Hosts, Fqdn, IsBare, Short
<1> QED
  BY <1>1 DEF Resolve, Maps, Keys

LEMMA EffectiveType ==
    ASSUME CInv, NEW c \in Calls
    PROVE  Effective(c) \in Maps \cup {NoMap} /\ InForce(Effective(c))
BY DEF CInv, IInv, TypeOK, Effective

LEMMA SetClustersKeeps ==
    ASSUME CInv, NEW es \in Given, SetClusters(es)
    PROVE  TypeOK' /\ AttemptInv' /\ \A c \in Calls : CallInv(c)'
<1>1. es \in Seq(Entries)
  BY GivenAssumption
<1>2. Parsed(es) \in Maps
  BY <1>1, ParsedType
<1>3. TypeOK'
  BY <1>2 DEF CInv, TypeOK, SetClusters, call
<1>4. AttemptInv'
  BY DEF CInv, AttemptInv, SetClusters
<1>5. \A c \in Calls : CallInv(c)'
  BY DEF CInv, CallInv, SetClusters, call
<1> QED
  BY <1>3, <1>4, <1>5

LEMMA BeginKeeps ==
    ASSUME CInv, NEW c \in Calls, Begin(c)
    PROVE  TypeOK' /\ AttemptInv' /\ \A b \in Calls : CallInv(b)'
<1>1. /\ TypeOK /\ pc[c] = "idle" /\ kind' \in [Calls -> {"query", "ingestion"}]
      /\ \A b \in Calls \ {c} : kind'[b] = kind[b]
  BY DEF CInv, TypeOK, Begin
<1>2. /\ pc'[c] \in {"lowering", "ended"} /\ pc' \in [Calls -> {"idle", "lowering", "qualifying", "ended"}]
      /\ \A b \in Calls \ {c} : pc'[b] = pc[b]
  <2>1. pc \in [Calls -> {"idle", "lowering", "qualifying", "ended"}]
    BY <1>1 DEF TypeOK
  <2>2. PICK p \in {"lowering", "ended"} : pc' = [pc EXCEPT ![c] = p]
    BY DEF Begin
  <2> QED
    BY <2>1, <2>2
<1>3. own' \in [Calls -> Maps \cup {NoMap}] /\ \A b \in Calls \ {c} : own'[b] = own[b]
  <2>1. CASE UNCHANGED own
    BY <1>1, <2>1 DEF TypeOK
  <2>2. ASSUME NEW es \in Given,
               own' = [own EXCEPT ![c] = IF Accepted(es) THEN Parsed(es) ELSE NoMap]
        PROVE  own' \in [Calls -> Maps \cup {NoMap}] /\ \A b \in Calls \ {c} : own'[b] = own[b]
    <3>1. Parsed(es) \in Maps
      BY GivenAssumption, ParsedType
    <3> QED
      BY <1>1, <2>2, <3>1 DEF TypeOK
  <2> QED
    BY <2>1, <2>2 DEF Begin
<1>4. UNCHANGED <<default, attempt, refused, fetched, function, table>>
  BY DEF Begin
<1>5. TypeOK'
  BY <1>1, <1>2, <1>3, <1>4 DEF TypeOK
<1>6. AttemptInv'
  BY <1>4 DEF CInv, AttemptInv
<1>7. ASSUME NEW b \in Calls PROVE CallInv(b)'
  <2>1. CASE b = c
    <3>1. function'[c] = NotYet /\ table'[c] = NotYet
      BY <1>1, <1>4 DEF CInv, CallInv
    <3> QED
      BY <1>2, <1>4, <2>1, <3>1 DEF CInv, CallInv, By, InForce
  <2>2. CASE b # c
    BY <1>1, <1>2, <1>3, <1>4, <2>2 DEF CInv, CallInv, By, InForce
  <2> QED
    BY <2>1, <2>2
<1> QED
  BY <1>5, <1>6, <1>7

LEMMA LowerKeeps ==
    ASSUME CInv, NEW c \in Calls, Lower(c)
    PROVE  TypeOK' /\ AttemptInv' /\ \A b \in Calls : CallInv(b)'
<1> DEFINE m == Effective(c)
<1>1. TypeOK /\ pc[c] = "lowering" /\ m \in Maps \cup {NoMap} /\ InForce(m)
  BY EffectiveType DEF CInv, Lower
<1>2. UNCHANGED <<default, attempt, refused, kind, own, table>> /\ fetched' = [fetched EXCEPT ![c] = m]
  BY DEF Lower
<1>3. PICK p \in {"qualifying", "ended"} : pc' = [pc EXCEPT ![c] = p]
  BY DEF Lower
<1>4. PICK r \in References : function' = [function EXCEPT ![c] = r] /\ By(m, r)
  <2>1. CASE UNCHANGED function
    <3>1. function[c] = NotYet
      BY <1>1 DEF CInv, CallInv
    <3>2. function' = [function EXCEPT ![c] = NotYet]
      BY <1>1, <2>1, <3>1 DEF TypeOK
    <3> QED
      BY <3>2 DEF References, By
  <2>2. ASSUME NEW h \in Hosts, NEW d \in Databases,
               function' = [function EXCEPT ![c] =
                               [host |-> h, database |-> d, target |-> Resolve(m, h, d)]]
        PROVE  \E r \in References : function' = [function EXCEPT ![c] = r] /\ By(m, r)
    <3>1. Resolve(m, h, d) \in Targets \cup {Nowhere}
      BY <1>1, ResolveType
    <3>2. [host |-> h, database |-> d, target |-> Resolve(m, h, d)] \in References
      BY <3>1 DEF References
    <3>3. By(m, [host |-> h, database |-> d, target |-> Resolve(m, h, d)])
      BY DEF By
    <3> QED
      BY <2>2, <3>2, <3>3
  <2> QED
    BY <2>1, <2>2 DEF Lower
<1>5. TypeOK'
  BY <1>1, <1>2, <1>3, <1>4 DEF TypeOK
<1>6. AttemptInv'
  BY <1>2 DEF CInv, AttemptInv
<1>7. ASSUME NEW b \in Calls PROVE CallInv(b)'
  <2>1. CASE b = c
    <3>1. pc'[c] = p /\ fetched'[c] = m /\ function'[c] = r /\ table'[c] = NotYet
      BY <1>1, <1>2, <1>3, <1>4 DEF CInv, CallInv, TypeOK
    <3>2. own[c] # NoMap => m = own[c]
      BY DEF Effective
    <3>3. By(m, NotYet)
      BY DEF By
    <3> HIDE DEF m
    <3> QED
      BY <1>1, <1>2, <1>4, <2>1, <3>1, <3>2, <3>3 DEF CallInv, InForce
  <2>2. CASE b # c
    <3>1. pc'[b] = pc[b] /\ fetched'[b] = fetched[b] /\ function'[b] = function[b]
      BY <1>1, <1>2, <1>3, <1>4, <2>2 DEF TypeOK
    <3> QED
      BY <1>2, <3>1 DEF CInv, CallInv, By, InForce
  <2> QED
    BY <2>1, <2>2
<1> QED
  BY <1>5, <1>6, <1>7

LEMMA QualifyKeeps ==
    ASSUME CInv, NEW c \in Calls, Qualify(c)
    PROVE  TypeOK' /\ AttemptInv' /\ \A b \in Calls : CallInv(b)'
<1> DEFINE m == IF kind[c] = "ingestion" THEN fetched[c] ELSE Effective(c)
<1>1. TypeOK /\ pc[c] = "qualifying" /\ m \in Maps \cup {NoMap} /\ CallInv(c)
  BY EffectiveType DEF CInv, Qualify, TypeOK
<1>2. UNCHANGED <<default, attempt, refused, kind, own, fetched, function>>
      /\ pc' = [pc EXCEPT ![c] = "ended"]
  BY DEF Qualify
<1>3. PICK h \in Hosts, d \in Databases :
        table' = [table EXCEPT ![c] =
                     [host |-> h, database |-> d, target |-> Resolve(m, h, d)]]
  BY DEF Qualify
<1> DEFINE r == [host |-> h, database |-> d, target |-> Resolve(m, h, d)]
<1>4. r \in References /\ By(m, r)
  <2>1. Resolve(m, h, d) \in Targets \cup {Nowhere}
    BY <1>1, ResolveType
  <2> QED
    BY <2>1 DEF References, By
<1>5. TypeOK'
  BY <1>1, <1>2, <1>3, <1>4 DEF TypeOK
<1>6. AttemptInv'
  BY <1>2 DEF CInv, AttemptInv
<1>7. ASSUME NEW b \in Calls PROVE CallInv(b)'
  <2>1. CASE b = c
    <3>1. pc'[c] = "ended" /\ table'[c] = r
      BY <1>1, <1>2, <1>3 DEF TypeOK
    <3>2. own[c] # NoMap => m = own[c]
      BY <1>1 DEF CallInv, Effective
    <3>3. kind[c] = "ingestion" => m = fetched[c]
      OBVIOUS
    <3> HIDE DEF m, r
    <3> QED
      BY <1>1, <1>2, <1>4, <2>1, <3>1, <3>2, <3>3 DEF CallInv, InForce
  <2>2. CASE b # c
    <3>1. pc'[b] = pc[b] /\ table'[b] = table[b]
      BY <1>1, <1>2, <1>3, <2>2 DEF TypeOK
    <3> QED
      BY <1>2, <3>1 DEF CInv, CallInv, By, InForce
  <2> QED
    BY <2>1, <2>2
<1> QED
  BY <1>5, <1>6, <1>7

LEMMA InitCInv == Init => CInv
<1> SUFFICES ASSUME Init PROVE CInv
  OBVIOUS
<1>1. IInv
  BY InitInForce
<1>2. TypeOK /\ AttemptInv
  BY DEF Init, TypeOK, AttemptInv, References
<1>3. \A c \in Calls : CallInv(c)
  BY DEF Init, CallInv, By, InForce
<1> QED
  BY <1>1, <1>2, <1>3 DEF CInv

LEMMA StepCInv == CInv /\ [Next]_vars => CInv'
<1> SUFFICES ASSUME CInv, [Next]_vars
             PROVE  CInv'
  OBVIOUS
<1>1. ASSUME NEW es \in Given, SetClusters(es)
      PROVE  TypeOK' /\ AttemptInv' /\ \A c \in Calls : CallInv(c)'
  BY <1>1, SetClustersKeeps
<1>2. ASSUME ClearClusters
      PROVE  TypeOK' /\ AttemptInv' /\ \A c \in Calls : CallInv(c)'
  BY <1>2 DEF ClearClusters, call, CInv, TypeOK, AttemptInv, CallInv, By, InForce
<1>3. ASSUME NEW c \in Calls, Begin(c)
      PROVE  TypeOK' /\ AttemptInv' /\ \A b \in Calls : CallInv(b)'
  BY <1>3, BeginKeeps
<1>4. ASSUME NEW c \in Calls, Lower(c)
      PROVE  TypeOK' /\ AttemptInv' /\ \A b \in Calls : CallInv(b)'
  BY <1>4, LowerKeeps
<1>5. ASSUME NEW c \in Calls, Qualify(c)
      PROVE  TypeOK' /\ AttemptInv' /\ \A b \in Calls : CallInv(b)'
  BY <1>5, QualifyKeeps
<1>6. ASSUME UNCHANGED vars
      PROVE  TypeOK' /\ AttemptInv' /\ \A c \in Calls : CallInv(c)'
  BY <1>6 DEF vars, CInv, TypeOK, AttemptInv, CallInv, By, InForce
<1>7. IInv'
  <2>1. IInv /\ OwnType
    BY DEF CInv, TypeOK, OwnType
  <2> QED
    BY <2>1, StepInForce
<1> QED
  BY <1>1, <1>2, <1>3, <1>4, <1>5, <1>6, <1>7 DEF Next, CInv

LEMMA Invariance == Spec => []CInv
BY InitCInv, StepCInv, PTL DEF Spec

\* Whatever maps are set, refused and passed, what is in force is a parsed map
\* and what is resolved is a database or a refusal.
THEOREM TypeCorrect == Spec => []TypeOK
<1>1. CInv => TypeOK
  BY DEF CInv
<1> QED
  BY <1>1, Invariance, PTL

\* A refused map really holds two entries that name one cluster and database
\* and disagree: normalization never makes up a conflict.
THEOREM RefusalsAreReal == Spec => []RefusalIsReal
<1>1. CInv => RefusalIsReal
  <2> SUFFICES ASSUME CInv, refused
               PROVE  \E i, j \in DOMAIN attempt :
                         /\ SameCluster(attempt[i].host, attempt[j].host)
                         /\ attempt[i].database = attempt[j].database
                         /\ attempt[i].target # attempt[j].target
    BY DEF RefusalIsReal
  <2> DEFINE m == Parsed(attempt)
  <2>1. Conflicting(m)
    BY DEF CInv, AttemptInv, Accepted
  <2>2. PICK g \in Hosts, h \in Hosts, d \in Databases :
            /\ SameCluster(g, h)
            /\ m[<<g, d>>] # Nowhere /\ m[<<h, d>>] # Nowhere
            /\ m[<<g, d>>] # m[<<h, d>>]
    BY <2>1 DEF Conflicting
  <2>3. PICK i \in DOMAIN attempt : /\ attempt[i].host = g /\ attempt[i].database = d
                                    /\ attempt[i].target = m[<<g, d>>]
    BY <2>2, ParsedFrom
  <2>4. PICK j \in DOMAIN attempt : /\ attempt[j].host = h /\ attempt[j].database = d
                                    /\ attempt[j].target = m[<<h, d>>]
    BY <2>2, ParsedFrom
  <2> QED
    BY <2>2, <2>3, <2>4
<1> QED
  BY <1>1, Invariance, PTL

\* What a map resolves it was given for that cluster and database, in one of
\* its spellings, and a call with a map of its own is answered from it alone.
THEOREM NeverGuesses == Spec => []NeverGuessed
<1>1. CInv => NeverGuessed
  <2> SUFFICES ASSUME CInv PROVE NeverGuessed
    OBVIOUS
  <2>1. ASSUME default # NoMap, ~refused, NEW h \in Hosts, NEW d \in Databases,
               Resolve(default, h, d) # Nowhere
        PROVE  \E i \in DOMAIN attempt :
                   /\ SameCluster(attempt[i].host, h)
                   /\ attempt[i].database = d
                   /\ attempt[i].target = Resolve(default, h, d)
    <3>1. default = Parsed(attempt)
      BY <2>1 DEF CInv, AttemptInv
    <3>2. PICK g \in {h, Other(h)} : Resolve(default, h, d) = default[<<g, d>>]
      BY <2>1 DEF Resolve
    <3>3. g \in Hosts /\ SameCluster(g, h)
      BY SpellingsAreTheCluster
    <3>4. PICK i \in DOMAIN attempt : /\ attempt[i].host = g /\ attempt[i].database = d
                                      /\ attempt[i].target = default[<<g, d>>]
      BY <2>1, <3>1, <3>2, <3>3, ParsedFrom
    <3> QED
      BY <3>2, <3>3, <3>4
  <2>2. ASSUME NEW c \in Calls, own[c] # NoMap,
               NEW r \in {function[c], table[c]} \ {NotYet}
        PROVE  r.target = Resolve(own[c], r.host, r.database)
    BY <2>2 DEF CInv, CallInv, By
  <2> QED
    BY <2>1, <2>2 DEF NeverGuessed
<1> QED
  BY <1>1, Invariance, PTL

\* An ingestion command, or a call with a map of its own, never answers one
\* cluster and database from two places, whatever threads do to the default.
THEOREM OneAnswer == Spec => []OneClusterOneAnswer
<1>1. CInv => OneClusterOneAnswer
  <2> SUFFICES ASSUME CInv, NEW c \in Calls,
                      kind[c] = "ingestion" \/ own[c] # NoMap,
                      function[c] # NotYet, table[c] # NotYet,
                      SameCluster(function[c].host, table[c].host),
                      function[c].database = table[c].database
               PROVE  function[c].target = table[c].target
    BY DEF OneClusterOneAnswer
  <2>1. PICK m : InForce(m) /\ By(m, function[c]) /\ By(m, table[c])
    BY DEF CInv, CallInv, IInv
  <2>2. /\ function[c].host \in Hosts /\ table[c].host \in Hosts
        /\ function[c].database \in Databases
    BY DEF CInv, TypeOK, References
  <2>3. Resolve(m, function[c].host, function[c].database)
            = Resolve(m, table[c].host, table[c].database)
    <3>1. CASE m = NoMap
      BY <3>1, NoMapRefuses
    <3>2. CASE m # NoMap
      BY <2>1, <2>2, <3>2, AcceptedMapsIgnoreSpelling DEF InForce
    <3> QED
      BY <3>1, <3>2
  <2> QED
    BY <2>1, <2>3 DEF By
<1> QED
  BY <1>1, Invariance, PTL
=============================================================================
