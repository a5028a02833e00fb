---------------------------- MODULE ScopesProofs ----------------------------
(***************************************************************************)
(* What a rendered statement's names are answered from is what Kusto means *)
(* by them, whatever the statement, the functions that are registered and  *)
(* the bounds: Faithful, LetsAreNotRecaptured and TypeOK of Scopes hold in *)
(* every behavior.                                                         *)
(*                                                                         *)
(* The properties speak of the end, after three passes; the invariant says *)
(* at each step what the passes to come will find.  Its parts: the queries *)
(* are a tree, numbered outside in (Tree), and a let is bound in the query *)
(* it is inside (Placement); the bodies being lowered are a path of it, of *)
(* distinct calls (Stacked); their own queries and what is pending in them *)
(* are bound nowhere yet (Pending), and nothing else inside them is unbound*)
(* (Kept); the lets in scope are the lets bound in those queries (Scoped), *)
(* what a scalar let read is among them (ScalarsHeld); an expression just  *)
(* lowered means what its name means (Valued); and a read that was placed  *)
(* sees the let it means and nothing of that name further in, or sees no   *)
(* let and has its database or waits for the body that gives it (Read).    *)
(***************************************************************************)
EXTENDS Scopes, WellFoundedInduction, FiniteSetTheorems, TLAPS

-----------------------------------------------------------------------------
(* The inductive invariant.                                                *)

\* The types of a meaning, a reference, a query and a body.
MeansType == ({"let"} \X Nat) \cup ({"table", "function"} \X Databases \X Names)
RefType == [node : Nat \cup {None}, name : Names \cup Nat, db : Databases \cup {None},
            via : Ways, reached : BOOLEAN, means : MeansType]
NodeType == [name : Names \cup Nat \cup {None}, key : Functions \cup {NoCall}, chain : SUBSET Nat]
DeclaredType == UNION {[D -> Nat \cup {None}] : D \in SUBSET (Names \cup Scalars)}
BodyType == [node : Nat, key : Functions \cup {NoCall}, via : Ways, means : MeansType \cup {None},
             pending : Seq(Nat), declared : DeclaredType, visible : SUBSET Names,
             scalars : [Scalars -> SUBSET RefType], context : Databases]

\* The types of the state.
Types ==
    /\ nodes \in Seq(NodeType)
    /\ lets \in Seq(Seq(Nat))
    /\ Len(lets) = Len(nodes)
    /\ reads \in SUBSET RefType
    /\ \A r \in reads : r.node \in DOMAIN nodes
    /\ stack \in Seq(BodyType)
    /\ Len(stack) >= 1
    /\ visible \in SUBSET Names
    /\ scalars \in [Scalars -> SUBSET RefType]
    /\ context \in Databases
    /\ value \in SUBSET RefType
    /\ phase \in {"lowering", "qualifying", "lowered", "rendered", "refused"}

\* A body is being lowered, or qualified.
Working == phase \in {"lowering", "qualifying"}

\* *c* is the next query inside *q*.
IsChild(N, c, q) ==
    /\ c \in DOMAIN N /\ q \in DOMAIN N /\ q < c
    /\ N[c].chain = N[q].chain \cup {c}

\* The queries around one are numbered before it, and are around each other.
Tree ==
    \A q \in DOMAIN nodes :
        /\ nodes[q].chain \subseteq 1..q /\ q \in nodes[q].chain /\ 1 \in nodes[q].chain
        /\ \A p \in nodes[q].chain : nodes[p].chain = {c \in nodes[q].chain : c <= p}
        /\ nodes[q].name \in Names \cup {None, q}
        /\ nodes[q].key # NoCall => nodes[q].name = q

\* A let is bound in the query it is inside.
Placement ==
    \A q \in DOMAIN lets : \A c \in Range(lets[q]) : IsChild(nodes, c, q) /\ nodes[c].name # None

\* The database of the *i*-th body's text.
ContextOf(s, i) == IF s[i].key = NoCall THEN Home ELSE s[i].key[1]

\* The bodies being lowered are a path of queries, of distinct calls.
Stacked ==
    /\ stack[1].key = NoCall /\ stack[1].node = 1
    /\ \A i \in DOMAIN stack :
        /\ stack[i].node \in DOMAIN nodes
        /\ nodes[stack[i].node].key = stack[i].key
        /\ nodes[stack[i].node].chain = {stack[k].node : k \in 1..i}
        /\ i > 1 => /\ IsChild(nodes, stack[i].node, stack[i - 1].node)
                    /\ stack[i].key \in Functions
                    /\ stack[i].via = "direct"
                    /\ stack[i].means = <<"function", stack[i].key[1], stack[i].key[2]>>
                    /\ stack[i].context = ContextOf(stack, i - 1)
    /\ \A i, j \in DOMAIN stack : i < j => stack[i].node < stack[j].node
    /\ \A i, j \in DOMAIN stack : stack[i].key = stack[j].key => i = j
    /\ context = ContextOf(stack, Len(stack))

\* No query binds *c*.
Unplaced(L, c) == \A q \in DOMAIN L : c \notin Range(L[q])

\* The bodies, and the calls pending in them, are bound nowhere yet.
Pending ==
    Working =>
        /\ \A i \in DOMAIN stack : Unplaced(lets, stack[i].node)
        /\ \A i \in DOMAIN stack : \A c \in Range(stack[i].pending) :
              /\ IsChild(nodes, c, stack[i].node) /\ nodes[c].key # NoCall
              /\ Unplaced(lets, c)
              /\ \A j \in DOMAIN stack : c # stack[j].node

\* The lets in scope of the *i*-th body.
InScope(s, n, i) == \E k \in 1..i : n \in DOMAIN s[k].declared

\* A macro-expand heads the query being lowered: its first let is placed.
HeadsMacro == \E r \in value : r.via = "macro"

\* The tabular lets in scope are those bound in the bodies' queries.
Scoped ==
    /\ visible = {n \in Names : InScope(stack, n, Len(stack))}
    /\ \A i \in DOMAIN stack : i > 1 => stack[i].visible = {n \in Names : InScope(stack, n, i - 1)}
    /\ \A i \in DOMAIN stack : \A n \in DOMAIN stack[i].declared \cap Names :
          /\ stack[i].declared[n] \in Range(lets[stack[i].node])
          /\ nodes[stack[i].declared[n]].name = n
    /\ Working => \A i \in DOMAIN stack : \A c \in Range(lets[stack[i].node]) :
          nodes[c].name \in Names =>
              \/ nodes[c].name \in DOMAIN stack[i].declared /\ stack[i].declared[nodes[c].name] = c
              \/ i = Len(stack) /\ HeadsMacro

\* Where the queries inside one that is being lowered are.
Kept ==
    Working => \A i \in DOMAIN stack : \A c \in DOMAIN nodes : IsChild(nodes, c, stack[i].node) =>
        \/ c \in Range(lets[stack[i].node])
        \/ c \in Range(stack[i].pending)
        \/ i < Len(stack) /\ c = stack[i + 1].node
        \/ i = Len(stack) /\ HeadsMacro /\ nodes[c].name = None

\* What a scalar let's toscalar read is still in scope.
ScalarRead(s, r, i) ==
    /\ r.via = "scalar"
    /\ r.means[1] = "let" =>
        /\ r.db = None /\ r.name \in Names
        /\ \E k \in 1..i : /\ r.name \in DOMAIN s[k].declared
                           /\ s[k].declared[r.name] = r.means[2]

\* Of the scalars in scope, and of those a body's end restores.
ScalarsHeld ==
    /\ \A x \in Scalars : \A r \in scalars[x] : ScalarRead(stack, r, Len(stack))
    /\ \A i \in DOMAIN stack : \A x \in Scalars : \A r \in stack[i].scalars[x] : ScalarRead(stack, r, i - 1)

\* The expression just lowered: a bare name, a qualified one, a call or a macro-expand.
BareValue(r) ==
    /\ r.via = "direct" /\ r.name \in Names /\ r.db = None
    /\ r.means = Means(r.name) /\ ~CallsFunction(r.name, None)
QualifiedValue(r) ==
    /\ r.via = "direct" /\ r.name \in Names /\ r.db \in Databases
    /\ r.means = <<"table", r.db, r.name>>
CallValue(r) ==
    /\ r.via = "direct" /\ r.name \in Range(Entry.pending) /\ r.db = None
    /\ r.means = <<"function", nodes[r.name].key[1], nodes[r.name].key[2]>>
MacroValue(r) ==
    /\ r.via = "macro" /\ r.name \in Names /\ r.db = None
    /\ \E b \in DOMAIN nodes : /\ r.means = <<"let", b>>
                      /\ {c \in Range(lets[Entry.node]) : nodes[c].name = r.name} = {b}

\* What was just lowered means what its name means, or was a scalar's.
Valued ==
    \A r \in value :
        \/ ScalarRead(stack, r, Len(stack))
        \/ /\ value = {r} /\ r.reached
           /\ BareValue(r) \/ QualifiedValue(r) \/ CallValue(r) \/ MacroValue(r)

\* The lets of *q* a read would be given.
Sees(r, q) == {lets[q][j] : j \in Bound(r, q)}

\* A macro-expand's first binding was put before lets the read is among.
Moved(r) ==
    \E q \in nodes[r.node].chain : \E m \in reads :
        /\ m.via = "spliced" /\ m.node \in Range(lets[q])
        /\ \/ Len(lets[q]) > 1
           \/ Working /\ \E i \in DOMAIN stack : stack[i].node = q /\ stack[i].pending # <<>>

\* A read that means a let is given that let, and none of its name further in.
LetRead(r) ==
    /\ r.name \in Names /\ r.db = None
    /\ \E p \in nodes[r.node].chain :
        /\ Sees(r, p) = {r.means[2]}
        /\ nodes[r.means[2]].key = NoCall
        /\ r.via = "scalar" \/ Moved(r) \/ \A q \in nodes[r.node].chain : q > p => Sees(r, q) = {}

\* A read that means a call is given its query.
FunctionRead(r) ==
    /\ r.db = None /\ r.name \in DOMAIN nodes
    /\ nodes[r.name].name = r.name /\ nodes[r.name].key = <<r.means[2], r.means[3]>>
    /\ nodes[r.name].key # NoCall
    /\ \E p \in nodes[r.node].chain :
          /\ r.name \in Sees(r, p)
          /\ \A q \in nodes[r.node].chain : q > p => nodes[q].key = NoCall

\* The body whose end will give the read's table its database.
Awaits(r) ==
    \E q \in nodes[r.node].chain :
        /\ nodes[q].key # NoCall /\ nodes[q].key[1] = r.means[2]
        /\ \A c \in nodes[r.node].chain : c > q => nodes[c].key = NoCall
        /\ \/ /\ Working
              /\ \E i \in DOMAIN stack : i > 1 /\ stack[i].node = q /\ r.name \notin stack[i].visible
           \/ /\ phase = "qualifying" /\ Entry.pending # <<>>
              /\ q = Last(Entry.pending) /\ r.name \notin visible

\* A read that means a table has its database, or no let and will get it.
TableRead(r) ==
    \/ Moved(r) \/ HomeInsideOther(r)
    \/ /\ r.name = r.means[3] /\ r.name \in Names
       /\ \/ r.db = r.means[2] /\ r.db # None
          \/ /\ r.db = None
             /\ \A q \in nodes[r.node].chain : Sees(r, q) = {}
             /\ r.means[2] = Home \/ Awaits(r)

\* What holds of a read from where it was placed to where it is answered.
Read(r) ==
    /\ Working => \A i \in DOMAIN stack : r.node # stack[i].node
    /\ r.means[1] = "let" => LetRead(r) \/ (r.via = "spliced" /\ Moved(r))
    /\ r.via # "scalar" => /\ r.reached
                           /\ r.means[1] = "let" \/ r.means[1] = "function" \/ r.means[1] = "table"
                           /\ r.means[1] = "function" => FunctionRead(r)
                           /\ r.means[1] = "table" => TableRead(r)

ReadsInv == phase # "refused" => \A r \in reads : Read(r)

\* The body that ended is the last that is pending, of another database.
Qualifying ==
    phase = "qualifying" =>
        /\ Entry.pending # <<>> /\ nodes[Last(Entry.pending)].key[1] # Home
        /\ ~HeadsMacro

\* The inductive invariant.
IInv ==
    /\ Types /\ Tree /\ Placement /\ Stacked /\ Pending /\ Scoped /\ Kept
    /\ ScalarsHeld /\ Valued /\ ReadsInv /\ Qualifying
    /\ Faithful /\ LetsAreNotRecaptured

-----------------------------------------------------------------------------
(* Numbers, sequences, records.                                            *)

\* Every non-empty set of naturals has a least element.
LEMMA LeastNatural ==
    ASSUME NEW S \in SUBSET Nat, S # {}
    PROVE  \E m \in S : \A n \in S : m <= n
<1> DEFINE R == OpToRel(<, Nat)
<1>1. IsWellFoundedOn(R, Nat)
  BY NatLessThanWellFounded
<1>2. \A m, n \in Nat : <<n, m>> \in R <=> n < m
  BY DEF OpToRel
<1> HIDE DEF R
<1>3. PICK m \in S : \A n \in S : ~ (<<n, m>> \in R)
  BY <1>1, WFMin
<1>4. \A n \in S : ~ (n < m)
  BY <1>2, <1>3
<1> QED
  BY <1>4

\* What FiniteSetsExt's Min and Max choose is the least and the greatest.
LEMMA MinIs ==
    ASSUME NEW S \in SUBSET Nat, S # {}
    PROVE  Min(S) \in S /\ \A n \in S : Min(S) <= n
  BY LeastNatural DEF Min

\* The greatest of a bounded set of naturals is one of them.
LEMMA MaxIs ==
    ASSUME NEW N \in Nat, NEW S \in SUBSET (0 .. N), S # {}
    PROVE  Max(S) \in S /\ \A n \in S : Max(S) >= n
<1> DEFINE T == {n \in Nat : \A m \in S : n >= m}
<1>1. N \in T
  OBVIOUS
<1>2. PICK m \in T : \A n \in T : m <= n
  BY <1>1, LeastNatural
<1>3. m \in S
  <2> SUFFICES ASSUME m \notin S PROVE FALSE
    OBVIOUS
  <2>1. \A n \in S : n < m
    BY <1>2
  <2>2. m - 1 \in Nat
    <3>1. PICK n \in S : n < m
      BY <2>1
    <3>2. n \in Nat /\ m \in Nat
      OBVIOUS
    <3> QED
      BY <3>1, <3>2
  <2>3. m - 1 \in T
    BY <2>1, <2>2, <1>2
  <2> QED
    BY <2>3, <1>2
<1> QED
  BY <1>2, <1>3 DEF Max

\* A sequence whose last element is another.
LEMMA Replaced ==
    ASSUME NEW S, NEW s \in Seq(S), Len(s) >= 1, NEW e \in S,
           NEW t, t = [s EXCEPT ![Len(s)] = e]
    PROVE  /\ t \in Seq(S) /\ Len(t) = Len(s)
           /\ \A i \in 1 .. Len(s) : t[i] = IF i = Len(s) THEN e ELSE s[i]
  OBVIOUS

\* A sequence without its last element, and another in the place of the one before.
LEMMA Popped ==
    ASSUME NEW S, NEW s \in Seq(S), Len(s) >= 2, NEW e \in S,
           NEW t, t = [Front(s) EXCEPT ![Len(s) - 1] = e]
    PROVE  /\ t \in Seq(S) /\ Len(t) = Len(s) - 1
           /\ \A i \in 1 .. Len(s) - 1 : t[i] = IF i = Len(s) - 1 THEN e ELSE s[i]
<1>1. /\ Front(s) \in Seq(S) /\ Len(Front(s)) = Len(s) - 1
      /\ \A i \in 1 .. Len(s) - 1 : Front(s)[i] = s[i]
  BY DEF Front
<1> QED
  BY <1>1

\* What two sequences hold one after the other.
LEMMA Concat ==
    ASSUME NEW S, NEW L \in Seq(S), NEW M \in Seq(S)
    PROVE  /\ L \o M \in Seq(S) /\ Len(L \o M) = Len(L) + Len(M)
           /\ \A i \in 1 .. Len(L) : (L \o M)[i] = L[i]
           /\ \A i \in 1 .. Len(M) : (L \o M)[Len(L) + i] = M[i]
           /\ Range(L \o M) = Range(L) \cup Range(M)
<1>1. /\ L \o M \in Seq(S) /\ Len(L \o M) = Len(L) + Len(M)
      /\ \A i \in 1 .. Len(L) : (L \o M)[i] = L[i]
      /\ \A i \in 1 .. Len(M) : (L \o M)[Len(L) + i] = M[i]
  OBVIOUS
<1>2. ASSUME NEW x \in Range(L \o M) PROVE x \in Range(L) \cup Range(M)
  <2>1. PICK i \in 1 .. Len(L) + Len(M) : x = (L \o M)[i]
    BY <1>1, <1>2 DEF Range
  <2>2. CASE i \in 1 .. Len(L)
    BY <1>1, <2>1, <2>2 DEF Range
  <2>3. CASE i \notin 1 .. Len(L)
    <3>1. i - Len(L) \in 1 .. Len(M) /\ Len(L) + (i - Len(L)) = i
      BY <2>1, <2>3
    <3>2. x = M[i - Len(L)]
      BY <1>1, <2>1, <3>1
    <3> QED
      BY <3>1, <3>2 DEF Range
  <2> QED
    BY <2>2, <2>3
<1>3. ASSUME NEW x \in Range(L) PROVE x \in Range(L \o M)
  <2>1. PICK i \in 1 .. Len(L) : x = L[i]
    BY <1>3 DEF Range
  <2> QED
    BY <1>1, <2>1 DEF Range
<1>4. ASSUME NEW x \in Range(M) PROVE x \in Range(L \o M)
  <2>1. PICK i \in 1 .. Len(M) : x = M[i]
    BY <1>4 DEF Range
  <2>2. Len(L) + i \in 1 .. Len(L \o M) /\ x = (L \o M)[Len(L) + i]
    BY <1>1, <2>1
  <2> QED
    BY <1>1, <2>2 DEF Range
<1> QED
  BY <1>1, <1>2, <1>3, <1>4

\* A sequence of one element holds it.
LEMMA RangeOne == ASSUME NEW x PROVE Range(<<x>>) = {x} /\ Len(<<x>>) = 1 /\ <<x>>[1] = x
  BY DEF Range

\* The empty sequence holds nothing.
LEMMA RangeNone == Range(<<>>) = {} /\ Len(<<>>) = 0
  BY DEF Range

\* What a sequence holds, and when it holds something.
LEMMA RangeSeq ==
    ASSUME NEW S, NEW L \in Seq(S)
    PROVE  Range(L) \subseteq S /\ DOMAIN L = 1 .. Len(L) /\ Len(L) \in Nat
           /\ (L # <<>> <=> Len(L) > 0) /\ (L # <<>> => Last(L) \in Range(L))
           /\ (Range(L) # {} <=> L # <<>>)
<1>1. Range(L) \subseteq S /\ DOMAIN L = 1 .. Len(L) /\ Len(L) \in Nat
      /\ (L # <<>> <=> Len(L) > 0)
  BY DEF Range
<1>2. L # <<>> => Last(L) \in Range(L)
  BY <1>1 DEF Range, Last
<1> QED
  BY <1>1, <1>2, RangeNone

-----------------------------------------------------------------------------
(* What a list of lets gives: the nodes of a name before *c*.              *)

\* Where *c* is in a list, the places before it, and the nodes of a name there.
Places(L, c) == {i \in DOMAIN L : L[i] = c}
Earlier(L, c) == IF Places(L, c) = {} THEN DOMAIN L ELSE {i \in DOMAIN L : i < Min(Places(L, c))}
Given(N, L, c, n) == {L[j] : j \in {i \in Earlier(L, c) : N[L[i]].name = n}}

\* A node has a place in the lists it is in.
LEMMA PlacesIn ==
    ASSUME NEW L, NEW c
    PROVE  Places(L, c) = {} <=> c \notin Range(L)
  BY DEF Places, Range

\* What is given is in the list; all of a name is, to a node that is not in it.
LEMMA GivenIn ==
    ASSUME NEW N, NEW L, NEW c, NEW n
    PROVE  /\ Given(N, L, c, n) \subseteq {x \in Range(L) : N[x].name = n}
           /\ c \notin Range(L) => Given(N, L, c, n) = {x \in Range(L) : N[x].name = n}
  BY PlacesIn DEF Given, Earlier, Range

\* Appending does not change what is before a node that is in the list.
LEMMA EarlierAppended ==
    ASSUME NEW S, NEW L \in Seq(S), NEW M \in Seq(S), NEW c
    PROVE  /\ c \in Range(L) => Earlier(L \o M, c) = Earlier(L, c)
           /\ Earlier(L, c) \subseteq Earlier(L \o M, c)
           /\ Earlier(L, c) \subseteq DOMAIN L
<1> DEFINE K == L \o M
<1>1. /\ K \in Seq(S) /\ Len(K) = Len(L) + Len(M) /\ \A i \in 1 .. Len(L) : K[i] = L[i]
      /\ DOMAIN K = 1 .. Len(K) /\ DOMAIN L = 1 .. Len(L) /\ Len(L) \in Nat /\ Len(M) \in Nat
  BY Concat
<1> HIDE DEF K
<1>2. Places(K, c) \in SUBSET Nat /\ Places(L, c) \in SUBSET Nat /\ Places(L, c) \subseteq Places(K, c)
  BY <1>1 DEF Places
<1>3. CASE c \in Range(L)
  <2>1. Places(L, c) # {} /\ Places(K, c) # {}
    BY <1>2, <1>3, PlacesIn
  <2>2. /\ Min(Places(L, c)) \in Places(L, c) /\ \A n \in Places(L, c) : Min(Places(L, c)) <= n
        /\ Min(Places(K, c)) \in Places(K, c) /\ \A n \in Places(K, c) : Min(Places(K, c)) <= n
    BY <1>2, <2>1, MinIs
  <2>3. Min(Places(K, c)) \in Places(L, c)
    <3>1. Min(Places(K, c)) <= Min(Places(L, c))
      BY <1>2, <2>2
    <3>2. Min(Places(L, c)) \in 1 .. Len(L) /\ Min(Places(K, c)) \in 1 .. Len(K) /\ K[Min(Places(K, c))] = c
      BY <1>1, <2>2 DEF Places
    <3>3. Min(Places(K, c)) \in 1 .. Len(L)
      BY <3>1, <3>2, <1>1
    <3> QED
      BY <1>1, <3>2, <3>3 DEF Places
  <2>4. Min(Places(K, c)) = Min(Places(L, c))
    BY <1>2, <2>2, <2>3
  <2>5. Min(Places(L, c)) \in 1 .. Len(L)
    BY <1>1, <2>2 DEF Places
  <2> DEFINE m == Min(Places(L, c))
  <2>6. {i \in DOMAIN K : i < m} = {i \in DOMAIN L : i < m}
    <3> HIDE DEF m
    <3>1. m \in 1 .. Len(L)
      BY <2>5 DEF m
    <3> QED
      BY <1>1, <3>1
  <2>7. Earlier(K, c) = Earlier(L, c)
    BY <2>1, <2>4, <2>6 DEF Earlier
  <2> QED
    BY <1>1, <1>3, <2>7 DEF K, Earlier
<1>4. CASE c \notin Range(L)
  <2>1. Earlier(L, c) = DOMAIN L
    BY <1>4, PlacesIn DEF Earlier
  <2>2. CASE Places(K, c) = {}
    BY <1>1, <1>4, <2>1, <2>2 DEF K, Earlier
  <2>3. CASE Places(K, c) # {}
    <3>1. Min(Places(K, c)) \in Places(K, c)
      BY <1>2, <2>3, MinIs
    <3>2. Min(Places(K, c)) \in 1 .. Len(K) /\ Min(Places(K, c)) \notin 1 .. Len(L)
      <4>1. Places(L, c) = {}
        BY <1>4, PlacesIn
      <4> QED
        BY <1>1, <3>1, <4>1 DEF Places
    <3>3. \A i \in DOMAIN L : i \in DOMAIN K /\ i < Min(Places(K, c))
      BY <1>1, <3>2
    <3> QED
      BY <1>4, <2>1, <2>3, <3>3 DEF K, Earlier
  <2> QED
    BY <2>2, <2>3
<1> QED
  BY <1>3, <1>4

\* Appending lets: what was given stays; and nothing more is, when *c* was
\* placed before, or is among the first appended, of which none has the name.
LEMMA GivenAppended ==
    ASSUME NEW S, NEW L \in Seq(S), NEW M \in Seq(S), NEW c, NEW n, NEW N, NEW O,
           \A x \in Range(L) : O[x] = N[x]
    PROVE  /\ Given(N, L, c, n) \subseteq Given(O, L \o M, c, n)
           /\ c \in Range(L) => Given(O, L \o M, c, n) = Given(N, L, c, n)
<1>1. \A i \in DOMAIN L : (L \o M)[i] = L[i] /\ O[L[i]] = N[L[i]]
  BY Concat DEF Range
<1>2. /\ c \in Range(L) => Earlier(L \o M, c) = Earlier(L, c)
      /\ Earlier(L, c) \subseteq Earlier(L \o M, c)
      /\ Earlier(L, c) \subseteq DOMAIN L
  BY EarlierAppended
<1>3. \A i \in Earlier(L, c) : (L \o M)[i] = L[i] /\ O[(L \o M)[i]] = N[L[i]]
  BY <1>1, <1>2
<1> HIDE DEF Earlier
<1> QED
  BY <1>2, <1>3 DEF Given

\* A node that is placed at the end is given what it was given before it was.
LEMMA GivenBeforePlaced ==
    ASSUME NEW S, NEW L \in Seq(S), NEW P \in Seq(S), NEW M \in Seq(S), NEW c, NEW n, NEW N, NEW O,
           \A x \in Range(L) : O[x] = N[x],
           \A x \in Range(P) : O[x].name # n,
           c \notin Range(L), c \in Range(P) \/ M = <<>>
    PROVE  Given(O, (L \o P) \o M, c, n) = Given(N, L, c, n)
<1> DEFINE K == L \o P
<1>1. K \in Seq(S) /\ Range(K) = Range(L) \cup Range(P)
  BY Concat
<1>2. Given(O, K \o M, c, n) = Given(O, K, c, n)
  <2> HIDE DEF K
  <2>1. CASE c \in Range(P)
    <3>1. c \in Range(K)
      BY <1>1, <2>1
    <3> QED
      BY <1>1, <3>1, GivenAppended
  <2>2. CASE M = <<>> /\ c \notin Range(P)
    <3>1. Range(K \o M) = Range(K)
      <4>1. Range(M) = {}
        BY <2>2, RangeNone
      <4>2. Range(K \o M) = Range(K) \cup Range(M)
        BY <1>1, Concat
      <4> QED
        BY <4>1, <4>2
    <3>2. c \notin Range(K)
      BY <1>1, <2>2
    <3>3. c \notin Range(K \o M)
      BY <3>1, <3>2
    <3>4. Given(O, K \o M, c, n) = {x \in Range(K \o M) : O[x].name = n}
      BY <3>3, GivenIn
    <3>5. Given(O, K, c, n) = {x \in Range(K) : O[x].name = n}
      BY <3>2, GivenIn
    <3> QED
      BY <3>1, <3>4, <3>5
  <2> QED
    BY <2>1, <2>2
<1>3. Given(N, L, c, n) \subseteq Given(O, L \o P, c, n)
  BY GivenAppended
<1>4. Given(O, L \o P, c, n) \subseteq {x \in Range(L) \cup Range(P) : O[x].name = n}
  BY GivenIn, Concat
<1>5. Given(N, L, c, n) = {x \in Range(L) : N[x].name = n}
  BY GivenIn
<1> QED
  BY <1>2, <1>3, <1>4, <1>5

\* Putting one before them all: it is given too, if it has the name.
LEMMA GivenPrepended ==
    ASSUME NEW S, NEW L \in Seq(S), NEW x \in S, NEW c, c # x, NEW n, NEW N, NEW O,
           \A y \in Range(L) : O[y] = N[y]
    PROVE  Given(O, <<x>> \o L, c, n) = Given(N, L, c, n) \cup {y \in {x} : O[y].name = n}
<1> DEFINE K == <<x>> \o L
<1>1. /\ K \in Seq(S) /\ Len(K) = 1 + Len(L) /\ K[1] = x /\ \A i \in 1 .. Len(L) : K[i + 1] = L[i]
      /\ DOMAIN K = 1 .. Len(K) /\ DOMAIN L = 1 .. Len(L) /\ Len(L) \in Nat
  OBVIOUS
<1> HIDE DEF K
<1>2. Places(K, c) \in SUBSET Nat /\ Places(L, c) \in SUBSET Nat
  BY <1>1 DEF Places
<1>3. \A i \in 1 .. Len(L) : i \in Places(L, c) <=> i + 1 \in Places(K, c)
  BY <1>1 DEF Places
<1>4. 1 \notin Places(K, c)
  BY <1>1 DEF Places
<1>5. /\ 1 \in Earlier(K, c)
      /\ \A i \in 1 .. Len(L) : i \in Earlier(L, c) <=> i + 1 \in Earlier(K, c)
      /\ Earlier(K, c) \subseteq 1 .. Len(K) /\ Earlier(L, c) \subseteq 1 .. Len(L)
  <2>1. CASE Places(L, c) = {}
    <3>1. Places(K, c) = {}
      <4> SUFFICES ASSUME NEW i \in Places(K, c) PROVE FALSE
        OBVIOUS
      <4>1. i \in 1 .. Len(K)
        BY <1>1 DEF Places
      <4>2. i - 1 \in 1 .. Len(L) /\ (i - 1) + 1 = i
        BY <1>1, <1>4, <4>1
      <4> QED
        BY <1>3, <2>1, <4>2
    <3> QED
      BY <1>1, <2>1, <3>1 DEF Earlier
  <2>2. CASE Places(L, c) # {}
    <3>1. Min(Places(L, c)) \in Places(L, c) /\ \A i \in Places(L, c) : Min(Places(L, c)) <= i
      BY <1>2, <2>2, MinIs
    <3> DEFINE m == Min(Places(L, c))
    <3>2. m \in 1 .. Len(L)
      BY <1>1, <3>1 DEF Places
    <3>3. m + 1 \in Places(K, c)
      BY <1>3, <3>1, <3>2
    <3>4. Min(Places(K, c)) \in Places(K, c) /\ \A i \in Places(K, c) : Min(Places(K, c)) <= i
      BY <1>2, <3>3, MinIs
    <3> DEFINE k == Min(Places(K, c))
    <3>5. k \in 1 .. Len(K) /\ k # 1
      BY <1>1, <1>4, <3>4 DEF Places
    <3>6. k - 1 \in 1 .. Len(L) /\ (k - 1) + 1 = k
      BY <3>5, <1>1
    <3>7. k - 1 \in Places(L, c)
      BY <1>3, <3>4, <3>6
    <3>8. m <= k - 1 /\ k <= m + 1
      BY <3>1, <3>3, <3>4, <3>7
    <3>9. Earlier(K, c) = {i \in 1 .. Len(K) : i < k} /\ Earlier(L, c) = {i \in 1 .. Len(L) : i < m}
      BY <1>1, <2>2, <3>3 DEF Earlier
    <3> HIDE DEF m, k
    <3>10. k = m + 1
      BY <3>8, <3>5, <3>2
    <3> QED
      BY <1>1, <3>9, <3>10, <3>2
  <2> QED
    BY <2>1, <2>2
<1> HIDE DEF Earlier
<1>6. ASSUME NEW y \in Given(O, K, c, n) PROVE y \in Given(N, L, c, n) \cup {z \in {x} : O[z].name = n}
  <2>1. PICK j \in Earlier(K, c) : y = K[j] /\ O[y].name = n
    BY DEF Given
  <2>2. CASE j = 1
    BY <1>1, <2>1, <2>2
  <2>3. CASE j # 1
    <3>1. j - 1 \in 1 .. Len(L) /\ (j - 1) + 1 = j
      BY <1>1, <1>5, <2>1, <2>3
    <3>2. j - 1 \in Earlier(L, c) /\ L[j - 1] = y
      BY <1>1, <1>5, <2>1, <3>1
    <3>3. N[y].name = n
      BY <1>1, <2>1, <3>1, <3>2 DEF Range
    <3> QED
      BY <3>2, <3>3 DEF Given
  <2> QED
    BY <2>2, <2>3
<1>7. ASSUME NEW y \in Given(N, L, c, n) PROVE y \in Given(O, K, c, n)
  <2>1. PICK j \in Earlier(L, c) : y = L[j] /\ N[y].name = n
    BY DEF Given
  <2>2. j \in 1 .. Len(L)
    BY <1>5, <2>1
  <2>3. j + 1 \in Earlier(K, c) /\ K[j + 1] = y
    BY <1>1, <1>5, <2>1, <2>2
  <2>4. O[y].name = n
    BY <1>1, <2>1, <2>2 DEF Range
  <2> QED
    BY <2>3, <2>4 DEF Given
<1>8. O[x].name = n => x \in Given(O, K, c, n)
  BY <1>1, <1>5 DEF Given
<1> QED
  BY <1>6, <1>7, <1>8 DEF K

-----------------------------------------------------------------------------
(* What the invariant says of the queries.                                 *)

\* The types of the parts of the state.
LEMMA TypesOfParts ==
    ASSUME Types
    PROVE  /\ \A q \in DOMAIN nodes : /\ nodes[q] \in NodeType /\ nodes[q].chain \subseteq Nat
                                      /\ nodes[q].key \in Functions \cup {NoCall}
                                      /\ nodes[q].name \in Names \cup Nat \cup {None}
                                      /\ lets[q] \in Seq(Nat)
           /\ DOMAIN nodes = 1 .. Len(nodes) /\ DOMAIN lets = DOMAIN nodes /\ Len(nodes) \in Nat
           /\ DOMAIN stack = 1 .. Len(stack) /\ Len(stack) \in Nat /\ Len(stack) \in DOMAIN stack
           /\ Entry = stack[Len(stack)] /\ Entry \in BodyType
           /\ \A i \in DOMAIN stack : stack[i] \in BodyType
<1>1. /\ nodes \in Seq(NodeType) /\ lets \in Seq(Seq(Nat)) /\ Len(lets) = Len(nodes)
      /\ stack \in Seq(BodyType) /\ Len(stack) >= 1
  BY DEF Types
<1>2. /\ DOMAIN nodes = 1 .. Len(nodes) /\ DOMAIN lets = DOMAIN nodes /\ Len(nodes) \in Nat
      /\ DOMAIN stack = 1 .. Len(stack) /\ Len(stack) \in Nat /\ Len(stack) \in DOMAIN stack
      /\ \A q \in DOMAIN nodes : nodes[q] \in NodeType /\ lets[q] \in Seq(Nat)
      /\ \A i \in DOMAIN stack : stack[i] \in BodyType
  BY <1>1
<1>3. \A q \in DOMAIN nodes : /\ nodes[q].chain \subseteq Nat /\ nodes[q].key \in Functions \cup {NoCall}
                              /\ nodes[q].name \in Names \cup Nat \cup {None}
  BY <1>2 DEF NodeType
<1> QED
  BY <1>2, <1>3 DEF Entry, Last

\* The types of a body's fields.
LEMMA BodyFields ==
    ASSUME NEW e \in BodyType
    PROVE  /\ e.node \in Nat /\ e.key \in Functions \cup {NoCall} /\ e.via \in Ways
           /\ e.means \in MeansType \cup {None} /\ e.pending \in Seq(Nat) /\ e.declared \in DeclaredType
           /\ e.visible \in SUBSET Names /\ e.scalars \in [Scalars -> SUBSET RefType]
           /\ e.context \in Databases
  BY DEF BodyType

\* The types of a reference's fields.
LEMMA RefFields ==
    ASSUME NEW r \in RefType
    PROVE  /\ r.node \in Nat \cup {None} /\ r.name \in Names \cup Nat /\ r.db \in Databases \cup {None}
           /\ r.via \in Ways /\ r.reached \in BOOLEAN /\ r.means \in MeansType
  BY DEF RefType

\* What a body declares: names and scalars, of a query or of none.
LEMMA DeclaredFields ==
    ASSUME NEW f \in DeclaredType
    PROVE  /\ DOMAIN f \subseteq Names \cup Scalars /\ \A n \in DOMAIN f : f[n] \in Nat \cup {None}
  BY DEF DeclaredType

\* A call's key is a database and a name; no call has neither.
LEMMA KeyFields ==
    ASSUME NEW key \in Functions
    PROVE  /\ key # NoCall /\ key[1] \in Databases /\ key[2] \in Names /\ key = <<key[1], key[2]>>
           /\ key[1] # None
  BY ScopesAssumption DEF NoCall

\* A query in the chain of another is around it.
LEMMA ChainIn ==
    ASSUME Types, Tree, NEW q \in DOMAIN nodes, NEW p \in nodes[q].chain
    PROVE  /\ p \in DOMAIN nodes /\ p \in Nat /\ q \in Nat /\ p <= q
           /\ nodes[p].chain \subseteq nodes[q].chain
           /\ nodes[p].chain = {c \in nodes[q].chain : c <= p}
  BY TypesOfParts DEF Tree

\* The next query inside *p* on the way to *q*.
LEMMA InnerIs ==
    ASSUME Types, Tree, NEW q \in DOMAIN nodes, NEW p \in nodes[q].chain, p # q
    PROVE  LET c == Min({x \in nodes[q].chain : x > p}) IN
           /\ c \in nodes[q].chain /\ c > p /\ IsChild(nodes, c, p)
           /\ \A x \in nodes[q].chain : x > p => x >= c
<1> DEFINE S == {x \in nodes[q].chain : x > p}
           c == Min(S)
<1>1. /\ q \in nodes[q].chain /\ p < q /\ p \in DOMAIN nodes /\ nodes[q].chain \subseteq DOMAIN nodes
      /\ DOMAIN nodes \subseteq Nat /\ p \in Nat /\ q \in Nat
  BY ChainIn, TypesOfParts DEF Tree
<1>2. S \in SUBSET Nat /\ q \in S
  BY <1>1
<1> HIDE DEF S
<1>3. c \in S /\ \A n \in S : c <= n
  BY <1>2, MinIs
<1> HIDE DEF c
<1>4. c \in nodes[q].chain /\ c > p /\ c \in Nat /\ \A x \in nodes[q].chain : x > p => x >= c
  BY <1>1, <1>3 DEF S
<1>5. nodes[c].chain = {x \in nodes[q].chain : x <= c} /\ nodes[p].chain = {x \in nodes[q].chain : x <= p}
  BY <1>4, ChainIn
<1>6. \A x \in nodes[q].chain : x \in Nat
  BY <1>1
<1>7. nodes[c].chain = nodes[p].chain \cup {c}
  BY <1>1, <1>4, <1>5, <1>6
<1>8. IsChild(nodes, c, p)
  BY <1>1, <1>4, <1>7 DEF IsChild
<1> QED
  BY <1>4, <1>8 DEF S, c

\* The query a read is in, or the next one on the way to it: what it sees of
\* *q* comes before that.
Step(r, q) == IF q = r.node THEN q ELSE Inner(r, q)

\* What a read sees of a query around it, by the next query on the way.
LEMMA SeesIs ==
    ASSUME Types, Tree, Placement, NEW r, r.node \in DOMAIN nodes, NEW q \in nodes[r.node].chain
    PROVE  /\ Sees(r, q) = Given(nodes, lets[q], Step(r, q), r.name)
           /\ Step(r, q) \in nodes[r.node].chain /\ Step(r, q) >= q
           /\ q # r.node => IsChild(nodes, Step(r, q), q)
           /\ q = r.node => Step(r, q) \notin Range(lets[q])
           /\ \A x \in nodes[r.node].chain : x > q => x >= Step(r, q)
<1>1. q \in DOMAIN nodes /\ q \in Nat /\ r.node \in Nat /\ r.node \in nodes[r.node].chain
  BY ChainIn, TypesOfParts DEF Tree
<1>2. CASE q = r.node
  <2>1. q \notin Range(lets[q])
    BY <1>1, TypesOfParts DEF Placement, IsChild
  <2>2. Earlier(lets[q], q) = DOMAIN lets[q]
    BY <2>1, PlacesIn DEF Earlier
  <2>3. Sees(r, q) = Given(nodes, lets[q], q, r.name)
    BY <1>2, <2>2 DEF Sees, Given, Bound, Seen
  <2>4. \A x \in nodes[r.node].chain : ~ (x > q)
    BY <1>2, <1>1, ChainIn
  <2> QED
    BY <1>1, <1>2, <2>1, <2>3, <2>4 DEF Step
<1>3. CASE q # r.node
  <2>1. Seen(r, q) = Earlier(lets[q], Inner(r, q))
    BY <1>3 DEF Seen, Before, Earlier, Places
  <2>2. Sees(r, q) = Given(nodes, lets[q], Inner(r, q), r.name)
    BY <2>1 DEF Sees, Given, Bound
  <2>3. /\ Inner(r, q) \in nodes[r.node].chain /\ Inner(r, q) > q /\ IsChild(nodes, Inner(r, q), q)
        /\ \A x \in nodes[r.node].chain : x > q => x >= Inner(r, q)
    BY <1>3, InnerIs DEF Inner
  <2>4. Inner(r, q) \in Nat
    BY <2>3, ChainIn
  <2> QED
    BY <1>1, <1>3, <2>2, <2>3, <2>4 DEF Step
<1> QED
  BY <1>2, <1>3

-----------------------------------------------------------------------------
(* A step adds queries and lets; what a read sees of the queries around it. *)

\* Queries are added, never changed.
NodesKept == \A q \in DOMAIN nodes : q \in DOMAIN nodes' /\ nodes'[q] = nodes[q]

\* A query whose lets stay gives a read what it gave.
LEMMA SeesSame ==
    ASSUME Types, Placement, NodesKept, NEW r, r.node \in DOMAIN nodes,
           NEW q \in DOMAIN nodes, lets'[q] = lets[q]
    PROVE  Sees(r, q)' = Sees(r, q)
<1>1. \A j \in DOMAIN lets[q] : nodes'[lets[q][j]] = nodes[lets[q][j]]
  BY TypesOfParts DEF Placement, IsChild, Range, NodesKept
<1>2. Inner(r, q)' = Inner(r, q)
  BY DEF Inner, NodesKept
<1>3. Seen(r, q)' = Seen(r, q)
  BY <1>2 DEF Seen, Before
<1>4. Seen(r, q) \subseteq DOMAIN lets[q]
  BY DEF Seen, Before
<1>5. Bound(r, q)' = Bound(r, q)
  BY <1>1, <1>3, <1>4 DEF Bound
<1> QED
  BY <1>5 DEF Sees

\* A read inside a query is given the lets that are before the way to it.
LEMMA SeesInside ==
    ASSUME NodesKept, NEW r, r.node \in DOMAIN nodes, NEW q, q # r.node
    PROVE  Sees(r, q)' = Given(nodes', lets'[q], Inner(r, q), r.name)
<1>1. Inner(r, q)' = Inner(r, q)
  BY DEF Inner, NodesKept
<1>2. Seen(r, q)' = Earlier(lets'[q], Inner(r, q))
  BY <1>1 DEF Seen, Before, Earlier, Places
<1> QED
  BY <1>2 DEF Sees, Given, Bound

\* A read that is new: what it sees when the query next inside is *c*.
LEMMA SeesNew ==
    ASSUME NEW r, NEW q, NEW c,
           q # r.node => c \in nodes'[r.node].chain /\ c > q
                         /\ nodes'[r.node].chain \in SUBSET Nat
                         /\ \A x \in nodes'[r.node].chain : x > q => x >= c
    PROVE  /\ q = r.node => Sees(r, q)' = {x \in Range(lets'[q]) : nodes'[x].name = r.name}
           /\ q # r.node => Sees(r, q)' = Given(nodes', lets'[q], c, r.name)
<1>1. CASE q = r.node
  <2>1. Seen(r, q)' = DOMAIN lets'[q]
    BY <1>1 DEF Seen
  <2> QED
    BY <1>1, <2>1 DEF Sees, Bound, Range
<1>2. CASE q # r.node
  <2> DEFINE S == {x \in nodes'[r.node].chain : x > q}
  <2>1. S \in SUBSET Nat /\ c \in S
    BY <1>2
  <2>2. Min(S) \in S /\ \A n \in S : Min(S) <= n
    <3> HIDE DEF S
    <3> QED
      BY <2>1, MinIs
  <2>3. Min(S) = c
    <3>1. Min(S) <= c /\ Min(S) >= c /\ Min(S) \in Nat /\ c \in Nat
      BY <1>2, <2>1, <2>2
    <3> HIDE DEF S
    <3> QED
      BY <3>1
  <2>4. Inner(r, q)' = c
    BY <2>3 DEF Inner
  <2>5. Seen(r, q)' = Earlier(lets'[q], c)
    BY <1>2, <2>4 DEF Seen, Before, Earlier, Places
  <2> QED
    BY <1>2, <2>5 DEF Sees, Given, Bound
<1> QED
  BY <1>1, <1>2

\* The queries the bodies are lowered to.
LEMMA Bodies ==
    ASSUME Types, Tree, Stacked, NEW i \in DOMAIN stack
    PROVE  /\ stack[i].node \in DOMAIN nodes /\ stack[i].node \in Nat
           /\ i \in Nat /\ i <= Len(stack)
           /\ nodes[stack[i].node].chain = {stack[k].node : k \in 1 .. i}
           /\ nodes[Entry.node].chain = {stack[k].node : k \in 1 .. Len(stack)}
           /\ stack[i].node \in nodes[Entry.node].chain
           /\ \A j \in DOMAIN stack : i < j => stack[i].node < stack[j].node
           /\ \A j \in DOMAIN stack : stack[i].node = stack[j].node => i = j
           /\ Entry.node \in DOMAIN nodes /\ Entry = stack[Len(stack)] /\ Len(stack) \in DOMAIN stack
           /\ DOMAIN stack = 1 .. Len(stack)
<1>1. /\ DOMAIN stack = 1 .. Len(stack) /\ Len(stack) \in Nat /\ Len(stack) \in DOMAIN stack
      /\ Entry = stack[Len(stack)] /\ DOMAIN nodes \subseteq Nat
  BY TypesOfParts
<1>2. \A j \in DOMAIN stack : stack[j].node \in DOMAIN nodes
  BY DEF Stacked
<1>3. /\ nodes[stack[i].node].chain = {stack[k].node : k \in 1 .. i}
      /\ nodes[Entry.node].chain = {stack[k].node : k \in 1 .. Len(stack)}
  BY <1>1 DEF Stacked
<1>4. \A j, k \in DOMAIN stack : j < k => stack[j].node < stack[k].node
  BY DEF Stacked
<1>5. ASSUME NEW j \in DOMAIN stack, stack[i].node = stack[j].node PROVE i = j
  <2>1. ~ (i < j) /\ ~ (j < i)
    BY <1>1, <1>2, <1>4, <1>5
  <2> QED
    BY <1>1, <2>1
<1> QED
  BY <1>1, <1>2, <1>3, <1>4, <1>5

\* The bodies are queries of their own, each inside the one before.
LEMMA BodiesInOrder ==
    ASSUME Types, Tree, Stacked
    PROVE  /\ \A i \in DOMAIN stack : /\ stack[i].node \in DOMAIN nodes /\ stack[i].node \in Nat
                                      /\ i = Len(stack) \/ i < Len(stack)
                                      /\ ~ (stack[i].node > Entry.node)
                                      /\ i # Len(stack) => stack[i].node # Entry.node
           /\ \A i, j \in DOMAIN stack : i < j => stack[i].node < stack[j].node
           /\ \A i, j \in DOMAIN stack : i # j => stack[i].node # stack[j].node
<1>1. \A i \in DOMAIN stack : /\ stack[i].node \in DOMAIN nodes /\ stack[i].node \in Nat
                              /\ i = Len(stack) \/ i < Len(stack)
  BY Bodies, TypesOfParts
<1>2. \A i, j \in DOMAIN stack : i < j => stack[i].node < stack[j].node
  BY Bodies
<1>3. \A i, j \in DOMAIN stack : i # j => stack[i].node # stack[j].node
  BY Bodies
<1>4. Len(stack) \in DOMAIN stack /\ Entry = stack[Len(stack)]
  BY TypesOfParts
<1>5. ASSUME NEW i \in DOMAIN stack PROVE ~ (stack[i].node > Entry.node)
  <2>1. stack[i].node = Entry.node \/ stack[i].node < Entry.node
    BY <1>1, <1>2, <1>4
  <2>2. stack[i].node \in Nat /\ Entry.node \in Nat
    BY <1>1, <1>4
  <2> QED
    BY <2>1, <2>2
<1> QED
  BY <1>1, <1>2, <1>3, <1>4, <1>5

\* A reference that is placed changes its query alone.
LEMMA PlacedTyped ==
    ASSUME NEW r \in RefType, NEW x \in Nat, NEW s, s = [r EXCEPT !.node = x]
    PROVE  /\ s \in RefType /\ s.node = x /\ s.name = r.name /\ s.db = r.db /\ s.via = r.via
           /\ s.reached = r.reached /\ s.means = r.means
  BY DEF RefType

\* What is named *n* among the lets of the *i*-th body, and those about to be.
Named(i, n) ==
    {x \in Range(lets[stack[i].node]) \cup (IF i = Len(stack) THEN Range(stack[i].pending) ELSE {}) :
        nodes[x].name = n}

\* A name is no number, no scalar and not None.
LEMMA NamesAreNot ==
    ASSUME NEW n \in Names
    PROVE  n # None /\ n \notin Nat /\ n \notin Scalars
  BY ScopesAssumption

\* The query of a let is no call's.
LEMMA LetHasNoKey ==
    ASSUME Types, Tree, NEW c \in DOMAIN nodes, nodes[c].name \in Names
    PROVE  nodes[c].key = NoCall
  BY TypesOfParts, NamesAreNot DEF Tree

\* The query of a call is named by its number.
LEMMA CallHasNumber ==
    ASSUME Types, Tree, NEW c \in DOMAIN nodes, nodes[c].key # NoCall
    PROVE  nodes[c].name = c /\ c \in Nat /\ nodes[c].name \notin Names /\ nodes[c].name # None
  BY TypesOfParts, NamesAreNot, ScopesAssumption DEF Tree

\* The lets a body has of a name are the one it declares.
LEMMA NamedIs ==
    ASSUME Types, Tree, Placement, Stacked, Pending, Scoped, Working,
           NEW i \in DOMAIN stack, ~ (i = Len(stack) /\ HeadsMacro), NEW n \in Names
    PROVE  Named(i, n) = IF n \in DOMAIN stack[i].declared THEN {stack[i].declared[n]} ELSE {}
<1>1. \A c \in Range(stack[i].pending) : nodes[c].name # n
  BY CallHasNumber DEF Pending, IsChild
<1>2. \A c \in Range(lets[stack[i].node]) : nodes[c].name = n =>
          n \in DOMAIN stack[i].declared /\ stack[i].declared[n] = c
  BY DEF Scoped
<1>3. n \in DOMAIN stack[i].declared =>
          /\ stack[i].declared[n] \in Range(lets[stack[i].node])
          /\ nodes[stack[i].declared[n]].name = n
  BY DEF Scoped
<1> QED
  BY <1>1, <1>2, <1>3 DEF Named

\* Placing what was pending, and what a let adds, in the query being lowered.
LEMMA PlacedSees ==
    ASSUME Types, Tree, Placement, Stacked, Pending, Kept, Working, NodesKept,
           NEW M \in Seq(Nat), M = <<>> \/ ~HeadsMacro,
           lets'[Entry.node] = (lets[Entry.node] \o Entry.pending) \o M,
           \A q \in DOMAIN nodes : q # Entry.node => lets'[q] = lets[q],
           NEW r, r.node \in DOMAIN nodes, \A i \in DOMAIN stack : r.node # stack[i].node,
           NEW q \in nodes[r.node].chain
    PROVE  /\ Sees(r, q) \subseteq Sees(r, q)'
           /\ r.name \in Names => Sees(r, q)' = Sees(r, q)
<1>1. q \in DOMAIN nodes /\ q \in Nat
  BY ChainIn
<1>2. CASE q # Entry.node
  BY <1>1, <1>2, SeesSame
<1>3. CASE q = Entry.node
  <2> DEFINE L == lets[Entry.node]
             P == Entry.pending
             c == Step(r, q)
  <2>1. Entry.node \in DOMAIN nodes /\ Len(stack) \in DOMAIN stack /\ Entry = stack[Len(stack)]
    BY TypesOfParts, Bodies
  <2>2. L \in Seq(Nat) /\ P \in Seq(Nat)
    BY <2>1, TypesOfParts, BodyFields
  <2>3. q # r.node
    BY <1>3, <2>1
  <2>4. Sees(r, q) = Given(nodes, L, c, r.name) /\ IsChild(nodes, c, q) /\ c = Inner(r, q)
    BY <1>3, <2>3, SeesIs DEF Step
  <2>5. Sees(r, q)' = Given(nodes', (L \o P) \o M, c, r.name)
    BY <1>3, <2>3, <2>4, SeesInside
  <2>6. c \in Range(L) \/ c \in Range(P) \/ (HeadsMacro /\ M = <<>>)
    <3> HIDE DEF c
    <3>1. c \in DOMAIN nodes /\ IsChild(nodes, c, stack[Len(stack)].node)
      BY <1>3, <2>1, <2>4 DEF IsChild
    <3>2. Len(stack) \in DOMAIN stack /\ ~ (Len(stack) < Len(stack)) /\ L = lets[stack[Len(stack)].node]
          /\ P = stack[Len(stack)].pending
      BY <2>1, TypesOfParts
    <3>3. \/ c \in Range(lets[stack[Len(stack)].node])
          \/ c \in Range(stack[Len(stack)].pending)
          \/ HeadsMacro
      BY <3>1, <3>2 DEF Kept
    <3> HIDE DEF L, P
    <3> QED
      BY <3>2, <3>3
  <2>7. \A x \in Range(L) : x \in DOMAIN nodes /\ nodes'[x] = nodes[x]
    BY <2>1, TypesOfParts DEF Placement, IsChild, NodesKept
  <2>8. \A x \in Range(P) : x \in DOMAIN nodes /\ nodes'[x] = nodes[x] /\ nodes[x].name \notin Names
    BY <2>1, CallHasNumber DEF Pending, IsChild, NodesKept
  <2> DEFINE K == L \o P
  <2>9. K \in Seq(Nat) /\ Range(K) = Range(L) \cup Range(P)
    BY <2>2, Concat
  <2> HIDE DEF L, P, c, K
  <2>10. /\ Given(nodes, L, c, r.name) \subseteq Given(nodes', K, c, r.name)
         /\ c \in Range(L) => Given(nodes', K, c, r.name) = Given(nodes, L, c, r.name)
    BY <2>2, <2>7, GivenAppended DEF K
  <2>11. \A x \in Range(K) : nodes'[x] = nodes'[x]
    OBVIOUS
  <2>12. /\ Given(nodes', K, c, r.name) \subseteq Given(nodes', K \o M, c, r.name)
         /\ c \in Range(K) => Given(nodes', K \o M, c, r.name) = Given(nodes', K, c, r.name)
    BY <2>9, <2>11, GivenAppended
  <2>13. Sees(r, q) = Given(nodes, L, c, r.name) /\ Sees(r, q)' = Given(nodes', K \o M, c, r.name)
    BY <2>4, <2>5 DEF K
  <2>14. CASE c \in Range(L)
    BY <2>9, <2>10, <2>12, <2>13, <2>14
  <2>15. CASE c \notin Range(L)
    <3>1. ASSUME r.name \in Names
          PROVE  Given(nodes', K \o M, c, r.name) = Given(nodes, L, c, r.name)
      <4>1. \A x \in Range(P) : nodes'[x].name # r.name
        BY <2>8, <3>1
      <4>2. c \in Range(P) \/ M = <<>>
        BY <2>6, <2>15
      <4> QED
        BY <2>2, <2>7, <2>15, <4>1, <4>2, GivenBeforePlaced DEF K
    <3> QED
      BY <2>10, <2>12, <2>13, <3>1
  <2> QED
    BY <2>14, <2>15
<1> QED
  BY <1>2, <1>3

\* What stays true of a read when a step adds queries and lets and does not
\* come between it and what it sees.
LEMMA ReadStays ==
    ASSUME Types, Tree, Placement, NodesKept,
           NEW r, r.node \in DOMAIN nodes, Read(r),
           \A q \in nodes[r.node].chain :
              /\ Sees(r, q) \subseteq Sees(r, q)'
              /\ r.name \in Names /\ (Sees(r, q) # {} \/ ~Moved(r)') => Sees(r, q)' = Sees(r, q),
           Moved(r) => Moved(r)',
           Awaits(r) => Awaits(r)' \/ r.means[2] = Home,
           Working' => \A i \in DOMAIN stack' : r.node # stack'[i].node
    PROVE  Read(r)'
<1>1. nodes'[r.node] = nodes[r.node]
  BY DEF NodesKept
<1>2. \A q \in nodes[r.node].chain :
         /\ q \in DOMAIN nodes /\ q \in DOMAIN nodes' /\ nodes'[q] = nodes[q]
         /\ \A c \in Sees(r, q) : c \in DOMAIN nodes /\ nodes'[c] = nodes[c]
  <2> TAKE q \in nodes[r.node].chain
  <2>1. q \in DOMAIN nodes
    BY ChainIn
  <2>2. Sees(r, q) \subseteq Range(lets[q])
    BY SeesIs, GivenIn
  <2> QED
    BY <2>1, <2>2, TypesOfParts DEF Placement, IsChild, NodesKept
<1>3. ASSUME LetRead(r) PROVE LetRead(r)'
  <2>1. r.name \in Names /\ r.db = None
    BY <1>3 DEF LetRead
  <2>2. PICK p \in nodes[r.node].chain :
           /\ Sees(r, p) = {r.means[2]}
           /\ nodes[r.means[2]].key = NoCall
           /\ r.via = "scalar" \/ Moved(r) \/ \A q \in nodes[r.node].chain : q > p => Sees(r, q) = {}
    BY <1>3 DEF LetRead
  <2>3. Sees(r, p)' = {r.means[2]}
    BY <2>1, <2>2
  <2>4. nodes'[r.means[2]].key = NoCall
    BY <1>2, <2>2
  <2>5. r.via = "scalar" \/ Moved(r)' \/ \A q \in nodes'[r.node].chain : q > p => Sees(r, q)' = {}
    BY <1>1, <2>1, <2>2
  <2> QED
    BY <1>1, <2>1, <2>3, <2>4, <2>5 DEF LetRead
<1>4. ASSUME FunctionRead(r) PROVE FunctionRead(r)'
  <2>1. /\ r.db = None /\ r.name \in DOMAIN nodes
        /\ nodes[r.name].name = r.name /\ nodes[r.name].key = <<r.means[2], r.means[3]>>
        /\ nodes[r.name].key # NoCall
    BY <1>4 DEF FunctionRead
  <2>2. PICK p \in nodes[r.node].chain :
           /\ r.name \in Sees(r, p)
           /\ \A q \in nodes[r.node].chain : q > p => nodes[q].key = NoCall
    BY <1>4 DEF FunctionRead
  <2>3. r.name \in Sees(r, p)' /\ \A q \in nodes'[r.node].chain : q > p => nodes'[q].key = NoCall
    BY <1>1, <1>2, <2>2
  <2>4. r.name \in DOMAIN nodes' /\ nodes'[r.name] = nodes[r.name]
    BY <2>1 DEF NodesKept
  <2> QED
    BY <1>1, <2>1, <2>2, <2>3, <2>4 DEF FunctionRead
<1>5. HomeInsideOther(r) => HomeInsideOther(r)'
  BY <1>1, <1>2 DEF HomeInsideOther
<1>6. ASSUME TableRead(r) PROVE TableRead(r)'
  BY <1>1, <1>5, <1>6 DEF TableRead
<1> QED
  BY <1>3, <1>4, <1>6 DEF Read

\* The let a name means: the one of the innermost body that declares it.
LEMMA LetOfIs ==
    ASSUME Types, Tree, Placement, Stacked, Scoped, NEW n \in Names
    PROVE  /\ LetOf(n) # None =>
                \E k \in DOMAIN stack :
                    /\ n \in DOMAIN stack[k].declared /\ LetOf(n) = stack[k].declared[n]
                    /\ \A j \in DOMAIN stack : j > k => n \notin DOMAIN stack[j].declared
           /\ LetOf(n) = None => \A k \in DOMAIN stack : n \notin DOMAIN stack[k].declared
<1> DEFINE at == {i \in DOMAIN stack : n \in DOMAIN stack[i].declared}
<1>1. DOMAIN stack = 1 .. Len(stack) /\ Len(stack) \in Nat
  BY TypesOfParts
<1>2. LetOf(n) = IF at = {} THEN None ELSE stack[Max(at)].declared[n]
  BY DEF LetOf
<1>3. at \in SUBSET (0 .. Len(stack)) /\ at \subseteq DOMAIN stack
  BY <1>1
<1>4. at # {} => Max(at) \in at /\ \A j \in at : Max(at) >= j
  <2> HIDE DEF at
  <2> QED
    BY <1>1, <1>3, MaxIs
<1>5. ASSUME NEW k \in at PROVE stack[k].declared[n] # None
  <2>1. k \in DOMAIN stack /\ n \in DOMAIN stack[k].declared \cap Names
    BY <1>5
  <2>2. stack[k].declared[n] \in Range(lets[stack[k].node]) /\ stack[k].node \in DOMAIN lets
    BY <2>1, TypesOfParts DEF Scoped, Stacked
  <2>3. stack[k].declared[n] \in DOMAIN nodes
    BY <2>2 DEF Placement, IsChild
  <2> QED
    BY <2>3, TypesOfParts, ScopesAssumption
<1>6. \A j \in DOMAIN stack : j \notin at => n \notin DOMAIN stack[j].declared
  OBVIOUS
<1>7. \A j \in at : j \in DOMAIN stack /\ n \in DOMAIN stack[j].declared
  OBVIOUS
<1> HIDE DEF at
<1>8. CASE at = {}
  BY <1>2, <1>6, <1>8
<1>9. CASE at # {}
  <2>1. Max(at) \in at /\ Max(at) \in Nat /\ \A j \in at : ~ (j > Max(at))
    BY <1>1, <1>3, <1>4, <1>9
  <2>2. LetOf(n) = stack[Max(at)].declared[n] /\ LetOf(n) # None
    BY <1>2, <1>5, <1>9, <2>1
  <2> QED
    BY <1>6, <1>7, <2>1, <2>2
<1> QED
  BY <1>8, <1>9

\* When a macro-expand heads the query, it is all that was just lowered.
LEMMA MacroAlone ==
    ASSUME Valued, HeadsMacro, NEW r \in value
    PROVE  r.via = "macro" /\ value = {r}
<1>1. PICK m \in value : m.via = "macro"
  BY DEF HeadsMacro
<1>2. ~ ScalarRead(stack, m, Len(stack))
  BY <1>1 DEF ScalarRead
<1>3. value = {m}
  BY <1>1, <1>2 DEF Valued, HeadsMacro
<1> QED
  BY <1>1, <1>3

\* The read that is placed inside the bodies being lowered sees what they bind.
Surrounded(s) ==
    /\ s.node \in DOMAIN nodes'
    /\ \A k \in DOMAIN stack : stack[k].node \in nodes'[s.node].chain
    /\ \A q \in nodes'[s.node].chain :
          \/ \E k \in DOMAIN stack : q = stack[k].node /\ Sees(s, q)' = Named(k, s.name)
          \/ q > Entry.node /\ Sees(s, q)' = {} /\ nodes'[q].key = NoCall

\* What a read in the body being lowered sees of the bodies around it.
LEMMA SurroundedIs ==
    ASSUME Types, Tree, Stacked, NEW s, Surrounded(s), NEW k \in DOMAIN stack, NEW q, q = stack[k].node
    PROVE  q \in nodes'[s.node].chain /\ Sees(s, q)' = Named(k, s.name)
<1>1. q \in nodes'[s.node].chain
  BY DEF Surrounded
<1>2. ~ (q > Entry.node)
  <2>1. k = Len(stack) \/ k < Len(stack)
    BY Bodies, TypesOfParts
  <2>2. k < Len(stack) => stack[k].node < Entry.node
    BY Bodies
  <2>3. k = Len(stack) => stack[k].node = Entry.node
    BY Bodies
  <2>4. stack[k].node \in Nat /\ Entry.node \in Nat
    BY Bodies, TypesOfParts
  <2> QED
    BY <2>1, <2>2, <2>3, <2>4
<1>3. PICK j \in DOMAIN stack : q = stack[j].node /\ Sees(s, q)' = Named(j, s.name)
  BY <1>1, <1>2 DEF Surrounded
<1>4. j = k
  BY <1>3, Bodies
<1> QED
  BY <1>1, <1>3, <1>4

\* A bare name that means a let is given that let where it is placed.
LEMMA NewLet ==
    ASSUME Types, Tree, Placement, Stacked, Pending, Working, NodesKept, NEW s, Surrounded(s),
           s.name \in Names, s.db = None,
           NEW k \in DOMAIN stack, Named(k, s.name) = {s.means[2]},
           s.via = "scalar" \/ \A j \in DOMAIN stack : j > k => Named(j, s.name) = {}
    PROVE  LetRead(s)'
<1> DEFINE b == s.means[2]
<1>1. /\ b \in Range(lets[stack[k].node]) \/ b \in Range(stack[k].pending)
      /\ nodes[b].name = s.name
  BY DEF Named
<1>2. b \in DOMAIN nodes
  BY <1>1, TypesOfParts DEF Placement, Pending, Stacked, IsChild
<1>3. nodes'[b].key = NoCall
  <2>1. nodes[b].key = NoCall
    BY <1>1, <1>2, LetHasNoKey
  <2> QED
    BY <1>2, <2>1 DEF NodesKept
<1>4. PICK q : q = stack[k].node /\ q \in nodes'[s.node].chain /\ Sees(s, q)' = {b}
  <2>1. PICK q : q = stack[k].node
    OBVIOUS
  <2> QED
    BY <2>1, SurroundedIs
<1>5. ASSUME \A j \in DOMAIN stack : j > k => Named(j, s.name) = {},
             NEW x \in nodes'[s.node].chain, x > q
      PROVE  Sees(s, x)' = {}
  <2>1. CASE \E j \in DOMAIN stack : x = stack[j].node
    <3>1. PICK j \in DOMAIN stack : x = stack[j].node
      BY <2>1
    <3>2. ~ (j < k) /\ j # k
      <4>1. q \in Nat /\ x \in Nat /\ ~ (x < q) /\ x # q
        BY <1>4, <1>5, <3>1, Bodies
      <4> QED
        BY <1>4, <3>1, <4>1, Bodies
    <3>3. j > k
      BY <3>2, Bodies
    <3> QED
      BY <1>5, <3>1, <3>3, SurroundedIs
  <2>2. CASE ~ \E j \in DOMAIN stack : x = stack[j].node
    BY <2>2 DEF Surrounded
  <2> QED
    BY <2>1, <2>2
<1> HIDE DEF b
<1>6. s.via = "scalar" \/ \A x \in nodes'[s.node].chain : x > q => Sees(s, x)' = {}
  BY <1>5
<1> QED
  BY <1>3, <1>4, <1>6 DEF b, LetRead

\* The body being lowered will give an unbound table its database.
WillAwait(s) ==
    /\ Len(stack) > 1 /\ Entry.key[1] = s.means[2] /\ s.means[2] # Home
    /\ s.name \in Names /\ s.name \notin Entry.visible /\ s.name \notin visible

\* A bare name that calls no function is a let's, or a table's.
LEMMA NewBare ==
    ASSUME Types, Tree, Placement, Stacked, Pending, Scoped, Working, ~HeadsMacro, NodesKept,
           NEW s, Surrounded(s), s.name \in Names, s.db = None,
           s.means = Means(s.name), ~CallsFunction(s.name, None),
           WillAwait(s) => Awaits(s)'
    PROVE  /\ s.means[1] = "let" \/ s.means[1] = "table"
           /\ s.means[1] = "let" => LetRead(s)'
           /\ s.means[1] = "table" => TableRead(s)'
<1> DEFINE n == s.name
<1>1. CASE LetOf(n) # None
  <2>1. s.means = <<"let", LetOf(n)>>
    BY <1>1 DEF Means
  <2>2. PICK k \in DOMAIN stack :
            /\ n \in DOMAIN stack[k].declared /\ LetOf(n) = stack[k].declared[n]
            /\ \A j \in DOMAIN stack : j > k => n \notin DOMAIN stack[j].declared
    BY <1>1, LetOfIs
  <2>3. Named(k, n) = {s.means[2]}
    BY <2>1, <2>2, NamedIs
  <2>4. \A j \in DOMAIN stack : j > k => Named(j, n) = {}
    BY <2>2, NamedIs
  <2>5. LetRead(s)'
    BY <2>3, <2>4, NewLet
  <2> QED
    BY <2>1, <2>5
<1>2. CASE LetOf(n) = None
  <2>1. \A k \in DOMAIN stack : n \notin DOMAIN stack[k].declared
    BY <1>2, LetOfIs
  <2>2. \A k \in DOMAIN stack : Named(k, n) = {}
    BY <2>1, NamedIs
  <2>3. s.means = Entity(KustoDatabase, n)
    BY <1>2 DEF Means
  <2>4. n \notin visible
    BY <2>1, TypesOfParts DEF Scoped, InScope
  <2>5. KustoDatabase = context
    BY TypesOfParts DEF KustoDatabase, Stacked, ContextOf
  <2>6. <<KustoDatabase, n>> \notin Functions
    BY <2>4, <2>5 DEF CallsFunction, Where
  <2>7. s.means = <<"table", KustoDatabase, n>>
    BY <2>3, <2>6 DEF Entity
  <2>8. \A q \in nodes'[s.node].chain : Sees(s, q)' = {}
    BY <2>2 DEF Surrounded
  <2>9. s.means[2] = Home \/ Awaits(s)'
    <3>1. CASE Len(stack) = 1
      BY <2>7, <3>1, TypesOfParts DEF KustoDatabase, Stacked
    <3>2. CASE Len(stack) > 1 /\ s.means[2] # Home
      <4>1. Entry.key # NoCall /\ Entry.key[1] = s.means[2]
        BY <2>7, <3>2 DEF KustoDatabase
      <4>2. n \notin Entry.visible
        <5>1. Entry.visible = {m \in Names : InScope(stack, m, Len(stack) - 1)}
          BY <3>2, TypesOfParts DEF Scoped
        <5>2. ~ InScope(stack, n, Len(stack) - 1)
          BY <2>1, TypesOfParts DEF InScope
        <5> QED
          BY <5>1, <5>2
      <4> QED
        BY <2>4, <3>2, <4>1, <4>2 DEF WillAwait
    <3> QED
      <4>1. Len(stack) \in Nat /\ Len(stack) >= 1
        BY TypesOfParts DEF Types
      <4> QED
        BY <3>1, <3>2, <4>1, SMTT(30)
  <2>10. TableRead(s)'
    BY <2>7, <2>8, <2>9 DEF TableRead
  <2> QED
    BY <2>7, <2>10
<1> QED
  BY <1>1, <1>2

\* What an expression read, placed where the expression is.
LEMMA NewRead ==
    ASSUME Types, Tree, Placement, Stacked, Pending, Scoped, Valued, Working, NodesKept,
           value # {}, NEW r \in value, NEW c, NEW s, s = [r EXCEPT !.node = c], Surrounded(s),
           WillAwait(s) => Awaits(s)',
           Working' => \A i \in DOMAIN stack' : s.node # stack'[i].node
    PROVE  Read(s)'
<1>1. r \in RefType
  BY DEF Types
<1>2. /\ s.name = r.name /\ s.db = r.db /\ s.via = r.via /\ s.reached = r.reached /\ s.means = r.means
  BY <1>1 DEF RefType
<1>3. CASE ScalarRead(stack, r, Len(stack))
  <2>1. s.via = "scalar"
    BY <1>2, <1>3 DEF ScalarRead
  <2>2. ~ HeadsMacro
    BY <1>2, <2>1, MacroAlone
  <2>3. ASSUME s.means[1] = "let" PROVE LetRead(s)'
    <3>1. PICK k \in 1 .. Len(stack) : /\ s.name \in DOMAIN stack[k].declared
                                       /\ stack[k].declared[s.name] = s.means[2]
      BY <1>2, <1>3, <2>3 DEF ScalarRead
    <3>2. s.db = None /\ s.name \in Names /\ k \in DOMAIN stack
      BY <1>2, <1>3, <2>3, TypesOfParts DEF ScalarRead
    <3>3. Named(k, s.name) = {s.means[2]}
      BY <2>2, <3>1, <3>2, NamedIs
    <3> QED
      BY <2>1, <3>2, <3>3, NewLet
  <2> QED
    BY <2>1, <2>3 DEF Read
<1>4. CASE r.reached /\ BareValue(r)
  <2>1. s.reached /\ s.via = "direct" /\ s.name \in Names /\ s.db = None
        /\ s.means = Means(s.name) /\ ~CallsFunction(s.name, None)
    BY <1>2, <1>4 DEF BareValue
  <2>2. ~ HeadsMacro
    BY <1>2, <2>1, MacroAlone
  <2>3. /\ s.means[1] = "let" \/ s.means[1] = "table"
        /\ s.means[1] = "let" => LetRead(s)'
        /\ s.means[1] = "table" => TableRead(s)'
    BY <2>1, <2>2, NewBare
  <2> QED
    BY <2>1, <2>3 DEF Read
<1>5. CASE r.reached /\ QualifiedValue(r)
  BY <1>2, <1>5, ScopesAssumption DEF Read, QualifiedValue, TableRead
<1>6. CASE r.reached /\ CallValue(r)
  <2>1. /\ s.reached /\ s.via = "direct" /\ s.name \in Range(Entry.pending) /\ s.db = None
        /\ s.means = <<"function", nodes[s.name].key[1], nodes[s.name].key[2]>>
    BY <1>2, <1>6 DEF CallValue
  <2>2. Len(stack) \in DOMAIN stack /\ Entry = stack[Len(stack)]
    BY TypesOfParts
  <2>3. s.name \in DOMAIN nodes /\ nodes[s.name].key # NoCall
    BY <2>1, <2>2 DEF Pending, IsChild
  <2>4. nodes[s.name].name = s.name /\ s.name \in DOMAIN nodes' /\ nodes'[s.name] = nodes[s.name]
    BY <2>3, CallHasNumber DEF NodesKept
  <2>5. s.name \in Named(Len(stack), s.name)
    BY <2>1, <2>2, <2>4 DEF Named
  <2>6. nodes[s.name].key = <<s.means[2], s.means[3]>>
    BY <2>1, <2>3, TypesOfParts, KeyFields
  <2>7. PICK p : p = Entry.node
    OBVIOUS
  <2>8. /\ p \in nodes'[s.node].chain /\ s.name \in Sees(s, p)'
        /\ \A q \in nodes'[s.node].chain : q > p => nodes'[q].key = NoCall
    <3>1. p \in nodes'[s.node].chain /\ s.name \in Sees(s, p)'
      BY <2>2, <2>5, <2>7, SurroundedIs
    <3>2. ASSUME NEW q \in nodes'[s.node].chain, q > Entry.node PROVE nodes'[q].key = NoCall
      <4>1. ASSUME NEW k \in DOMAIN stack, q = stack[k].node PROVE FALSE
        <5>1. k = Len(stack) \/ k < Len(stack)
          BY Bodies, TypesOfParts
        <5>2. k < Len(stack) => stack[k].node < Entry.node
          BY <2>2, Bodies
        <5>3. stack[k].node \in Nat /\ Entry.node \in Nat
          BY <2>2, Bodies
        <5> QED
          BY <2>2, <3>2, <4>1, <5>1, <5>2, <5>3
      <4> QED
        BY <4>1 DEF Surrounded
    <3> QED
      BY <2>7, <3>1, <3>2
  <2>9. FunctionRead(s)'
    BY <2>1, <2>3, <2>4, <2>6, <2>8 DEF FunctionRead
  <2> QED
    BY <2>1, <2>9 DEF Read
<1>7. CASE r.reached /\ MacroValue(r)
  <2>1. s.reached /\ s.via = "macro" /\ s.name \in Names /\ s.db = None
    BY <1>2, <1>7 DEF MacroValue
  <2>2. PICK b \in DOMAIN nodes :
            s.means = <<"let", b>> /\ {x \in Range(lets[Entry.node]) : nodes[x].name = s.name} = {b}
    BY <1>2, <1>7 DEF MacroValue
  <2>3. Len(stack) \in DOMAIN stack /\ Entry = stack[Len(stack)] /\ DOMAIN stack = 1 .. Len(stack)
    BY TypesOfParts
  <2>4. \A x \in Range(Entry.pending) : nodes[x].name # s.name
    BY <2>1, <2>3, CallHasNumber DEF Pending, IsChild
  <2>5. Named(Len(stack), s.name) = {s.means[2]}
    BY <2>2, <2>3, <2>4 DEF Named
  <2>6. \A j \in DOMAIN stack : ~ (j > Len(stack))
    BY <2>3, TypesOfParts
  <2>7. LetRead(s)'
    BY <2>1, <2>3, <2>5, <2>6, NewLet
  <2> QED
    BY <2>1, <2>2, <2>7 DEF Read
<1> QED
  BY <1>3, <1>4, <1>5, <1>6, <1>7 DEF Valued

-----------------------------------------------------------------------------
(* Steps that bind nothing.                                                *)

\* A step that changes no binding keeps what the invariant says of bindings.
LEMMA SameScope ==
    ASSUME Tree, Placement, Stacked, Pending, Scoped, Kept, ScalarsHeld,
           UNCHANGED <<nodes, lets, stack, visible, scalars, context>>,
           Working' => Working, HeadsMacro /\ Working' => HeadsMacro'
    PROVE  Tree' /\ Placement' /\ Stacked' /\ Pending' /\ Scoped' /\ Kept' /\ ScalarsHeld'
<1>1. Tree' /\ Placement'
  BY DEF Tree, Placement, IsChild
<1>2. Stacked'
  BY DEF Stacked, IsChild, ContextOf
<1>3. Pending'
  BY DEF Pending, IsChild, Unplaced
<1>4. Scoped'
  <2>1. /\ visible' = {n \in Names : InScope(stack', n, Len(stack))}
        /\ \A i \in DOMAIN stack' : i > 1 => stack'[i].visible = {n \in Names : InScope(stack', n, i - 1)}
    BY DEF Scoped, InScope
  <2>2. \A i \in DOMAIN stack' : \A n \in DOMAIN stack'[i].declared \cap Names :
          /\ stack'[i].declared[n] \in Range(lets'[stack'[i].node])
          /\ nodes'[stack'[i].declared[n]].name = n
    BY DEF Scoped
  <2>3. Working' => \A i \in DOMAIN stack' : \A c \in Range(lets'[stack'[i].node]) :
          nodes'[c].name \in Names =>
              \/ nodes'[c].name \in DOMAIN stack'[i].declared /\ stack'[i].declared[nodes'[c].name] = c
              \/ i = Len(stack') /\ HeadsMacro'
    BY DEF Scoped
  <2> QED
    BY <2>1, <2>2, <2>3 DEF Scoped
<1>5. Kept'
  BY DEF Kept, IsChild
<1>6. ScalarsHeld'
  BY DEF ScalarsHeld, ScalarRead
<1> QED
  BY <1>1, <1>2, <1>3, <1>4, <1>5, <1>6

\* Nor does a step that changes no list of lets change what a read sees.
LEMMA OldReads ==
    ASSUME Types, Tree, Placement, ReadsInv, NodesKept, phase # "refused",
           \A q \in DOMAIN nodes : lets'[q] = lets[q],
           reads \subseteq reads',
           \A i \in DOMAIN stack :
              /\ i \in DOMAIN stack' /\ stack'[i].node = stack[i].node
              /\ stack'[i].visible = stack[i].visible /\ stack'[i].pending = stack[i].pending,
           \A i \in DOMAIN stack' : i \in DOMAIN stack \/ stack'[i].node \notin DOMAIN nodes,
           Working, phase' = phase, phase = "lowering" \/ UNCHANGED <<stack, visible>>,
           NEW r \in reads
    PROVE  Read(r)'
<1>1. Read(r) /\ r.node \in DOMAIN nodes
  BY DEF ReadsInv, Types
<1>2. \A q \in nodes[r.node].chain : q \in DOMAIN nodes /\ Sees(r, q)' = Sees(r, q)
  <2> TAKE q \in nodes[r.node].chain
  <2>1. q \in DOMAIN nodes
    BY <1>1, ChainIn
  <2> QED
    BY <1>1, <2>1, SeesSame
<1>3. nodes'[r.node] = nodes[r.node]
  BY <1>1 DEF NodesKept
<1>4. Moved(r) => Moved(r)'
  BY <1>2, <1>3 DEF Moved, Working
<1>5. Awaits(r) => Awaits(r)'
  <2>1. \A q \in nodes[r.node].chain : nodes'[q] = nodes[q]
    BY <1>2 DEF NodesKept
  <2> QED
    BY <1>3, <2>1 DEF Awaits, Working, Entry
<1>6. \A i \in DOMAIN stack' : r.node # stack'[i].node
  BY <1>1 DEF Read
<1> QED
  BY <1>1, <1>2, <1>4, <1>5, <1>6, ReadStays

\* An expression that has just been lowered.
LEMMA Lowered ==
    ASSUME IInv, Lowering, value = {}, value' \in SUBSET RefType, Valued',
           UNCHANGED <<nodes, lets, reads, stack, visible, scalars, context, phase>>
    PROVE  IInv'
<1> USE DEF IInv
<1>1. Types'
  BY DEF Types
<1>2. Working
  BY DEF Working, Lowering
<1>3. ~HeadsMacro
  BY DEF HeadsMacro
<1>4. Tree' /\ Placement' /\ Stacked' /\ Pending' /\ Scoped' /\ Kept' /\ ScalarsHeld'
  BY <1>2, <1>3, SameScope
<1>5. ReadsInv'
  <2>1. NodesKept /\ phase # "refused"
    BY DEF NodesKept, Lowering
  <2>2. \A r \in reads : Read(r)'
    BY <1>2, <2>1, OldReads
  <2> QED
    BY <2>2 DEF ReadsInv
<1>6. Qualifying' /\ Faithful' /\ LetsAreNotRecaptured'
  BY DEF Qualifying, Faithful, LetsAreNotRecaptured, Lowering
<1> QED
  BY <1>1, <1>4, <1>5, <1>6

\* A statement that is refused is left as it is.
LEMMA Refused ==
    ASSUME IInv, phase' = "refused",
           UNCHANGED <<nodes, lets, reads, stack, visible, scalars, context, value>>
    PROVE  IInv'
<1> USE DEF IInv
<1>1. Types'
  BY DEF Types
<1>2. ~ Working'
  BY DEF Working
<1>3. Tree' /\ Placement' /\ Stacked' /\ Pending' /\ Scoped' /\ Kept' /\ ScalarsHeld'
  BY <1>2, SameScope
<1>4. Valued'
  <2>1. \A r : ScalarRead(stack', r, Len(stack)) = ScalarRead(stack, r, Len(stack))
    BY DEF ScalarRead
  <2>2. \A r : BareValue(r)' = BareValue(r)
    BY DEF BareValue, Means, LetOf, CallsFunction, KustoDatabase, Entry, Where, Entity
  <2>3. \A r : /\ QualifiedValue(r)' = QualifiedValue(r) /\ CallValue(r)' = CallValue(r)
               /\ MacroValue(r)' = MacroValue(r)
    BY DEF QualifiedValue, CallValue, MacroValue, Entry
  <2> QED
    BY <2>1, <2>2, <2>3 DEF Valued
<1>5. ReadsInv' /\ Qualifying' /\ Faithful' /\ LetsAreNotRecaptured'
  BY DEF ReadsInv, Qualifying, Faithful, LetsAreNotRecaptured
<1> QED
  BY <1>1, <1>3, <1>4, <1>5

-----------------------------------------------------------------------------
(* Names, and calls.                                                       *)

\* What a name of a database is: its function or its table.
LEMMA EntityTyped ==
    ASSUME NEW d \in Databases, NEW n \in Names
    PROVE  Entity(d, n) \in MeansType /\ Entity(d, n)[1] # "let"
  BY DEF Entity, MeansType

\* What a name means: a let's query, a function or a table.
LEMMA MeansTyped ==
    ASSUME Types, Tree, Placement, Stacked, Scoped, NEW n \in Names
    PROVE  Means(n) \in MeansType
<1>1. CASE LetOf(n) # None
  <2>1. PICK k \in DOMAIN stack : n \in DOMAIN stack[k].declared /\ LetOf(n) = stack[k].declared[n]
    BY <1>1, LetOfIs
  <2>2. stack[k].declared \in DeclaredType
    BY TypesOfParts, BodyFields
  <2>3. LetOf(n) \in Nat
    BY <1>1, <2>1, <2>2, DeclaredFields
  <2> QED
    BY <1>1, <2>3 DEF Means, MeansType
<1>2. CASE LetOf(n) = None
  <2>1. KustoDatabase \in Databases
    <3>1. Entry.key = NoCall \/ Entry.key \in Functions
      BY TypesOfParts, BodyFields
    <3> QED
      BY <3>1, KeyFields, ScopesAssumption DEF KustoDatabase
  <2> QED
    BY <1>2, <2>1, EntityTyped DEF Means
<1> QED
  BY <1>1, <1>2

\* The fields of a reference that was just lowered.
LEMMA RefTyped ==
    ASSUME NEW n \in Names \cup Nat, NEW d \in Databases \cup {None}, NEW via \in Ways, NEW m \in MeansType
    PROVE  /\ Ref(n, d, via, m) \in RefType
           /\ Ref(n, d, via, m).node = None /\ Ref(n, d, via, m).name = n /\ Ref(n, d, via, m).db = d
           /\ Ref(n, d, via, m).via = via /\ Ref(n, d, via, m).reached = TRUE
           /\ Ref(n, d, via, m).means = m
  BY DEF Ref, RefType

\* Queries that are numbered as they are made.
TreeOf(N) ==
    \A q \in DOMAIN N :
        /\ N[q].chain \subseteq 1..q /\ q \in N[q].chain /\ 1 \in N[q].chain
        /\ \A p \in N[q].chain : N[p].chain = {c \in N[q].chain : c <= p}
        /\ N[q].name \in Names \cup {None, q}
        /\ N[q].key # NoCall => N[q].name = q

\* A query that is appended is inside one that was there.
LEMMA TreeAppended ==
    ASSUME NEW N \in Seq(NodeType), TreeOf(N), NEW q \in DOMAIN N, NEW e \in NodeType,
           e.chain = {Len(N) + 1} \cup N[q].chain,
           e.name \in Names \cup {None, Len(N) + 1}, e.key # NoCall => e.name = Len(N) + 1,
           NEW A, A = Append(N, e)
    PROVE  /\ A \in Seq(NodeType) /\ TreeOf(A) /\ Len(A) = Len(N) + 1 /\ A[Len(N) + 1] = e
           /\ DOMAIN A = 1 .. Len(N) + 1 /\ \A p \in DOMAIN N : p \in DOMAIN A /\ A[p] = N[p]
<1> DEFINE x == Len(N) + 1
<1>1. /\ A \in Seq(NodeType) /\ Len(A) = x /\ A[x] = e /\ DOMAIN A = 1 .. x /\ DOMAIN N = 1 .. Len(N)
      /\ Len(N) \in Nat /\ \A p \in 1 .. Len(N) : A[p] = N[p]
  OBVIOUS
<1>2. \A p \in DOMAIN N : N[p].chain \subseteq 1 .. p /\ N[p].chain \subseteq DOMAIN N
  BY <1>1 DEF TreeOf
<1>3. ASSUME NEW p \in DOMAIN A
      PROVE  /\ A[p].chain \subseteq 1..p /\ p \in A[p].chain /\ 1 \in A[p].chain
             /\ \A o \in A[p].chain : A[o].chain = {c \in A[p].chain : c <= o}
             /\ A[p].name \in Names \cup {None, p}
             /\ A[p].key # NoCall => A[p].name = p
  <2>1. CASE p \in DOMAIN N
    <3>1. A[p] = N[p] /\ \A o \in N[p].chain : A[o] = N[o]
      BY <1>1, <1>2, <2>1
    <3> QED
      BY <2>1, <3>1 DEF TreeOf
  <2>2. CASE p = x
    <3>1. A[p].chain = {x} \cup N[q].chain /\ N[q].chain \subseteq 1 .. Len(N) /\ 1 \in N[q].chain
      BY <1>1, <1>2, <2>2 DEF TreeOf
    <3>2. ASSUME NEW o \in A[p].chain PROVE A[o].chain = {c \in A[p].chain : c <= o}
      <4>1. CASE o = x
        <5>1. \A c \in A[p].chain : c <= x
          BY <1>1, <3>1
        <5> QED
          BY <2>2, <4>1, <5>1
      <4>2. CASE o \in N[q].chain
        <5>1. A[o].chain = {c \in N[q].chain : c <= o}
          BY <1>1, <3>1, <4>2 DEF TreeOf
        <5>2. ~ (x <= o)
          BY <1>1, <3>1, <4>2
        <5> QED
          BY <3>1, <5>1, <5>2
      <4> QED
        BY <3>1, <4>1, <4>2
    <3>3. A[p].chain \subseteq 1 .. p /\ p \in A[p].chain /\ 1 \in A[p].chain
      BY <1>1, <2>2, <3>1
    <3>4. A[p].name \in Names \cup {None, p} /\ (A[p].key # NoCall => A[p].name = p)
      BY <1>1, <2>2
    <3> QED
      BY <3>2, <3>3, <3>4
  <2> QED
    BY <1>1, <2>1, <2>2
<1>4. TreeOf(A)
  BY <1>3 DEF TreeOf
<1> QED
  BY <1>1, <1>4

\* The query a let or a call adds is inside the one being lowered.
LEMMA NodeAdded ==
    ASSUME Types, Tree, Stacked, NEW e \in NodeType, e.chain = {Fresh} \cup nodes[Entry.node].chain,
           e.name \in Names \cup {None, Fresh}, e.key # NoCall => e.name = Fresh,
           nodes' = Append(nodes, e)
    PROVE  /\ nodes' \in Seq(NodeType) /\ Tree' /\ Len(nodes') = Fresh /\ nodes'[Fresh] = e
           /\ DOMAIN nodes' = 1 .. Fresh /\ NodesKept
<1>1. nodes \in Seq(NodeType) /\ TreeOf(nodes) /\ Entry.node \in DOMAIN nodes
  BY TypesOfParts, Bodies DEF Types, Tree, TreeOf
<1>2. /\ nodes' \in Seq(NodeType) /\ TreeOf(nodes') /\ Len(nodes') = Len(nodes) + 1
      /\ nodes'[Len(nodes) + 1] = e /\ DOMAIN nodes' = 1 .. Len(nodes) + 1
      /\ \A p \in DOMAIN nodes : p \in DOMAIN nodes' /\ nodes'[p] = nodes[p]
  <2>1. PICK q : q = Entry.node
    OBVIOUS
  <2>2. q \in DOMAIN nodes /\ e.chain = {Len(nodes) + 1} \cup nodes[q].chain
    BY <1>1, <2>1 DEF Fresh
  <2>3. e.name \in Names \cup {None, Len(nodes) + 1} /\ (e.key # NoCall => e.name = Len(nodes) + 1)
    BY DEF Fresh
  <2>4. nodes' \in Seq(NodeType) /\ TreeOf(nodes')
    BY <1>1, <2>2, <2>3, TreeAppended
  <2>5. Len(nodes') = Len(nodes) + 1 /\ nodes'[Len(nodes) + 1] = e
    BY <1>1, <2>2, <2>3, TreeAppended
  <2>6. DOMAIN nodes' = 1 .. Len(nodes) + 1 /\ \A p \in DOMAIN nodes : p \in DOMAIN nodes' /\ nodes'[p] = nodes[p]
    BY <1>1, <2>2, <2>3, TreeAppended
  <2> QED
    BY <2>4, <2>5, <2>6
<1> QED
  BY <1>2 DEF Tree, TreeOf, Fresh, NodesKept

\* The queries inside one, before and after a step that adds queries.
LEMMA ChildrenKept ==
    ASSUME NodesKept, NEW c \in DOMAIN nodes, NEW q \in DOMAIN nodes
    PROVE  IsChild(nodes', c, q) <=> IsChild(nodes, c, q)
  BY DEF NodesKept, IsChild

\* A query that is new is inside the body being lowered alone.
LEMMA NewChild ==
    ASSUME Types, Tree, Stacked, NEW c, c \notin DOMAIN nodes, nodes'[c].chain = {c} \cup nodes[Entry.node].chain,
           NodesKept, NEW i \in DOMAIN stack, IsChild(nodes', c, stack[i].node)
    PROVE  i = Len(stack)
<1>1. nodes'[c].chain = nodes'[stack[i].node].chain \cup {c}
  BY DEF IsChild
<1>2. nodes'[stack[i].node] = nodes[stack[i].node]
  BY Bodies DEF NodesKept
<1>3. c \notin nodes[Entry.node].chain /\ c \notin nodes[stack[i].node].chain
  <2>1. nodes[Entry.node].chain \subseteq DOMAIN nodes /\ nodes[stack[i].node].chain \subseteq DOMAIN nodes
    BY ChainIn, Bodies, TypesOfParts
  <2> QED
    BY <2>1
<1>4. nodes[Entry.node].chain = nodes[stack[i].node].chain
  <2>1. {c} \cup nodes[Entry.node].chain = nodes[stack[i].node].chain \cup {c}
    BY <1>1, <1>2
  <2>2. ASSUME NEW A, NEW B, c \notin A, c \notin B, {c} \cup A = B \cup {c} PROVE A = B
    BY <2>2
  <2> QED
    BY <1>3, <2>1, <2>2
<1>5. stack[Len(stack)].node \in {stack[k].node : k \in 1 .. i}
  <2>1. stack[Len(stack)].node \in nodes[Entry.node].chain
    BY Bodies
  <2> QED
    BY <1>4, <2>1, Bodies
<1>6. PICK k \in 1 .. i : stack[Len(stack)].node = stack[k].node
  BY <1>5
<1>7. k \in DOMAIN stack /\ Len(stack) \in DOMAIN stack /\ k <= i /\ i <= Len(stack) /\ Len(stack) \in Nat /\ i \in Nat
  BY <1>6, TypesOfParts, Bodies
<1>8. k = Len(stack)
  BY <1>6, <1>7, Bodies
<1> QED
  BY <1>7, <1>8

\* A body declares nothing when it begins.
LEMMA EmptyDeclared == << >> \in DeclaredType /\ DOMAIN << >> = {}
<1>1. << >> \in [{} -> Nat \cup {None}]
  OBVIOUS
<1> QED
  BY <1>1 DEF DeclaredType

\* A body that declares what it declared.
Declares(s, t, k) ==
    /\ DOMAIN s[k].declared \cap Names \subseteq DOMAIN t[k].declared
    /\ \A n \in DOMAIN s[k].declared \cap Names : t[k].declared[n] = s[k].declared[n]

\* What is in scope depends on what the bodies declare alone.
LEMMA InScopeKept ==
    ASSUME NEW s, NEW t, NEW m \in Int, \A k \in 1 .. m : t[k].declared = s[k].declared, NEW a
    PROVE  InScope(t, a, m) <=> InScope(s, a, m)
  BY DEF InScope

\* What is in scope of a body: what was around it, and what it declares.
LEMMA InScopeOfOne ==
    ASSUME NEW s, NEW m \in Nat, NEW a
    PROVE  InScope(s, a, m + 1) <=> InScope(s, a, m) \/ a \in DOMAIN s[m + 1].declared
<1>1. \A k : k \in 1 .. m + 1 <=> k \in 1 .. m \/ k = m + 1
  OBVIOUS
<1> QED
  BY <1>1 DEF InScope

\* What a scalar let read stays in scope when the bodies keep what they declare.
LEMMA ScalarReadKept ==
    ASSUME NEW s, NEW t, NEW i \in Int, NEW j \in Int, i <= j,
           \A k \in 1 .. i : Declares(s, t, k), NEW r, ScalarRead(s, r, i)
    PROVE  ScalarRead(t, r, j)
<1> SUFFICES ASSUME r.means[1] = "let"
             PROVE  \E k \in 1..j : /\ r.name \in DOMAIN t[k].declared
                                    /\ t[k].declared[r.name] = r.means[2]
  BY DEF ScalarRead
<1>1. PICK k \in 1 .. i : /\ r.name \in DOMAIN s[k].declared
                          /\ s[k].declared[r.name] = r.means[2]
  BY DEF ScalarRead
<1>2. r.name \in Names /\ Declares(s, t, k) /\ k \in 1 .. j
  BY DEF ScalarRead
<1> QED
  BY <1>1, <1>2 DEF Declares

\* A call is expanded: a query and a body are added.
LEMMA ExpandStep ==
    ASSUME IInv, Lowering, value = {}, NEW key \in Functions, ~Expanding(key),
           NEW via, via = "direct", NEW m, m = <<"function", key[1], key[2]>>,
           nodes' = Append(nodes, [name |-> Fresh, key |-> key,
                                   chain |-> {Fresh} \cup nodes[Entry.node].chain]),
           lets' = Append(lets, <<>>), stack' = Append(stack, Body(key, via, m)), context' = key[1],
           UNCHANGED <<reads, visible, scalars, value, phase>>
    PROVE  IInv'
<1> USE DEF IInv
<1>x. PICK x : x = Len(nodes) + 1
  OBVIOUS
<1>n. PICK n : n = Len(stack)
  OBVIOUS
<1>e. PICK e : e = [name |-> x, key |-> key, chain |-> {x} \cup nodes[Entry.node].chain]
  OBVIOUS
<1>b. PICK b : b = Body(key, via, m)
  OBVIOUS
<1> USE <1>x, <1>n
<1>1. /\ DOMAIN nodes = 1 .. Len(nodes) /\ DOMAIN lets = DOMAIN nodes /\ Len(nodes) \in Nat
      /\ DOMAIN stack = 1 .. n /\ n \in Nat /\ n \in DOMAIN stack
      /\ Entry = stack[n] /\ Entry \in BodyType
      /\ Entry.node \in DOMAIN nodes /\ nodes[Entry.node].chain \subseteq Nat
      /\ n = Len(stack) /\ x = Len(nodes) + 1
  BY TypesOfParts, Bodies
<1> HIDE <1>x, <1>n
<1>2. key # NoCall /\ key[1] \in Databases /\ key[2] \in Names /\ key = <<key[1], key[2]>> /\ key[1] # None
  BY KeyFields
<1>3. e \in NodeType /\ e.chain = {Len(nodes) + 1} \cup nodes[Entry.node].chain
      /\ e.name \in Names \cup {None, Len(nodes) + 1} /\ (e.key # NoCall => e.name = Len(nodes) + 1)
      /\ e.key = key
  BY <1>1, <1>x, <1>e DEF NodeType
<1>5. /\ nodes' \in Seq(NodeType) /\ Tree' /\ Len(nodes') = x /\ nodes'[x] = e
      /\ DOMAIN nodes' = 1 .. x /\ NodesKept
  <2>1. nodes' = Append(nodes, e)
    BY <1>x, <1>e DEF Fresh
  <2>2. Fresh = Len(nodes) + 1 /\ Fresh = x
    BY <1>x DEF Fresh
  <2>3. /\ nodes' \in Seq(NodeType) /\ Tree' /\ Len(nodes') = Fresh /\ nodes'[Fresh] = e
        /\ DOMAIN nodes' = 1 .. Fresh /\ NodesKept
    BY <1>3, <2>1, <2>2, NodeAdded
  <2> QED
    BY <2>2, <2>3
<1>6. /\ lets' \in Seq(Seq(Nat)) /\ Len(lets') = x /\ lets'[x] = <<>>
      /\ DOMAIN lets' = 1 .. x /\ \A q \in DOMAIN nodes : lets'[q] = lets[q]
  <2>1. lets \in Seq(Seq(Nat)) /\ <<>> \in Seq(Nat) /\ Len(lets) = Len(nodes)
    BY DEF Types
  <2> QED
    BY <1>1, <1>x, <2>1
<1>7. b \in BodyType
  <2>1. m \in MeansType
    BY <1>2 DEF MeansType
  <2>2. visible \in SUBSET Names /\ scalars \in [Scalars -> SUBSET RefType] /\ context \in Databases
    BY DEF Types
  <2>3. <<>> \in Seq(Nat) /\ via \in Ways /\ Fresh \in Nat /\ key \in Functions \cup {NoCall}
    BY <1>1 DEF Ways, Fresh
  <2> QED
    BY <1>b, <2>1, <2>2, <2>3, EmptyDeclared DEF Body, BodyType
<1>8. /\ b.node = x /\ b.key = key /\ b.via = "direct" /\ b.means = m /\ b.pending = <<>>
      /\ b.declared = << >> /\ b.visible = visible /\ b.scalars = scalars /\ b.context = context
  BY <1>b, <1>x DEF Body, Fresh
<1>9. /\ stack' \in Seq(BodyType) /\ Len(stack') = n + 1 /\ stack'[n + 1] = b
      /\ DOMAIN stack' = 1 .. n + 1 /\ \A i \in DOMAIN stack : i \in DOMAIN stack' /\ stack'[i] = stack[i]
  <2>1. stack \in Seq(BodyType)
    BY DEF Types
  <2>2. stack' = Append(stack, b)
    BY <1>b
  <2> QED
    BY <1>1, <1>n, <1>7, <2>1, <2>2
<1>10. \A i \in DOMAIN stack' : i \in DOMAIN stack \/ i = n + 1
  BY <1>1, <1>9
<1>11. Working /\ Working' /\ ~HeadsMacro /\ phase' = "lowering" /\ phase = "lowering"
  BY DEF Working, Lowering, HeadsMacro
<1>12. Types'
  <2>1. \A r \in reads' : r.node \in DOMAIN nodes'
    BY <1>5 DEF Types, NodesKept
  <2>2. Len(stack') >= 1 /\ Len(lets') = Len(nodes')
    BY <1>1, <1>5, <1>6, <1>9
  <2> QED
    BY <1>2, <1>5, <1>6, <1>9, <1>11, <2>1, <2>2 DEF Types
<1>13. Tree'
  BY <1>5
<1>14. Placement'
  <2> SUFFICES ASSUME NEW q \in DOMAIN lets', NEW c \in Range(lets'[q])
               PROVE  IsChild(nodes', c, q) /\ nodes'[c].name # None
    BY DEF Placement
  <2>1. q # x
    BY <1>6, RangeNone
  <2>2. q \in DOMAIN nodes /\ c \in Range(lets[q])
    BY <1>1, <1>6, <2>1
  <2>3. c \in DOMAIN nodes /\ IsChild(nodes, c, q) /\ nodes[c].name # None
    BY <1>1, <2>2 DEF Placement, IsChild
  <2> QED
    BY <1>5, <2>2, <2>3, ChildrenKept DEF NodesKept
<1>15. \A i \in DOMAIN stack : stack[i].node \in DOMAIN nodes /\ stack[i].node < x /\ stack[i].node \in Nat
  BY <1>1, Bodies
<1>16. Stacked'
  <2>1. \A i \in DOMAIN stack :
            /\ stack'[i].node \in DOMAIN nodes'
            /\ nodes'[stack'[i].node].key = stack'[i].key
            /\ nodes'[stack'[i].node].chain = {stack'[k].node : k \in 1..i}
    <3> TAKE i \in DOMAIN stack
    <3>1. nodes'[stack[i].node] = nodes[stack[i].node] /\ stack'[i] = stack[i]
      BY <1>5, <1>9, <1>15 DEF NodesKept
    <3>2. \A k \in 1 .. i : stack'[k] = stack[k]
      BY <1>1, <1>9
    <3>3. {stack'[k].node : k \in 1..i} = {stack[k].node : k \in 1..i}
      BY <3>2
    <3> QED
      BY <1>5, <1>15, <3>1, <3>3 DEF Stacked, NodesKept
  <2>2. nodes'[x].chain = {stack'[k].node : k \in 1 .. n + 1}
    <3>1. nodes'[x].chain = {x} \cup {stack[k].node : k \in 1 .. n}
      BY <1>1, <1>3, <1>5, Bodies
    <3>2. \A k \in 1 .. n : stack'[k].node = stack[k].node
      BY <1>1, <1>9
    <3>3. {stack'[k].node : k \in 1 .. n + 1} = {stack'[k].node : k \in 1 .. n} \cup {stack'[n + 1].node}
      BY <1>1
    <3>4. {stack'[k].node : k \in 1 .. n} = {stack[k].node : k \in 1 .. n}
      BY <3>2
    <3> QED
      BY <1>8, <1>9, <3>1, <3>3, <3>4
  <2>3. \A i \in DOMAIN stack' :
            /\ stack'[i].node \in DOMAIN nodes'
            /\ nodes'[stack'[i].node].key = stack'[i].key
            /\ nodes'[stack'[i].node].chain = {stack'[k].node : k \in 1..i}
    <3>1. /\ stack'[n + 1].node \in DOMAIN nodes'
          /\ nodes'[stack'[n + 1].node].key = stack'[n + 1].key
          /\ nodes'[stack'[n + 1].node].chain = {stack'[k].node : k \in 1 .. n + 1}
      <4>1. stack'[n + 1].node = x /\ stack'[n + 1].key = key /\ nodes'[x].key = key
        BY <1>3, <1>5, <1>8, <1>9
      <4>2. x \in DOMAIN nodes'
        BY <1>1, <1>5
      <4> QED
        BY <2>2, <4>1, <4>2
    <3> QED
      BY <1>10, <2>1, <3>1
  <2>4. \A i \in DOMAIN stack : ContextOf(stack', i) = ContextOf(stack, i)
    BY <1>9 DEF ContextOf
  <2>5. ASSUME NEW i \in DOMAIN stack', i > 1
        PROVE  /\ IsChild(nodes', stack'[i].node, stack'[i - 1].node)
               /\ stack'[i].key \in Functions
               /\ stack'[i].via = "direct"
               /\ stack'[i].means = <<"function", stack'[i].key[1], stack'[i].key[2]>>
               /\ stack'[i].context = ContextOf(stack', i - 1)
    <3>1. i - 1 \in DOMAIN stack /\ stack'[i - 1] = stack[i - 1] /\ ContextOf(stack', i - 1) = ContextOf(stack, i - 1)
      <4>1. i - 1 \in DOMAIN stack
        BY <1>1, <1>9, <2>5
      <4> QED
        BY <1>9, <2>4, <4>1
    <3>2. CASE i \in DOMAIN stack
      <4>1. stack'[i] = stack[i]
        BY <1>9, <3>2
      <4>2. /\ IsChild(nodes, stack[i].node, stack[i - 1].node)
            /\ stack[i].key \in Functions
            /\ stack[i].via = "direct"
            /\ stack[i].means = <<"function", stack[i].key[1], stack[i].key[2]>>
            /\ stack[i].context = ContextOf(stack, i - 1)
        BY <2>5, <3>2 DEF Stacked
      <4>3. IsChild(nodes', stack'[i].node, stack'[i - 1].node)
        BY <1>5, <3>1, <4>1, <4>2, ZenonT(30) DEF IsChild, NodesKept
      <4> QED
        BY <3>1, <4>1, <4>2, <4>3
    <3>3. CASE i = n + 1
      <4>1. stack'[i].node = x /\ stack'[i - 1].node = Entry.node /\ i - 1 = n
        BY <1>1, <1>8, <1>9, <3>1, <3>3
      <4>2. Entry.node < x /\ Entry.node \in DOMAIN nodes' /\ nodes'[Entry.node] = nodes[Entry.node]
        BY <1>1, <1>5, <1>15 DEF NodesKept
      <4>3. IsChild(nodes', x, Entry.node)
        <5>1. nodes'[x].chain = nodes'[Entry.node].chain \cup {x}
          BY <1>1, <1>3, <1>5, <4>2
        <5> QED
          BY <1>1, <1>5, <4>2, <5>1 DEF IsChild
      <4>4. context = ContextOf(stack, n)
        BY <1>n DEF Stacked
      <4> QED
        BY <1>8, <1>9, <3>1, <3>3, <4>1, <4>3, <4>4
    <3> QED
      BY <1>10, <3>2, <3>3
  <2>6. \A i, j \in DOMAIN stack' : i < j => stack'[i].node < stack'[j].node
    <3> TAKE i, j \in DOMAIN stack'
    <3>1. CASE i \in DOMAIN stack /\ j \in DOMAIN stack
      BY <1>9, <3>1 DEF Stacked
    <3>2. CASE j = n + 1
      BY <1>1, <1>8, <1>9, <1>15, <3>2
    <3>3. CASE i = n + 1
      BY <1>1, <1>9, <3>3
    <3> QED
      BY <1>10, <3>1, <3>2, <3>3
  <2>7. \A i, j \in DOMAIN stack' : stack'[i].key = stack'[j].key => i = j
    <3>1. \A i \in DOMAIN stack : stack[i].key # key
      BY DEF Expanding
    <3>2. \A i, j \in DOMAIN stack : stack[i].key = stack[j].key => i = j
      BY DEF Stacked
    <3> QED
      BY <1>8, <1>9, <1>10, <3>1, <3>2
  <2>8. context' = ContextOf(stack', n + 1)
    BY <1>2, <1>8, <1>9 DEF ContextOf
  <2>9. stack'[1].key = NoCall /\ stack'[1].node = 1
    BY <1>1, <1>9 DEF Stacked
  <2> QED
    BY <1>9, <2>3, <2>5, <2>6, <2>7, <2>8, <2>9, ZenonT(30) DEF Stacked
<1>17. \A c \in DOMAIN nodes : Unplaced(lets, c) => Unplaced(lets', c)
  BY <1>1, <1>6, RangeNone DEF Unplaced
<1>18. Unplaced(lets', x)
  BY <1>1, <1>6, RangeNone DEF Unplaced, Placement, IsChild
<1>19. Pending'
  <2>1. \A i \in DOMAIN stack' : Unplaced(lets', stack'[i].node)
    <3> SUFFICES ASSUME NEW i \in DOMAIN stack', NEW c, c = stack'[i].node PROVE Unplaced(lets', c)
      BY DEF Unplaced
    <3>1. CASE i \in DOMAIN stack
      <4>1. c = stack[i].node /\ c \in DOMAIN nodes /\ Unplaced(lets, c)
        BY <1>9, <1>11, <1>15, <3>1 DEF Pending
      <4> QED
        BY <1>17, <4>1
    <3>2. CASE i = n + 1
      BY <1>8, <1>9, <1>18, <3>2
    <3> QED
      BY <1>10, <3>1, <3>2
  <2>2. ASSUME NEW i \in DOMAIN stack', NEW c \in Range(stack'[i].pending)
        PROVE  /\ IsChild(nodes', c, stack'[i].node) /\ nodes'[c].key # NoCall
               /\ Unplaced(lets', c)
               /\ \A j \in DOMAIN stack' : c # stack'[j].node
    <3>1. i \in DOMAIN stack
      BY <1>8, <1>9, <1>10, RangeNone
    <3>2. /\ c \in DOMAIN nodes /\ IsChild(nodes, c, stack[i].node) /\ nodes[c].key # NoCall /\ Unplaced(lets, c)
          /\ \A j \in DOMAIN stack : c # stack[j].node
      BY <1>9, <1>11, <3>1 DEF Pending, IsChild
    <3>3. IsChild(nodes', c, stack'[i].node) /\ nodes'[c].key # NoCall
      BY <1>5, <1>9, <3>1, <3>2 DEF IsChild, NodesKept
    <3>4. c # x
      BY <1>1, <3>2
    <3> QED
      BY <1>8, <1>9, <1>10, <1>17, <3>2, <3>3, <3>4
  <2> QED
    BY <2>1, <2>2 DEF Pending
<1>20. Scoped'
  <2>1. \A k \in DOMAIN stack : stack'[k].declared = stack[k].declared
    BY <1>9
  <2>2. \A a : InScope(stack', a, n + 1) <=> InScope(stack, a, n)
    <3> TAKE a
    <3>1. a \notin DOMAIN stack'[n + 1].declared
      BY <1>8, <1>9, EmptyDeclared
    <3>2. InScope(stack', a, n + 1) <=> InScope(stack', a, n)
      BY <1>1, <3>1, InScopeOfOne
    <3>3. InScope(stack', a, n) <=> InScope(stack, a, n)
      <4>1. n \in Int /\ \A k \in 1 .. n : stack'[k].declared = stack[k].declared
        BY <1>1, <2>1
      <4> QED
        BY <4>1, InScopeKept
    <3> QED
      BY <3>2, <3>3
  <2>4. visible' = {a \in Names : InScope(stack', a, Len(stack'))}
    <3>1. visible = {a \in Names : InScope(stack, a, n)}
      BY <1>n DEF Scoped
    <3> QED
      BY <1>9, <2>2, <3>1
  <2>5. \A i \in DOMAIN stack' : i > 1 => stack'[i].visible = {a \in Names : InScope(stack', a, i - 1)}
    <3> SUFFICES ASSUME NEW i \in DOMAIN stack', i > 1
                 PROVE  stack'[i].visible = {a \in Names : InScope(stack', a, i - 1)}
      OBVIOUS
    <3>1. i - 1 \in DOMAIN stack
      BY <1>1, <1>9
    <3>2. \A a : InScope(stack', a, i - 1) <=> InScope(stack, a, i - 1)
      <4>1. i - 1 \in Int /\ \A k \in 1 .. i - 1 : stack'[k].declared = stack[k].declared
        BY <1>1, <2>1, <3>1
      <4> QED
        BY <4>1, InScopeKept
    <3>3. CASE i \in DOMAIN stack
      BY <1>9, <3>2, <3>3 DEF Scoped
    <3>4. CASE i = n + 1
      <4>1. visible = {a \in Names : InScope(stack, a, n)} /\ i - 1 = n
        BY <1>1, <1>n, <3>4 DEF Scoped
      <4> QED
        BY <1>8, <1>9, <3>2, <3>4, <4>1
    <3> QED
      BY <1>10, <3>3, <3>4
  <2>6. \A i \in DOMAIN stack : lets'[stack'[i].node] = lets[stack[i].node]
    BY <1>6, <1>9, <1>15
  <2>7. Range(lets'[stack'[n + 1].node]) = {} /\ DOMAIN stack'[n + 1].declared = {}
    BY <1>6, <1>8, <1>9, RangeNone, EmptyDeclared
  <2>8. ASSUME NEW i \in DOMAIN stack', NEW a \in DOMAIN stack'[i].declared \cap Names
        PROVE  /\ stack'[i].declared[a] \in Range(lets'[stack'[i].node])
               /\ nodes'[stack'[i].declared[a]].name = a
    <3>1. i \in DOMAIN stack
      BY <1>10, <2>7
    <3>2. stack[i].declared[a] \in Range(lets[stack[i].node]) /\ nodes[stack[i].declared[a]].name = a
      BY <2>1, <3>1 DEF Scoped
    <3>3. stack[i].declared[a] \in DOMAIN nodes
      BY <1>1, <1>15, <3>1, <3>2 DEF Placement, IsChild
    <3> QED
      BY <1>5, <2>1, <2>6, <3>1, <3>2, <3>3 DEF NodesKept
  <2>9. ASSUME NEW i \in DOMAIN stack', NEW c \in Range(lets'[stack'[i].node]), nodes'[c].name \in Names
        PROVE  nodes'[c].name \in DOMAIN stack'[i].declared /\ stack'[i].declared[nodes'[c].name] = c
    <3>1. i \in DOMAIN stack
      BY <1>10, <2>7
    <3>2. c \in Range(lets[stack[i].node])
      BY <2>6, <3>1
    <3>3. nodes'[c] = nodes[c]
      BY <1>1, <1>5, <1>15, <3>1, <3>2 DEF Placement, IsChild, NodesKept
    <3> QED
      BY <1>11, <2>1, <2>9, <3>1, <3>2, <3>3 DEF Scoped
  <2> QED
    BY <2>4, <2>5, <2>8, <2>9 DEF Scoped
<1>21. Kept'
  <2> SUFFICES ASSUME NEW i \in DOMAIN stack', NEW c \in DOMAIN nodes', IsChild(nodes', c, stack'[i].node)
               PROVE  \/ c \in Range(lets'[stack'[i].node])
                      \/ c \in Range(stack'[i].pending)
                      \/ i < Len(stack') /\ c = stack'[i + 1].node
    BY ZenonT(30) DEF Kept, IsChild
  <2>1. i # n + 1
    <3>1. stack'[n + 1].node = x /\ c <= x
      BY <1>1, <1>5, <1>8, <1>9
    <3>2. stack'[i].node < c /\ stack'[i].node \in Nat /\ c \in Nat /\ x \in Nat
      BY <1>1, <1>5 DEF IsChild
    <3> QED
      BY <3>1, <3>2
  <2>2. i \in DOMAIN stack /\ stack'[i] = stack[i] /\ lets'[stack[i].node] = lets[stack[i].node]
    BY <1>6, <1>9, <1>10, <1>15, <2>1
  <2>3. CASE c \in DOMAIN nodes
    <3>1. IsChild(nodes, c, stack[i].node)
      BY <1>5, <1>15, <2>2, <2>3 DEF IsChild, NodesKept
    <3>2. \/ c \in Range(lets[stack[i].node])
          \/ c \in Range(stack[i].pending)
          \/ i < n /\ c = stack[i + 1].node
      BY <1>1, <1>11, <2>2, <2>3, <3>1 DEF Kept
    <3>3. i < n => i + 1 \in DOMAIN stack /\ i < n + 1
      BY <1>1, <2>2
    <3> QED
      BY <1>9, <2>2, <3>2, <3>3
  <2>4. CASE c \notin DOMAIN nodes
    <3>1. c = x
      BY <1>1, <1>5, <2>4
    <3>2. nodes'[c].chain = {c} \cup nodes[Entry.node].chain
      BY <1>3, <1>5, <3>1
    <3>3. IsChild(nodes', c, stack[i].node)
      BY <2>2 DEF IsChild
    <3>4. i = n
      BY <1>1, <1>5, <2>2, <2>4, <3>2, <3>3, NewChild
    <3> QED
      BY <1>1, <1>8, <1>9, <3>1, <3>4
  <2> QED
    BY <2>3, <2>4
<1>22. ScalarsHeld'
  <2>1. \A k \in 1 .. n : Declares(stack, stack', k)
    BY <1>1, <1>9 DEF Declares
  <2>2. ASSUME NEW i \in 0 .. n, NEW j \in Int, i <= j, NEW r, ScalarRead(stack, r, i)
        PROVE  ScalarRead(stack', r, j)
    <3>1. \A k \in 1 .. i : Declares(stack, stack', k)
      <4>1. \A k \in 1 .. i : k \in 1 .. n
        BY <1>1, <2>2
      <4> QED
        BY <2>1, <4>1
    <3> QED
      BY <2>2, <3>1, ScalarReadKept, SMTT(30)
  <2>3. ASSUME NEW y \in Scalars, NEW r \in scalars'[y] PROVE ScalarRead(stack', r, Len(stack'))
    <3>1. ScalarRead(stack, r, n)
      BY <1>n, <2>3 DEF ScalarsHeld
    <3>2. n \in 0 .. n /\ n + 1 \in Int /\ n <= n + 1
      BY <1>1
    <3> QED
      BY <1>9, <2>2, <3>1, <3>2
  <2>4. ASSUME NEW i \in DOMAIN stack', NEW y \in Scalars, NEW r \in stack'[i].scalars[y]
        PROVE  ScalarRead(stack', r, i - 1)
    <3>1. i - 1 \in 0 .. n /\ i - 1 \in Int /\ i - 1 <= i - 1
      BY <1>1, <1>9
    <3>2. ScalarRead(stack, r, i - 1)
      <4>1. CASE i \in DOMAIN stack
        BY <1>9, <2>4, <4>1 DEF ScalarsHeld
      <4>2. CASE i = n + 1
        <5>1. r \in scalars[y] /\ i - 1 = n
          BY <1>1, <1>8, <1>9, <2>4, <4>2
        <5> QED
          BY <1>n, <5>1 DEF ScalarsHeld
      <4> QED
        BY <1>10, <4>1, <4>2
    <3> QED
      BY <2>2, <3>1, <3>2
  <2> QED
    BY <2>3, <2>4 DEF ScalarsHeld
<1>23. ReadsInv'
  <2>1. phase # "refused" /\ reads \subseteq reads' /\ phase' = phase
    BY <1>11
  <2>2. \A i \in DOMAIN stack :
              /\ i \in DOMAIN stack' /\ stack'[i].node = stack[i].node
              /\ stack'[i].visible = stack[i].visible /\ stack'[i].pending = stack[i].pending
    BY <1>9
  <2>3. \A i \in DOMAIN stack' : i \in DOMAIN stack \/ stack'[i].node \notin DOMAIN nodes
    BY <1>1, <1>8, <1>9, <1>10
  <2>4. \A r \in reads : Read(r)'
    BY <1>5, <1>6, <1>11, <2>1, <2>2, <2>3, OldReads
  <2> QED
    BY <2>4 DEF ReadsInv
<1>24. Valued' /\ Qualifying' /\ Faithful' /\ LetsAreNotRecaptured'
  BY <1>11 DEF Valued, Qualifying, Faithful, LetsAreNotRecaptured
<1> QED
  BY <1>12, <1>13, <1>14, <1>16, <1>19, <1>20, <1>21, <1>22, <1>23, <1>24

-----------------------------------------------------------------------------
(* What was lowered is bound or placed.                                    *)

\* A body that declares a name keeps what it declared of the others.
LEMMA DeclaringIs ==
    ASSUME NEW f \in DeclaredType, NEW n \in Names \cup Scalars, NEW v \in Nat \cup {None},
           NEW g, g = Declaring(f, n, v)
    PROVE  /\ g \in DeclaredType /\ DOMAIN g = DOMAIN f \cup {n} /\ g[n] = v
           /\ \A m \in DOMAIN f : m # n => g[m] = f[m]
<1>1. /\ DOMAIN g = DOMAIN f \cup {n} /\ g[n] = v
      /\ \A m \in DOMAIN f : m # n => g[m] = f[m]
  BY DEF Declaring
<1>2. PICK D \in SUBSET (Names \cup Scalars) : f \in [D -> Nat \cup {None}]
  BY DEF DeclaredType
<1>3. g \in [D \cup {n} -> Nat \cup {None}]
  BY <1>2 DEF Declaring
<1>4. D \cup {n} \in SUBSET (Names \cup Scalars)
  OBVIOUS
<1>5. g \in DeclaredType
  BY <1>3, <1>4 DEF DeclaredType
<1> QED
  BY <1>1, <1>5

\* A query is inside one.
LEMMA ParentIsOne ==
    ASSUME Types, Tree, NEW c, NEW p, NEW q, IsChild(nodes, c, p), IsChild(nodes, c, q)
    PROVE  p = q
<1>1. ASSUME NEW a, NEW b, IsChild(nodes, c, a), IsChild(nodes, c, b) PROVE a <= b
  <2>1. a \in nodes[a].chain /\ nodes[b].chain \subseteq 1 .. b /\ a \in Nat /\ b \in Nat /\ c \in Nat /\ a < c
    BY <1>1, TypesOfParts DEF IsChild, Tree
  <2>2. a \in nodes[b].chain \cup {c}
    BY <1>1, <2>1 DEF IsChild
  <2> QED
    BY <2>1, <2>2
<1>2. p \in Nat /\ q \in Nat
  BY TypesOfParts DEF IsChild
<1>3. p <= q
  BY <1>1
<1>4. q <= p
  BY <1>1
<1> QED
  BY <1>2, <1>3, <1>4

\* A new read sees, of the bodies around the innermost, what they bind.
LEMMA BelowSees ==
    ASSUME Types, Tree, Placement, Stacked, Pending, Working, NodesKept, NEW s,
           \A k \in DOMAIN stack : stack[k].node \in nodes'[s.node].chain,
           \A q \in nodes'[s.node].chain : q \in Nat /\ ((\E k \in DOMAIN stack : q = stack[k].node) \/ q > Entry.node),
           NEW k \in DOMAIN stack, k < Len(stack), NEW q, q = stack[k].node, q # s.node, lets'[q] = lets[q]
    PROVE  Sees(s, q)' = Named(k, s.name)
<1>1. k + 1 \in DOMAIN stack /\ k \in Nat /\ k < k + 1
  BY Bodies, TypesOfParts
<1>2. PICK c : c = stack[k + 1].node
  OBVIOUS
<1>3. c \in nodes'[s.node].chain /\ c > q /\ c \in Nat /\ q \in Nat
  <2>1. q < c
    BY <1>1, <1>2, Bodies
  <2> QED
    BY <1>1, <1>2, <2>1, Bodies
<1>4. ASSUME NEW x \in nodes'[s.node].chain, x > q PROVE x >= c
  <2>1. CASE \E j \in DOMAIN stack : x = stack[j].node
    <3>1. PICK j \in DOMAIN stack : x = stack[j].node
      BY <2>1
    <3>2. ~ (j < k) /\ j # k
      <4>1. ~ (x < q) /\ x # q
        BY <1>3, <1>4
      <4> QED
        BY <3>1, <4>1, Bodies
    <3>3. j = k + 1 \/ k + 1 < j
      BY <1>1, <3>2, Bodies
    <3>4. x = c \/ c < x
      BY <1>1, <1>2, <3>1, <3>3, Bodies
    <3> QED
      BY <1>3, <1>4, <3>4
  <2>2. CASE x > Entry.node
    <3>1. k + 1 = Len(stack) \/ k + 1 < Len(stack)
      BY <1>1, TypesOfParts
    <3>2. c = Entry.node \/ c < Entry.node
      BY <1>1, <1>2, <3>1, Bodies
    <3>3. Entry.node \in Nat
      BY <1>1, Bodies, TypesOfParts
    <3> QED
      BY <1>3, <1>4, <2>2, <3>2, <3>3
  <2> QED
    BY <2>1, <2>2
<1>5. nodes'[s.node].chain \in SUBSET Nat
  OBVIOUS
<1>6. Sees(s, q)' = Given(nodes', lets[q], c, s.name)
  BY <1>3, <1>4, <1>5, SeesNew
<1>7. c \notin Range(lets[q])
  BY <1>1, <1>2, Bodies, TypesOfParts DEF Pending, Unplaced
<1>8. Given(nodes', lets[q], c, s.name) = {y \in Range(lets[q]) : nodes'[y].name = s.name}
  BY <1>7, GivenIn
<1>9. \A y \in Range(lets[q]) : nodes'[y] = nodes[y]
  BY Bodies, TypesOfParts DEF Placement, IsChild, NodesKept
<1>10. Named(k, s.name) = {y \in Range(lets[q]) : nodes[y].name = s.name}
  BY <1>1, TypesOfParts DEF Named
<1> QED
  BY <1>6, <1>8, <1>9, <1>10

\* A let put last sees those before it.
LEMMA GivenLast ==
    ASSUME NEW S, NEW K \in Seq(S), NEW c \in S, c \notin Range(K), NEW n, NEW N
    PROVE  Given(N, K \o <<c>>, c, n) = {x \in Range(K) : N[x].name = n}
<1>1. PICK A : A = K \o <<c>>
  OBVIOUS
<1>2. /\ A \in Seq(S) /\ Len(A) = Len(K) + 1 /\ \A i \in 1 .. Len(K) : A[i] = K[i]
      /\ A[Len(K) + 1] = c /\ DOMAIN A = 1 .. Len(K) + 1 /\ DOMAIN K = 1 .. Len(K) /\ Len(K) \in Nat
  BY <1>1
<1>3. Places(A, c) = {Len(K) + 1}
  <2>1. \A i \in DOMAIN K : K[i] # c
    BY DEF Range
  <2>2. \A i \in DOMAIN A : i \in DOMAIN K \/ i = Len(K) + 1
    BY <1>2
  <2> QED
    BY <1>2, <2>1, <2>2 DEF Places
<1>4. Min(Places(A, c)) = Len(K) + 1
  <2>1. Places(A, c) \in SUBSET Nat /\ Places(A, c) # {}
    BY <1>2, <1>3
  <2>2. Min(Places(A, c)) \in Places(A, c)
    BY <2>1, MinIs
  <2> QED
    BY <1>3, <2>2
<1>5. Earlier(A, c) = {i \in DOMAIN A : i < Len(K) + 1}
  BY <1>3, <1>4 DEF Earlier
<1>6. Earlier(A, c) = DOMAIN K
  BY <1>2, <1>5
<1>7. \A i \in DOMAIN K : A[i] = K[i]
  BY <1>2
<1>8. Given(N, A, c, n) = {x \in Range(K) : N[x].name = n}
  BY <1>6, <1>7 DEF Given, Range
<1> QED
  BY <1>1, <1>8

\* What three sequences hold one after the other.
LEMMA ThreeLists ==
    ASSUME NEW S, NEW L \in Seq(S), NEW P \in Seq(S), NEW M \in Seq(S)
    PROVE  /\ (L \o P) \o M \in Seq(S)
           /\ Len((L \o P) \o M) = Len(L) + Len(P) + Len(M)
           /\ Range((L \o P) \o M) = Range(L) \cup Range(P) \cup Range(M)
<1>1. PICK K : K = L \o P
  OBVIOUS
<1>2. K \in Seq(S) /\ Len(K) = Len(L) + Len(P)
  BY <1>1
<1>3. Range(K) = Range(L) \cup Range(P)
  BY <1>1, Concat
<1>4. K \o M \in Seq(S) /\ Len(K \o M) = Len(K) + Len(M)
  <2>1. K \in Seq(S)
    BY <1>2
  <2>2. ASSUME NEW A \in Seq(S), NEW B \in Seq(S) PROVE A \o B \in Seq(S) /\ Len(A \o B) = Len(A) + Len(B)
    OBVIOUS
  <2> QED
    BY <2>1, <2>2, Zenon
<1>5. Range(K \o M) = Range(K) \cup Range(M)
  BY <1>2, Concat
<1> QED
  BY <1>1, <1>2, <1>3, <1>4, <1>5

\* What was read stays read when what was pending is placed.
LEMMA PlacedReads ==
    ASSUME Types, Tree, Placement, Stacked, Pending, Kept, ReadsInv, Working, NodesKept,
           NEW M \in Seq(Nat), M = <<>> \/ ~HeadsMacro,
           lets'[Entry.node] = (lets[Entry.node] \o Entry.pending) \o M,
           \A q \in DOMAIN nodes : q # Entry.node => lets'[q] = lets[q],
           reads \subseteq reads',
           \A i \in DOMAIN stack : i < Len(stack) =>
              /\ Working' /\ i \in DOMAIN stack' /\ stack'[i].node = stack[i].node
              /\ stack[i].pending # <<>> => stack'[i].pending # <<>>,
           Working' => \A i \in DOMAIN stack' : \E j \in DOMAIN stack \cup {0} :
              stack'[i].node = IF j = 0 THEN Fresh ELSE stack[j].node,
           NEW r \in reads, Awaits(r) => Awaits(r)' \/ r.means[2] = Home
    PROVE  Read(r)'
<1>1. Read(r) /\ r.node \in DOMAIN nodes
  BY DEF ReadsInv, Types, Working
<1>2. \A i \in DOMAIN stack : r.node # stack[i].node
  BY <1>1 DEF Read
<1>3. \A q \in nodes[r.node].chain :
         /\ Sees(r, q) \subseteq Sees(r, q)'
         /\ r.name \in Names => Sees(r, q)' = Sees(r, q)
  BY <1>1, <1>2, PlacedSees
<1>4. ASSUME Moved(r) PROVE Moved(r)'
  <2>1. PICK q \in nodes[r.node].chain, m \in reads :
            /\ m.via = "spliced" /\ m.node \in Range(lets[q])
            /\ \/ Len(lets[q]) > 1
               \/ Working /\ \E i \in DOMAIN stack : stack[i].node = q /\ stack[i].pending # <<>>
    BY <1>4 DEF Moved
  <2>2. q \in nodes'[r.node].chain /\ m \in reads' /\ q \in DOMAIN nodes
    BY <1>1, ChainIn DEF NodesKept
  <2>3. CASE q # Entry.node
    <3>1. lets'[q] = lets[q]
      BY <2>2, <2>3
    <3>2. ASSUME NEW i \in DOMAIN stack, stack[i].node = q, stack[i].pending # <<>>
          PROVE  Working' /\ \E j \in DOMAIN stack' : stack'[j].node = q /\ stack'[j].pending # <<>>
      <4>1. i < Len(stack)
        BY <2>3, <3>2, Bodies, TypesOfParts
      <4> QED
        BY <3>2, <4>1
    <3> QED
      BY <2>1, <2>2, <3>1, <3>2 DEF Moved
  <2>4. CASE q = Entry.node
    <3> DEFINE L == lets[Entry.node]
               P == Entry.pending
    <3>1. L \in Seq(Nat) /\ P \in Seq(Nat)
      BY <2>2, <2>4, TypesOfParts, BodyFields
    <3>2. /\ Len((L \o P) \o M) = Len(L) + Len(P) + Len(M)
          /\ Range(L) \subseteq Range((L \o P) \o M)
      BY <3>1, ThreeLists
    <3>3. Len(lets[q]) > 1 \/ P # <<>>
      <4>1. ASSUME NEW i \in DOMAIN stack, stack[i].node = q PROVE stack[i].pending = P
        BY <2>4, <4>1, Bodies
      <4> QED
        BY <2>1, <4>1
    <3>4. Len(L) >= 1
      BY <2>1, <2>4, <3>1, RangeSeq
    <3>5. P # <<>> => Len(P) >= 1
      BY <3>1
    <3>6. Len(lets'[q]) > 1
      <4>1. Len(lets'[q]) = Len(L) + Len(P) + Len(M)
        BY <2>4, <3>2
      <4>2. Len(L) \in Nat /\ Len(P) \in Nat /\ Len(M) \in Nat /\ lets[q] = L
        BY <2>4, <3>1
      <4> HIDE DEF L, P
      <4> QED
        BY <3>3, <3>4, <3>5, <4>1, <4>2
    <3>7. m.node \in Range(lets'[q])
      BY <2>1, <2>4, <3>2
    <3> QED
      BY <2>1, <2>2, <3>6, <3>7 DEF Moved
  <2> QED
    BY <2>3, <2>4
<1>5. Working' => \A i \in DOMAIN stack' : r.node # stack'[i].node
  <2>1. Fresh \notin DOMAIN nodes
    BY TypesOfParts DEF Fresh
  <2> QED
    BY <1>1, <1>2, <2>1
<1> QED
  BY <1>1, <1>3, <1>4, <1>5, ReadStays

\* Bodies that keep their queries keep the order they are in.
LEMMA SameBodies ==
    ASSUME Types, Stacked, NodesKept, DOMAIN stack' = DOMAIN stack, Len(stack') = Len(stack), context' = context,
           \A i \in DOMAIN stack :
              /\ stack'[i].node = stack[i].node /\ stack'[i].key = stack[i].key /\ stack'[i].via = stack[i].via
              /\ stack'[i].means = stack[i].means /\ stack'[i].context = stack[i].context
    PROVE  Stacked'
<1>1. DOMAIN stack = 1 .. Len(stack) /\ Len(stack) \in Nat /\ 1 \in DOMAIN stack
  BY TypesOfParts DEF Types
<1>2. \A i \in DOMAIN stack : ContextOf(stack', i) = ContextOf(stack, i)
  BY DEF ContextOf
<1>3. ASSUME NEW i \in DOMAIN stack
      PROVE  /\ stack'[i].node \in DOMAIN nodes'
             /\ nodes'[stack'[i].node].key = stack'[i].key
             /\ nodes'[stack'[i].node].chain = {stack'[k].node : k \in 1..i}
  <2>1. stack[i].node \in DOMAIN nodes /\ nodes'[stack[i].node] = nodes[stack[i].node]
    BY DEF Stacked, NodesKept
  <2>2. \A k \in 1 .. i : stack'[k].node = stack[k].node
    BY <1>1
  <2>3. {stack'[k].node : k \in 1..i} = {stack[k].node : k \in 1..i}
    BY <2>2
  <2>4. stack'[i].node = stack[i].node /\ stack'[i].key = stack[i].key
    OBVIOUS
  <2>5. nodes[stack[i].node].key = stack[i].key /\ nodes[stack[i].node].chain = {stack[k].node : k \in 1..i}
    BY DEF Stacked
  <2>6. stack[i].node \in DOMAIN nodes'
    BY <2>1 DEF NodesKept
  <2> QED
    BY <2>1, <2>3, <2>4, <2>5, <2>6
<1>4. ASSUME NEW i \in DOMAIN stack, i > 1
      PROVE  /\ IsChild(nodes', stack'[i].node, stack'[i - 1].node)
             /\ stack'[i].key \in Functions
             /\ stack'[i].via = "direct"
             /\ stack'[i].means = <<"function", stack'[i].key[1], stack'[i].key[2]>>
             /\ stack'[i].context = ContextOf(stack', i - 1)
  <2>1. i - 1 \in DOMAIN stack
    BY <1>1, <1>4
  <2>2. IsChild(nodes, stack[i].node, stack[i - 1].node)
    BY <1>4 DEF Stacked
  <2>3. IsChild(nodes', stack[i].node, stack[i - 1].node)
    BY <2>2 DEF IsChild, NodesKept
  <2>4. stack'[i].node = stack[i].node /\ stack'[i - 1].node = stack[i - 1].node
    BY <2>1
  <2> QED
    BY <1>2, <1>4, <2>1, <2>3, <2>4 DEF Stacked
<1>5. /\ \A i, j \in DOMAIN stack' : i < j => stack'[i].node < stack'[j].node
      /\ \A i, j \in DOMAIN stack' : stack'[i].key = stack'[j].key => i = j
  BY DEF Stacked
<1>6. stack'[1].key = NoCall /\ stack'[1].node = 1
  BY <1>1 DEF Stacked
<1>7. context' = ContextOf(stack', Len(stack'))
  BY <1>1, <1>2 DEF Stacked
<1> QED
  BY <1>3, <1>4, <1>5, <1>6, <1>7 DEF Stacked

\* The value of a let is no macro-expand's: nor is any other read of it.
LEMMA NoMacro ==
    ASSUME \A r \in value : r.via # "macro"
    PROVE  ~HeadsMacro
  BY DEF HeadsMacro

\* A tabular let is a query with a name, placed after what was pending.
LEMMA LetTableStep ==
    ASSUME IInv, NEW n \in Names, LetTable(n)
    PROVE  IInv'
<1> USE DEF IInv
<1>x. PICK x : x = Len(nodes) + 1
  OBVIOUS
<1>l. PICK l : l = Len(stack)
  OBVIOUS
<1>e. PICK e : e = [name |-> n, key |-> NoCall, chain |-> {x} \cup nodes[Entry.node].chain]
  OBVIOUS
<1>q. PICK q0, L, P : q0 = Entry.node /\ L = lets[Entry.node] /\ P = Entry.pending
  OBVIOUS
<1>1. /\ DOMAIN nodes = 1 .. Len(nodes) /\ DOMAIN lets = DOMAIN nodes /\ Len(nodes) \in Nat
      /\ DOMAIN stack = 1 .. l /\ l \in Nat /\ l \in DOMAIN stack
      /\ Entry = stack[l] /\ Entry \in BodyType
      /\ q0 \in DOMAIN nodes /\ nodes[q0].chain \subseteq Nat
      /\ l = Len(stack) /\ x = Len(nodes) + 1 /\ stack[l].node = q0 /\ stack[l].pending = P
      /\ L \in Seq(Nat) /\ P \in Seq(Nat) /\ lets[q0] = L /\ Entry.node = q0 /\ Fresh = x
  BY TypesOfParts, Bodies, BodyFields, <1>x, <1>l, <1>q DEF Fresh
<1>29. \A i \in DOMAIN stack : stack[i].node \in DOMAIN nodes
  BY Bodies
<1>30. \A i \in DOMAIN stack : stack[i].node \in Nat
  BY Bodies
<1>31. \A i \in DOMAIN stack : i # l => i < l
  BY <1>1
<1>34. \A i, j \in DOMAIN stack : i # j => stack[i].node # stack[j].node
  BY BodiesInOrder
<1>33. \A i \in DOMAIN stack : i # l => stack[i].node # q0
  BY <1>1, <1>34
<1>35. \A i \in DOMAIN stack : i < l => stack[i].node < q0
  BY <1>1, Bodies, SMTT(30)
<1>32. \A i \in DOMAIN stack : ~ (stack[i].node > q0)
  BY <1>1, <1>30, <1>31, <1>35
<1>2. /\ value # {} /\ \A r \in value : r.via # "macro"
      /\ n \notin DOMAIN stack[l].declared /\ phase = "lowering" /\ phase' = "lowering" /\ value' = {}
      /\ nodes' = Append(nodes, e) /\ reads' = reads \cup At(x, value) /\ visible' = visible \cup {n}
      /\ UNCHANGED <<scalars, context>>
  BY <1>1, <1>e DEF LetTable, Lowering
<1>3. Working /\ Working' /\ ~HeadsMacro /\ ~HeadsMacro'
  BY <1>2, NoMacro DEF Working, HeadsMacro
<1>4. e \in NodeType /\ e.chain = {x} \cup nodes[q0].chain /\ e.name = n /\ e.key = NoCall
  BY <1>1, <1>e DEF NodeType
<1>5. /\ nodes' \in Seq(NodeType) /\ Tree' /\ Len(nodes') = x /\ nodes'[x] = e
      /\ DOMAIN nodes' = 1 .. x /\ NodesKept
  <2>1. e.chain = {Fresh} \cup nodes[Entry.node].chain /\ e.name \in Names \cup {None, Fresh}
        /\ (e.key # NoCall => e.name = Fresh)
    BY <1>1, <1>4
  <2>2. /\ nodes' \in Seq(NodeType) /\ Tree' /\ Len(nodes') = Fresh /\ nodes'[Fresh] = e
        /\ DOMAIN nodes' = 1 .. Fresh /\ NodesKept
    BY <1>2, <1>4, <2>1, NodeAdded
  <2> QED
    BY <1>1, <2>2
<1>6. /\ <<x>> \in Seq(Nat) /\ (L \o P) \o <<x>> \in Seq(Nat)
      /\ Range((L \o P) \o <<x>>) = Range(L) \cup Range(P) \cup {x}
  <2>1. x \in Nat
    BY <1>1
  <2>2. PICK M : M = <<x>>
    OBVIOUS
  <2>3. M \in Seq(Nat) /\ Range(M) = {x}
    BY <2>1, <2>2, RangeOne
  <2>4. (L \o P) \o M \in Seq(Nat)
    BY <1>1, <2>3, ThreeLists
  <2>5. Range((L \o P) \o M) = Range(L) \cup Range(P) \cup Range(M)
    BY <1>1, <2>3, ThreeLists
  <2> QED
    BY <2>2, <2>3, <2>4, <2>5
<1>7. /\ lets' \in Seq(Seq(Nat)) /\ Len(lets') = x /\ lets'[x] = <<>> /\ DOMAIN lets' = 1 .. x
      /\ lets'[q0] = (L \o P) \o <<x>>
      /\ \A q \in DOMAIN nodes : q # q0 => lets'[q] = lets[q]
  <2>1. PICK K : K = (L \o P) \o <<x>>
    OBVIOUS
  <2>2. PICK M : M = [lets EXCEPT ![q0] = K]
    OBVIOUS
  <2>3. lets' = Append(M, <<>>)
    BY <1>1, <2>1, <2>2 DEF LetTable, Placed
  <2>4. lets \in Seq(Seq(Nat)) /\ K \in Seq(Nat) /\ <<>> \in Seq(Nat) /\ Len(lets) = Len(nodes)
    BY <1>6, <2>1 DEF Types
  <2>5. M \in Seq(Seq(Nat)) /\ Len(M) = Len(nodes) /\ M[q0] = K /\ \A q \in DOMAIN nodes : q # q0 => M[q] = lets[q]
    BY <1>1, <2>2, <2>4
  <2>6. /\ lets' \in Seq(Seq(Nat)) /\ Len(lets') = x /\ lets'[x] = <<>> /\ DOMAIN lets' = 1 .. x
        /\ \A q \in DOMAIN nodes : lets'[q] = M[q]
    BY <1>1, <2>3, <2>4, <2>5
  <2> QED
    BY <1>1, <2>1, <2>5, <2>6
<1>8. PICK b : b = [stack[l] EXCEPT !.pending = <<>>, !.declared = Declaring(@, n, x)]
  OBVIOUS
<1>9. /\ b.node = q0 /\ b.key = stack[l].key /\ b.via = stack[l].via /\ b.means = stack[l].means
      /\ b.pending = <<>> /\ b.visible = stack[l].visible /\ b.scalars = stack[l].scalars
      /\ b.context = stack[l].context /\ b \in BodyType
      /\ DOMAIN b.declared = DOMAIN stack[l].declared \cup {n} /\ b.declared[n] = x
      /\ \A a \in DOMAIN stack[l].declared : a # n => b.declared[a] = stack[l].declared[a]
  <2>1. PICK g, f : f = stack[l].declared /\ g = Declaring(f, n, x)
    OBVIOUS
  <2>2. b = [stack[l] EXCEPT !.pending = <<>>, !.declared = g]
    BY <1>8, <2>1
  <2>3. f \in DeclaredType /\ n \in Names \cup Scalars /\ x \in Nat \cup {None}
    BY <1>1, <2>1, BodyFields
  <2>4. /\ g \in DeclaredType /\ DOMAIN g = DOMAIN f \cup {n} /\ g[n] = x
        /\ \A m \in DOMAIN f : m # n => g[m] = f[m]
    <3>1. g = Declaring(f, n, x)
      BY <2>1
    <3>2. g \in DeclaredType
      BY <2>3, <3>1, DeclaringIs
    <3>3. DOMAIN g = DOMAIN f \cup {n} /\ g[n] = x
      BY <2>3, <3>1, DeclaringIs
    <3>4. \A m \in DOMAIN f : m # n => g[m] = f[m]
      BY <3>1 DEF Declaring
    <3> QED
      BY <3>2, <3>3, <3>4
  <2>5. <<>> \in Seq(Nat)
    OBVIOUS
  <2> QED
    BY <1>1, <2>1, <2>2, <2>4, <2>5 DEF BodyType
<1>10. /\ stack' \in Seq(BodyType) /\ Len(stack') = l /\ stack'[l] = b /\ DOMAIN stack' = DOMAIN stack
       /\ \A i \in DOMAIN stack : i # l => stack'[i] = stack[i]
  <2>0. b = [stack[Len(stack)] EXCEPT !.pending = <<>>, !.declared = Declaring(@, n, Fresh)]
    BY <1>1, <1>8
  <2>1. stack' = [stack EXCEPT ![Len(stack)] = b]
    BY <1>1, <1>8 DEF LetTable
  <2>2. stack \in Seq(BodyType) /\ Len(stack) >= 1
    BY DEF Types
  <2>3. stack' \in Seq(BodyType) /\ Len(stack') = Len(stack)
           /\ \A i \in 1 .. Len(stack) : stack'[i] = IF i = Len(stack) THEN b ELSE stack[i]
    BY <1>1, <1>9, <2>1, <2>2, Replaced
  <2>4. DOMAIN stack' = 1 .. Len(stack')
    BY <2>3
  <2> QED
    BY <1>1, <2>3, <2>4
<1>11. \A i \in DOMAIN stack :
          /\ stack'[i].node = stack[i].node /\ stack'[i].key = stack[i].key /\ stack'[i].via = stack[i].via
          /\ stack'[i].means = stack[i].means /\ stack'[i].context = stack[i].context
          /\ stack'[i].visible = stack[i].visible /\ stack'[i].scalars = stack[i].scalars
  BY <1>1, <1>9, <1>10
<1>12. value \in SUBSET RefType
  BY <1>2 DEF Types
<1>13. \A r \in value : r \in RefType /\ [r EXCEPT !.node = x] \in RefType /\ [r EXCEPT !.node = x].node = x
  <2> TAKE r \in value
  <2>1. r \in RefType /\ x \in Nat
    BY <1>1, <1>12
  <2> QED
    BY <2>1, PlacedTyped
<1>14. Types'
  <2>1. \A s \in At(x, value) : s \in RefType /\ s.node = x
    BY <1>13 DEF At
  <2>2. reads' \in SUBSET RefType /\ \A r \in reads' : r.node \in DOMAIN nodes'
    BY <1>1, <1>2, <1>5, <2>1 DEF Types, NodesKept
  <2>3. visible' \in SUBSET Names /\ scalars' \in [Scalars -> SUBSET RefType] /\ context' \in Databases
    BY <1>2 DEF Types
  <2> QED
    BY <1>1, <1>2, <1>5, <1>7, <1>10, <2>2, <2>3 DEF Types
<1>15. \A c \in Range(P) : /\ c \in DOMAIN nodes /\ IsChild(nodes, c, q0) /\ nodes[c].key # NoCall
                           /\ nodes[c].name = c /\ nodes[c].name \notin Names /\ nodes[c].name # None
                           /\ Unplaced(lets, c) /\ \A j \in DOMAIN stack : c # stack[j].node
  <2> TAKE c \in Range(P)
  <2>1. l \in DOMAIN stack /\ c \in Range(stack[l].pending) /\ stack[l].node = q0
    BY <1>1
  <2>2. /\ IsChild(nodes, c, q0) /\ nodes[c].key # NoCall /\ Unplaced(lets, c)
        /\ \A j \in DOMAIN stack : c # stack[j].node
    BY <1>3, <2>1 DEF Pending
  <2>3. c \in DOMAIN nodes
    BY <2>2 DEF IsChild
  <2> QED
    BY <2>2, <2>3, CallHasNumber
<1>16. IsChild(nodes', x, q0)
  <2>1. nodes'[x].chain = nodes'[q0].chain \cup {x}
    BY <1>1, <1>4, <1>5 DEF NodesKept
  <2> QED
    BY <1>1, <1>5, <2>1 DEF IsChild
<1>17. \A c \in DOMAIN nodes, q \in DOMAIN nodes : IsChild(nodes', c, q) <=> IsChild(nodes, c, q)
  BY <1>5, ChildrenKept
<1>18. Placement'
  <2> SUFFICES ASSUME NEW q \in DOMAIN lets', NEW c \in Range(lets'[q])
               PROVE  IsChild(nodes', c, q) /\ nodes'[c].name # None
    BY DEF Placement
  <2>1. q # x
    BY <1>7, RangeNone
  <2>2. q \in DOMAIN nodes
    BY <1>1, <1>7, <2>1
  <2>3. CASE c \in Range(lets[q])
    <3>1. c \in DOMAIN nodes /\ IsChild(nodes, c, q) /\ nodes[c].name # None
      BY <1>1, <2>2, <2>3 DEF Placement, IsChild
    <3> QED
      BY <1>5, <1>17, <2>2, <3>1 DEF NodesKept
  <2>4. CASE q = q0 /\ c \in Range(P)
    BY <1>1, <1>5, <1>15, <1>17, <2>4 DEF NodesKept
  <2>5. CASE q = q0 /\ c = x
    BY <1>4, <1>5, <1>16, <2>5, NamesAreNot
  <2> QED
    BY <1>1, <1>6, <1>7, <2>2, <2>3, <2>4, <2>5, ZenonT(30)
<1>19. Stacked'
  BY <1>1, <1>2, <1>5, <1>10, <1>11, SameBodies
<1>20. \A c \in DOMAIN nodes : Unplaced(lets, c) /\ c \notin Range(P) => Unplaced(lets', c)
  <2> SUFFICES ASSUME NEW c \in DOMAIN nodes, Unplaced(lets, c), c \notin Range(P), NEW q \in DOMAIN lets'
               PROVE  c \notin Range(lets'[q])
    BY DEF Unplaced
  <2>1. c # x
    BY <1>1
  <2>2. q = x \/ (q \in DOMAIN nodes /\ q # q0) \/ q = q0
    BY <1>1, <1>7
  <2>3. Range(lets'[x]) = {}
    BY <1>7, RangeNone
  <2>4. c \notin Range(L) /\ \A p \in DOMAIN nodes : c \notin Range(lets[p])
    BY <1>1 DEF Unplaced
  <2> QED
    BY <1>6, <1>7, <2>1, <2>2, <2>3, <2>4
<1>21. Pending'
  <2>1. ASSUME NEW i \in DOMAIN stack' PROVE Unplaced(lets', stack'[i].node)
    <3>1. /\ i \in DOMAIN stack /\ stack'[i].node = stack[i].node /\ stack[i].node \in DOMAIN nodes
          /\ Unplaced(lets, stack[i].node)
      BY <1>3, <1>10, <1>11, Bodies DEF Pending
    <3>2. stack[i].node \notin Range(P)
      BY <1>15, <3>1
    <3> QED
      BY <1>20, <3>1, <3>2
  <2>2. ASSUME NEW i \in DOMAIN stack', NEW c \in Range(stack'[i].pending)
        PROVE  /\ IsChild(nodes', c, stack'[i].node) /\ nodes'[c].key # NoCall
               /\ Unplaced(lets', c)
               /\ \A j \in DOMAIN stack' : c # stack'[j].node
    <3>1. i # l
      BY <1>9, <1>10, RangeNone
    <3>2. i \in DOMAIN stack /\ c \in Range(stack[i].pending) /\ stack[i].node \in DOMAIN nodes
      BY <1>10, <3>1, Bodies
    <3>3. /\ c \in DOMAIN nodes /\ IsChild(nodes, c, stack[i].node) /\ nodes[c].key # NoCall /\ Unplaced(lets, c)
          /\ \A j \in DOMAIN stack : c # stack[j].node
      BY <1>3, <3>2 DEF Pending, IsChild
    <3>4. c \notin Range(P)
      <4> SUFFICES ASSUME c \in Range(P) PROVE FALSE
        OBVIOUS
      <4>1. IsChild(nodes, c, q0)
        BY <1>15
      <4>2. stack[i].node = stack[l].node
        BY <1>1, <3>3, <4>1, ParentIsOne
      <4> QED
        BY <1>1, <3>1, <3>2, <4>2, Bodies
    <3> QED
      BY <1>5, <1>10, <1>11, <1>17, <1>20, <3>2, <3>3, <3>4 DEF NodesKept
  <2> QED
    BY <2>1, <2>2 DEF Pending
<1>22. Scoped'
  <2>1. \A i \in Nat : i < l => \A a : InScope(stack', a, i) <=> InScope(stack, a, i)
    <3> TAKE i \in Nat
    <3> HAVE i < l
    <3>0. DOMAIN stack = 1 .. l /\ l \in Nat
      BY <1>1
    <3>1. \A k \in 1 .. i : k \in DOMAIN stack /\ k # l
      BY <3>0
    <3>2. i \in Int /\ \A k \in 1 .. i : stack'[k].declared = stack[k].declared
      BY <1>10, <3>1
    <3> QED
      BY <3>2, InScopeKept
  <2>2. \A a : InScope(stack', a, l) <=> InScope(stack, a, l) \/ a = n
    <3> TAKE a
    <3>1. l - 1 \in Nat /\ l - 1 < l /\ (l - 1) + 1 = l
      BY <1>1
    <3>2. InScope(stack', a, l) <=> InScope(stack', a, l - 1) \/ a \in DOMAIN stack'[l].declared
      BY <3>1, InScopeOfOne
    <3>3. InScope(stack, a, l) <=> InScope(stack, a, l - 1) \/ a \in DOMAIN stack[l].declared
      BY <3>1, InScopeOfOne
    <3> QED
      BY <1>9, <1>10, <2>1, <3>1, <3>2, <3>3
  <2>3. visible' = {a \in Names : InScope(stack', a, Len(stack'))}
    <3>1. visible = {a \in Names : InScope(stack, a, l)}
      BY <1>1 DEF Scoped
    <3> QED
      BY <1>2, <1>10, <2>2, <3>1
  <2>4. \A i \in DOMAIN stack' : i > 1 => stack'[i].visible = {a \in Names : InScope(stack', a, i - 1)}
    <3> SUFFICES ASSUME NEW i \in DOMAIN stack', i > 1
                 PROVE  stack'[i].visible = {a \in Names : InScope(stack', a, i - 1)}
      OBVIOUS
    <3>1. i \in DOMAIN stack /\ i - 1 \in Nat /\ i - 1 < l
      BY <1>1, <1>10
    <3>2. stack[i].visible = {a \in Names : InScope(stack, a, i - 1)}
      BY <3>1 DEF Scoped
    <3> QED
      BY <1>11, <2>1, <3>1, <3>2
  <2>5. \A i \in DOMAIN stack : i # l => stack[i].node \in DOMAIN nodes /\ stack[i].node # q0
                                       /\ lets'[stack[i].node] = lets[stack[i].node]
    BY <1>29, <1>30, <1>32, <1>33, <1>7
  <2>6. ASSUME NEW i \in DOMAIN stack', NEW a \in DOMAIN stack'[i].declared \cap Names
        PROVE  /\ stack'[i].declared[a] \in Range(lets'[stack'[i].node])
               /\ nodes'[stack'[i].declared[a]].name = a
    <3>1. CASE i = l /\ a = n
      BY <1>4, <1>5, <1>6, <1>7, <1>9, <1>10, <3>1
    <3>2. CASE ~ (i = l /\ a = n)
      <4>1. i \in DOMAIN stack /\ a \in DOMAIN stack[i].declared /\ stack'[i].declared[a] = stack[i].declared[a]
        BY <1>9, <1>10, <2>6, <3>2
      <4>2. stack[i].declared[a] \in Range(lets[stack[i].node]) /\ nodes[stack[i].declared[a]].name = a
        BY <4>1 DEF Scoped
      <4>3. stack[i].declared[a] \in DOMAIN nodes
        BY <1>1, <4>1, <4>2, Bodies DEF Placement, IsChild
      <4>4. Range(lets[stack[i].node]) \subseteq Range(lets'[stack'[i].node])
        <5>1. stack'[i].node = stack[i].node
          BY <1>11, <4>1
        <5>2. CASE i = l
          <6>1. lets[stack[i].node] = L /\ lets'[stack[i].node] = (L \o P) \o <<x>>
            BY <1>1, <1>7, <5>2
          <6> QED
            BY <1>6, <5>1, <6>1
        <5>3. CASE i # l
          BY <2>5, <4>1, <5>1, <5>3
        <5> QED
          BY <5>2, <5>3
      <4> QED
        BY <1>5, <4>1, <4>2, <4>3, <4>4 DEF NodesKept
    <3> QED
      BY <3>1, <3>2
  <2>7. ASSUME NEW i \in DOMAIN stack', NEW c \in Range(lets'[stack'[i].node]), nodes'[c].name \in Names
        PROVE  nodes'[c].name \in DOMAIN stack'[i].declared /\ stack'[i].declared[nodes'[c].name] = c
    <3>1. i \in DOMAIN stack /\ stack'[i].node = stack[i].node /\ stack[i].node \in DOMAIN nodes
      BY <1>10, <1>11, Bodies
    <3>2. CASE i = l /\ c = x
      BY <1>4, <1>5, <1>9, <1>10, <3>2
    <3>3. CASE c \in Range(lets[stack[i].node])
      <4>1. nodes'[c] = nodes[c]
        BY <1>1, <1>5, <3>1, <3>3 DEF Placement, IsChild, NodesKept
      <4>2. nodes[c].name \in DOMAIN stack[i].declared /\ stack[i].declared[nodes[c].name] = c
        BY <1>3, <2>7, <3>1, <3>3, <4>1 DEF Scoped
      <4>3. i = l => nodes[c].name # n
        BY <1>2, <4>2
      <4> QED
        BY <1>9, <1>10, <3>1, <4>1, <4>2, <4>3
    <3>4. CASE i = l /\ c \in Range(P)
      BY <1>5, <1>15, <2>7, <3>4 DEF NodesKept
    <3>5. CASE i = l
      <4>1. c \in Range(L) \cup Range(P) \cup {x}
        BY <1>1, <1>6, <1>7, <2>7, <3>1, <3>5
      <4>2. lets[stack[i].node] = L
        BY <1>1, <3>5
      <4> QED
        BY <3>2, <3>3, <3>4, <3>5, <4>1, <4>2
    <3>6. CASE i # l
      BY <2>5, <2>7, <3>1, <3>3, <3>6
    <3> QED
      BY <3>5, <3>6
  <2> QED
    BY <2>3, <2>4, <2>6, <2>7 DEF Scoped
<1>23. Kept'
  <2> SUFFICES ASSUME NEW i \in DOMAIN stack', NEW c \in DOMAIN nodes', IsChild(nodes', c, stack'[i].node)
               PROVE  \/ c \in Range(lets'[stack'[i].node])
                      \/ c \in Range(stack'[i].pending)
                      \/ i < Len(stack') /\ c = stack'[i + 1].node
    BY DEF Kept, IsChild
  <2>1. i \in DOMAIN stack /\ stack'[i].node = stack[i].node /\ stack[i].node \in DOMAIN nodes
    BY <1>10, <1>11, Bodies
  <2>2. CASE c \in DOMAIN nodes
    <3>1. IsChild(nodes, c, stack[i].node)
      BY <1>17, <2>1, <2>2
    <3>2. \/ c \in Range(lets[stack[i].node])
          \/ c \in Range(stack[i].pending)
          \/ i < l /\ c = stack[i + 1].node
      BY <1>1, <1>3, <2>1, <2>2, <3>1 DEF Kept
    <3>3. i < l => i + 1 \in DOMAIN stack
      BY <1>1, <2>1
    <3>4. CASE i = l
      <4>1. c \in Range(L) \cup Range(P)
        BY <1>1, <3>2, <3>4
      <4>2. lets'[stack'[i].node] = (L \o P) \o <<x>>
        BY <1>1, <1>7, <2>1, <3>4
      <4> QED
        BY <1>6, <4>1, <4>2
    <3>5. CASE i # l
      <4>1. lets'[stack[i].node] = lets[stack[i].node]
        BY <1>29, <1>30, <1>32, <1>33, <1>7, <2>1, <3>5
      <4>2. stack'[i] = stack[i] /\ Len(stack') = l
        BY <1>10, <2>1, <3>5
      <4>3. i < l => stack'[i + 1].node = stack[i + 1].node
        BY <1>11, <3>3
      <4> QED
        BY <3>2, <4>1, <4>2, <4>3
    <3> QED
      BY <3>4, <3>5
  <2>3. CASE c \notin DOMAIN nodes
    <3>1. c = x
      BY <1>1, <1>5, <2>3
    <3>2. nodes'[c].chain = {c} \cup nodes[Entry.node].chain
      BY <1>1, <1>4, <1>5, <3>1
    <3>3. IsChild(nodes', c, stack[i].node)
      BY <2>1
    <3>4. i = l
      BY <1>1, <1>5, <2>1, <2>3, <3>2, <3>3, NewChild
    <3> QED
      BY <1>1, <1>6, <1>7, <2>1, <3>1, <3>4
  <2> QED
    BY <2>2, <2>3
<1>24. ScalarsHeld'
  <2>1. \A k \in DOMAIN stack : Declares(stack, stack', k)
    BY <1>2, <1>9, <1>10 DEF Declares
  <2>2. ASSUME NEW i \in 0 .. l, NEW r, ScalarRead(stack, r, i) PROVE ScalarRead(stack', r, i)
    <3>1. i \in Int /\ i <= i /\ \A k \in 1 .. i : k \in DOMAIN stack
      BY <1>1, <2>2
    <3>2. \A k \in 1 .. i : Declares(stack, stack', k)
      BY <2>1, <3>1
    <3> QED
      BY <2>2, <3>1, <3>2, ScalarReadKept
  <2>3. \A y \in Scalars : \A r \in scalars'[y] : ScalarRead(stack', r, Len(stack'))
    <3>1. l \in 0 .. l
      BY <1>1
    <3> QED
      BY <1>1, <1>2, <1>10, <2>2, <3>1 DEF ScalarsHeld
  <2>4. ASSUME NEW i \in DOMAIN stack', NEW y \in Scalars, NEW r \in stack'[i].scalars[y]
        PROVE  ScalarRead(stack', r, i - 1)
    <3>1. i \in DOMAIN stack /\ i - 1 \in 0 .. l /\ r \in stack[i].scalars[y]
      BY <1>1, <1>10, <1>11, <2>4
    <3> QED
      BY <2>2, <3>1 DEF ScalarsHeld
  <2> QED
    BY <2>3, <2>4 DEF ScalarsHeld
<1>25. ASSUME NEW r \in reads PROVE Read(r)'
  <2>1. Awaits(r) => Awaits(r)'
    <3>1. r.node \in DOMAIN nodes /\ nodes[r.node].chain \subseteq DOMAIN nodes
      BY TypesOfParts, ChainIn DEF Types
    <3>2. nodes'[r.node] = nodes[r.node] /\ \A q \in nodes[r.node].chain : nodes'[q] = nodes[q]
      BY <1>5, <3>1 DEF NodesKept
    <3> SUFFICES ASSUME Awaits(r) PROVE Awaits(r)'
      OBVIOUS
    <3>3. PICK q \in nodes[r.node].chain :
        /\ nodes[q].key # NoCall /\ nodes[q].key[1] = r.means[2]
        /\ \A c \in nodes[r.node].chain : c > q => nodes[c].key = NoCall
        /\ \E i \in DOMAIN stack : i > 1 /\ stack[i].node = q /\ r.name \notin stack[i].visible
      BY <1>2 DEF Awaits
    <3>4. \E i \in DOMAIN stack' : i > 1 /\ stack'[i].node = q /\ r.name \notin stack'[i].visible
      BY <1>10, <1>11, <3>3
    <3>5. /\ q \in nodes'[r.node].chain /\ nodes'[q].key # NoCall /\ nodes'[q].key[1] = r.means[2]
          /\ \A c \in nodes'[r.node].chain : c > q => nodes'[c].key = NoCall
      BY <3>2, <3>3
    <3> QED
      BY <1>3, <3>4, <3>5 DEF Awaits
  <2>2. \A i \in DOMAIN stack : i < l =>
              /\ Working' /\ i \in DOMAIN stack' /\ stack'[i].node = stack[i].node
              /\ stack[i].pending # <<>> => stack'[i].pending # <<>>
    BY <1>1, <1>3, <1>10
  <2>3. \A i \in DOMAIN stack' : \E j \in DOMAIN stack \cup {0} :
              stack'[i].node = IF j = 0 THEN Fresh ELSE stack[j].node
    <3>1. 0 \notin DOMAIN stack
      BY <1>1
    <3> QED
      BY <1>10, <1>11, <3>1
  <2>4. lets'[Entry.node] = (lets[Entry.node] \o Entry.pending) \o <<x>>
        /\ \A q \in DOMAIN nodes : q # Entry.node => lets'[q] = lets[q]
    BY <1>1, <1>7
  <2> QED
    BY <1>1, <1>2, <1>3, <1>5, <1>6, <2>1, <2>2, <2>3, <2>4, PlacedReads
<1>26. ASSUME NEW r \in value PROVE Read([r EXCEPT !.node = x])'
  <2>1. PICK s : s = [r EXCEPT !.node = x]
    OBVIOUS
  <2>2. s.node = x /\ nodes'[x].chain = {x} \cup nodes[q0].chain
    BY <1>4, <1>5, <1>13, <2>1
  <2>3. nodes[q0].chain = {stack[k].node : k \in 1 .. l}
    BY <1>1, Bodies
  <2>4. \A k \in DOMAIN stack : stack[k].node \in nodes'[s.node].chain
    BY <1>1, <2>2, <2>3
  <2>5. \A q \in nodes'[s.node].chain : q \in Nat /\ ((\E k \in DOMAIN stack : q = stack[k].node) \/ q = x)
    <3>1. x \in Nat /\ \A k \in DOMAIN stack : stack[k].node \in Nat
      BY <1>1, <1>30
    <3>2. nodes'[s.node].chain = {x} \cup {stack[k].node : k \in DOMAIN stack}
      BY <1>1, <2>2, <2>3
    <3> QED
      BY <3>1, <3>2
  <2>6. x > Entry.node
    BY <1>1
  <2>7. ASSUME NEW k \in DOMAIN stack, NEW q, q = stack[k].node PROVE Sees(s, q)' = Named(k, s.name)
    <3>1. q \in DOMAIN nodes /\ q # x
      BY <1>1, <2>7, Bodies
    <3>2. CASE k < l
      <4>0. k # l
        BY <1>1, <3>2
      <4>1. lets'[q] = lets[q]
        BY <1>29, <1>30, <1>32, <1>33, <1>7, <2>7, <3>1, <4>0
      <4> QED
        BY <1>1, <1>3, <1>5, <2>2, <2>4, <2>5, <2>6, <2>7, <3>1, <3>2, <4>1, BelowSees
    <3>3. CASE k = l
      <4>1. q = q0
        BY <1>1, <2>7, <3>3
      <4>2. \A y \in nodes'[s.node].chain : y > q => y >= x
        <5>1. ASSUME NEW j \in DOMAIN stack, NEW y, y = stack[j].node PROVE ~ (y > q)
          BY <1>29, <1>30, <1>32, <1>33, <4>1, <5>1
        <5>2. x >= x
          BY <1>1
        <5> QED
          BY <2>5, <5>1, <5>2
      <4>3. nodes'[s.node].chain \in SUBSET Nat /\ x \in nodes'[s.node].chain /\ x > q /\ q # s.node
        BY <1>1, <2>2, <2>5, <3>1, <4>1
      <4>4. Sees(s, q)' = Given(nodes', lets'[q], x, s.name)
        BY <4>2, <4>3, SeesNew
      <4>5. PICK K : K = L \o P
        OBVIOUS
      <4>6. K \in Seq(Nat) /\ Range(K) = Range(L) \cup Range(P)
        BY <1>1, <4>5, Concat
      <4>7. \A y \in Range(K) : y \in DOMAIN nodes /\ nodes'[y] = nodes[y]
        BY <1>1, <1>5, <1>15, <4>6 DEF Placement, IsChild, NodesKept
      <4>8. x \notin Range(K) /\ x \in Nat
        BY <1>1, <4>7
      <4>9. Given(nodes', K \o <<x>>, x, s.name) = {y \in Range(K) : nodes'[y].name = s.name}
        BY <4>6, <4>8, GivenLast
      <4>10. lets'[q] = K \o <<x>>
        BY <1>7, <4>1, <4>5
      <4>11. Named(l, s.name) = {y \in Range(K) : nodes[y].name = s.name}
        BY <1>1, <4>6 DEF Named
      <4> QED
        BY <3>3, <4>4, <4>7, <4>9, <4>10, <4>11
    <3> QED
      BY <1>1, <3>2, <3>3
  <2>8. Sees(s, x)' = {}
    <3>1. Sees(s, x)' = {y \in Range(lets'[x]) : nodes'[y].name = s.name}
      BY <2>2, SeesNew
    <3> QED
      BY <1>7, <3>1, RangeNone
  <2>9. Surrounded(s)
    <3>1. s.node \in DOMAIN nodes' /\ nodes'[x].key = NoCall
      BY <1>1, <1>4, <1>5, <2>2
    <3>2. ASSUME NEW q \in nodes'[s.node].chain
          PROVE  \/ \E k \in DOMAIN stack : q = stack[k].node /\ Sees(s, q)' = Named(k, s.name)
                 \/ q > Entry.node /\ Sees(s, q)' = {} /\ nodes'[q].key = NoCall
      <4>1. CASE \E k \in DOMAIN stack : q = stack[k].node
        BY <2>7, <4>1
      <4>2. CASE q = x
        BY <2>6, <2>8, <3>1, <4>2
      <4> QED
        BY <2>5, <4>1, <4>2
    <3> QED
      BY <2>4, <3>1, <3>2 DEF Surrounded
  <2>10. WillAwait(s) => Awaits(s)'
    <3> SUFFICES ASSUME WillAwait(s) PROVE Awaits(s)'
      OBVIOUS
    <3>1. l > 1 /\ stack[l].key[1] = s.means[2] /\ s.name \notin stack[l].visible
      BY <1>1 DEF WillAwait
    <3>2. nodes'[q0] = nodes[q0] /\ nodes[q0].key = stack[l].key /\ stack[l].key \in Functions
      BY <1>1, <1>5, <3>1 DEF NodesKept, Stacked
    <3>3. q0 \in nodes'[s.node].chain /\ nodes'[q0].key # NoCall /\ nodes'[q0].key[1] = s.means[2]
      BY <1>1, <2>4, <3>1, <3>2, KeyFields
    <3>4. ASSUME NEW c \in nodes'[s.node].chain, c > q0 PROVE nodes'[c].key = NoCall
      <4>1. CASE c = x
        BY <1>4, <1>5, <4>1
      <4>2. CASE \E j \in DOMAIN stack : c = stack[j].node
        <5>1. PICK j \in DOMAIN stack : c = stack[j].node
          BY <4>2
        <5> QED
          BY <1>29, <1>30, <1>32, <1>33, <3>4, <5>1
      <4> QED
        BY <2>5, <4>1, <4>2
    <3>5. l \in DOMAIN stack' /\ stack'[l].node = q0 /\ s.name \notin stack'[l].visible
      BY <1>1, <1>10, <1>11, <3>1
    <3> QED
      BY <1>3, <3>1, <3>3, <3>4, <3>5 DEF Awaits
  <2>11. \A i \in DOMAIN stack' : s.node # stack'[i].node
    BY <1>1, <1>10, <1>11, <2>2, Bodies
  <2>12. Read(s)'
    BY <1>2, <1>3, <1>5, <2>1, <2>9, <2>10, <2>11, NewRead
  <2> QED
    BY <2>1, <2>12
<1>27. ReadsInv'
  <2> SUFFICES ASSUME NEW r \in reads' PROVE Read(r)'
    BY DEF ReadsInv
  <2>1. CASE r \in reads
    BY <1>25, <2>1
  <2>2. CASE r \in At(x, value)
    <3>1. PICK v \in value : r = [v EXCEPT !.node = x]
      BY <2>2 DEF At
    <3> QED
      BY <1>26, <3>1
  <2> QED
    BY <1>2, <2>1, <2>2
<1>28. Valued' /\ Qualifying' /\ Faithful' /\ LetsAreNotRecaptured'
  BY <1>2 DEF Valued, Qualifying, Faithful, LetsAreNotRecaptured
<1> QED
  BY <1>5, <1>14, <1>18, <1>19, <1>21, <1>22, <1>23, <1>24, <1>27, <1>28

\* What a scalar let's value read is in scope.
LEMMA ScalarOf ==
    ASSUME Types, Tree, Placement, Stacked, Scoped, Valued, value # {},
           NEW r \in value, r.via # "macro", NEW s, s = [r EXCEPT !.via = "scalar"]
    PROVE  s \in RefType /\ ScalarRead(stack, s, Len(stack))
<1>1. r \in RefType
  BY DEF Types
<1>2. /\ s \in RefType /\ s.via = "scalar" /\ s.name = r.name /\ s.db = r.db /\ s.means = r.means
  BY <1>1 DEF RefType, Ways
<1>3. CASE ScalarRead(stack, r, Len(stack))
  BY <1>2, <1>3 DEF ScalarRead
<1>4. CASE BareValue(r)
  <2>1. r.name \in Names /\ r.db = None /\ r.means = Means(r.name)
    BY <1>4 DEF BareValue
  <2>2. CASE LetOf(r.name) # None
    <3>1. r.means = <<"let", LetOf(r.name)>>
      BY <2>1, <2>2 DEF Means
    <3>2. PICK k \in DOMAIN stack : r.name \in DOMAIN stack[k].declared /\ LetOf(r.name) = stack[k].declared[r.name]
      BY <2>1, <2>2, LetOfIs
    <3>3. k \in 1 .. Len(stack)
      BY TypesOfParts
    <3> QED
      BY <1>2, <2>1, <3>1, <3>2, <3>3 DEF ScalarRead
  <2>3. CASE LetOf(r.name) = None
    <3>1. r.means = Entity(KustoDatabase, r.name)
      BY <2>1, <2>3 DEF Means
    <3>2. r.means[1] # "let"
      BY <3>1 DEF Entity
    <3> QED
      BY <1>2, <3>2 DEF ScalarRead
  <2> QED
    BY <2>2, <2>3
<1>5. CASE QualifiedValue(r) \/ CallValue(r)
  <2>1. r.means[1] # "let"
    BY <1>5 DEF QualifiedValue, CallValue
  <2> QED
    BY <1>2, <2>1 DEF ScalarRead
<1>6. CASE MacroValue(r)
  BY <1>6 DEF MacroValue
<1> QED
  BY <1>2, <1>3, <1>4, <1>5, <1>6 DEF Valued

\* The value of a scalar let is kept; no table is bound.
LEMMA LetScalarStep ==
    ASSUME IInv, NEW x \in Scalars, LetScalar(x)
    PROVE  IInv'
<1> USE DEF IInv
<1>l. PICK l : l = Len(stack)
  OBVIOUS
<1>1. /\ DOMAIN nodes = 1 .. Len(nodes) /\ DOMAIN lets = DOMAIN nodes /\ Len(nodes) \in Nat
      /\ DOMAIN stack = 1 .. l /\ l \in Nat /\ l \in DOMAIN stack
      /\ Entry = stack[l] /\ Entry \in BodyType /\ l = Len(stack)
  BY TypesOfParts, <1>l
<1>2. /\ value # {} /\ \A r \in value : r.via # "macro"
      /\ x \notin DOMAIN stack[l].declared /\ phase = "lowering" /\ phase' = "lowering" /\ value' = {}
      /\ scalars' = [scalars EXCEPT ![x] = {[r EXCEPT !.via = "scalar"] : r \in value}]
      /\ UNCHANGED <<nodes, lets, reads, visible, context>>
  BY <1>1 DEF LetScalar, Lowering
<1>3. Working /\ Working' /\ ~HeadsMacro /\ ~HeadsMacro' /\ NodesKept
  BY <1>2, NoMacro DEF Working, HeadsMacro, NodesKept
<1>4. \A n \in Names : n # x
  BY NamesAreNot
<1>8. PICK b : b = [stack[l] EXCEPT !.declared = Declaring(@, x, None)]
  OBVIOUS
<1>9. /\ b.node = stack[l].node /\ b.key = stack[l].key /\ b.via = stack[l].via /\ b.means = stack[l].means
      /\ b.pending = stack[l].pending /\ b.visible = stack[l].visible /\ b.scalars = stack[l].scalars
      /\ b.context = stack[l].context /\ b \in BodyType
      /\ DOMAIN b.declared = DOMAIN stack[l].declared \cup {x}
      /\ \A a \in DOMAIN stack[l].declared : b.declared[a] = stack[l].declared[a]
  <2>1. PICK g, f : f = stack[l].declared /\ g = Declaring(f, x, None)
    OBVIOUS
  <2>2. b = [stack[l] EXCEPT !.declared = g]
    BY <1>8, <2>1
  <2>3. f \in DeclaredType /\ x \in Names \cup Scalars /\ None \in Nat \cup {None}
    BY <1>1, <2>1, BodyFields
  <2>4. g \in DeclaredType /\ DOMAIN g = DOMAIN f \cup {x}
    <3>1. g = Declaring(f, x, None)
      BY <2>1
    <3>2. g \in DeclaredType
      BY <2>3, <3>1, DeclaringIs
    <3>3. DOMAIN g = DOMAIN f \cup {x}
      BY <3>1 DEF Declaring
    <3> QED
      BY <3>2, <3>3
  <2>5. \A m \in DOMAIN f : g[m] = f[m]
    BY <1>2, <2>1 DEF Declaring
  <2> QED
    BY <1>1, <2>1, <2>2, <2>4, <2>5 DEF BodyType
<1>10. /\ stack' \in Seq(BodyType) /\ Len(stack') = l /\ stack'[l] = b /\ DOMAIN stack' = DOMAIN stack
       /\ \A i \in DOMAIN stack : i # l => stack'[i] = stack[i]
  <2>1. stack' = [stack EXCEPT ![Len(stack)] = b]
    BY <1>1, <1>8 DEF LetScalar
  <2>2. stack \in Seq(BodyType) /\ Len(stack) >= 1
    BY DEF Types
  <2>3. stack' \in Seq(BodyType) /\ Len(stack') = Len(stack)
           /\ \A i \in 1 .. Len(stack) : stack'[i] = IF i = Len(stack) THEN b ELSE stack[i]
    BY <1>1, <1>9, <2>1, <2>2, Replaced
  <2>4. DOMAIN stack' = 1 .. Len(stack')
    BY <2>3
  <2> QED
    BY <1>1, <2>3, <2>4
<1>11. \A i \in DOMAIN stack :
          /\ stack'[i].node = stack[i].node /\ stack'[i].key = stack[i].key /\ stack'[i].via = stack[i].via
          /\ stack'[i].means = stack[i].means /\ stack'[i].context = stack[i].context
          /\ stack'[i].visible = stack[i].visible /\ stack'[i].scalars = stack[i].scalars
          /\ stack'[i].pending = stack[i].pending
  BY <1>1, <1>9, <1>10
<1>12. \A i \in DOMAIN stack :
          /\ \A n \in Names : n \in DOMAIN stack'[i].declared <=> n \in DOMAIN stack[i].declared
          /\ \A n \in DOMAIN stack[i].declared : stack'[i].declared[n] = stack[i].declared[n]
  BY <1>1, <1>4, <1>9, <1>10
<1>13. \A r \in value : /\ [r EXCEPT !.via = "scalar"] \in RefType
                        /\ ScalarRead(stack, [r EXCEPT !.via = "scalar"], l)
  BY <1>1, <1>2, ScalarOf
<1>14. Types'
  <2>1. scalars' \in [Scalars -> SUBSET RefType]
    <3>1. {[r EXCEPT !.via = "scalar"] : r \in value} \in SUBSET RefType
      BY <1>13
    <3> QED
      BY <1>2, <3>1 DEF Types
  <2> QED
    BY <1>1, <1>2, <1>10, <2>1 DEF Types
<1>15. Tree' /\ Placement'
  BY <1>2 DEF Tree, Placement, IsChild
<1>16. Stacked'
  BY <1>1, <1>2, <1>3, <1>10, <1>11, SameBodies
<1>17. Pending'
  BY <1>2, <1>3, <1>10, <1>11 DEF Pending
<1>18. Scoped'
  <2>1. \A i \in Int : i <= l => \A a \in Names : InScope(stack', a, i) <=> InScope(stack, a, i)
    <3> TAKE i \in Int
    <3> HAVE i <= l
    <3>1. \A k \in 1 .. i : k \in DOMAIN stack
      BY <1>1
    <3> QED
      BY <1>12, <3>1 DEF InScope
  <2>2. visible' = {a \in Names : InScope(stack', a, Len(stack'))}
    <3>1. visible = {a \in Names : InScope(stack, a, l)}
      BY <1>1 DEF Scoped
    <3> QED
      BY <1>1, <1>2, <1>10, <2>1, <3>1
  <2>3. ASSUME NEW i \in DOMAIN stack', i > 1
        PROVE  stack'[i].visible = {a \in Names : InScope(stack', a, i - 1)}
    <3>1. i \in DOMAIN stack /\ i - 1 \in Int /\ i - 1 <= l
      BY <1>1, <1>10
    <3>2. stack[i].visible = {a \in Names : InScope(stack, a, i - 1)}
      BY <2>3, <3>1 DEF Scoped
    <3> QED
      BY <1>11, <2>1, <3>1, <3>2
  <2>4. ASSUME NEW i \in DOMAIN stack', NEW a \in DOMAIN stack'[i].declared \cap Names
        PROVE  /\ stack'[i].declared[a] \in Range(lets'[stack'[i].node])
               /\ nodes'[stack'[i].declared[a]].name = a
    <3>1. i \in DOMAIN stack /\ a \in DOMAIN stack[i].declared \cap Names
          /\ stack'[i].declared[a] = stack[i].declared[a]
      BY <1>10, <1>12, <2>4
    <3>2. stack[i].declared[a] \in Range(lets[stack[i].node]) /\ nodes[stack[i].declared[a]].name = a
      BY <3>1 DEF Scoped
    <3> QED
      BY <1>2, <1>11, <3>1, <3>2
  <2>5. ASSUME NEW i \in DOMAIN stack', NEW c \in Range(lets'[stack'[i].node]), nodes'[c].name \in Names
        PROVE  nodes'[c].name \in DOMAIN stack'[i].declared /\ stack'[i].declared[nodes'[c].name] = c
    <3>1. i \in DOMAIN stack /\ c \in Range(lets[stack[i].node]) /\ nodes[c].name \in Names
      BY <1>2, <1>10, <1>11, <2>5
    <3>2. nodes[c].name \in DOMAIN stack[i].declared /\ stack[i].declared[nodes[c].name] = c
      BY <1>3, <3>1 DEF Scoped
    <3> QED
      BY <1>2, <1>12, <3>1, <3>2
  <2> QED
    BY <2>2, <2>3, <2>4, <2>5 DEF Scoped
<1>19. Kept'
  <2> SUFFICES ASSUME NEW i \in DOMAIN stack', NEW c \in DOMAIN nodes', IsChild(nodes', c, stack'[i].node)
               PROVE  \/ c \in Range(lets'[stack'[i].node])
                      \/ c \in Range(stack'[i].pending)
                      \/ i < Len(stack') /\ c = stack'[i + 1].node
    BY DEF Kept, IsChild
  <2>1. i \in DOMAIN stack /\ stack'[i].node = stack[i].node /\ stack'[i].pending = stack[i].pending
        /\ IsChild(nodes, c, stack[i].node) /\ c \in DOMAIN nodes
    BY <1>2, <1>10, <1>11
  <2>2. \/ c \in Range(lets[stack[i].node])
        \/ c \in Range(stack[i].pending)
        \/ i < l /\ c = stack[i + 1].node
    BY <1>1, <1>3, <2>1 DEF Kept
  <2>3. i < l => i + 1 \in DOMAIN stack
    BY <1>1, <2>1
  <2> QED
    BY <1>2, <1>10, <1>11, <2>1, <2>2, <2>3
<1>20. ScalarsHeld'
  <2>1. \A k \in DOMAIN stack : Declares(stack, stack', k)
    BY <1>12 DEF Declares
  <2>2. ASSUME NEW i \in 0 .. l, NEW r, ScalarRead(stack, r, i) PROVE ScalarRead(stack', r, i)
    <3>1. i \in Int /\ i <= i /\ \A k \in 1 .. i : k \in DOMAIN stack
      BY <1>1, <2>2
    <3>2. \A k \in 1 .. i : Declares(stack, stack', k)
      BY <2>1, <3>1
    <3> QED
      BY <2>2, <3>1, <3>2, ScalarReadKept
  <2>3. ASSUME NEW y \in Scalars, NEW r \in scalars'[y] PROVE ScalarRead(stack', r, Len(stack'))
    <3>1. l \in 0 .. l
      BY <1>1
    <3>2. ScalarRead(stack, r, l)
      <4>1. CASE y = x
        <5>1. r \in {[v EXCEPT !.via = "scalar"] : v \in value}
          BY <1>2, <2>3, <4>1 DEF Types
        <5> QED
          BY <1>13, <5>1
      <4>2. CASE y # x
        <5>1. r \in scalars[y]
          BY <1>2, <2>3, <4>2 DEF Types
        <5> QED
          BY <1>1, <5>1 DEF ScalarsHeld
      <4> QED
        BY <4>1, <4>2
    <3> QED
      BY <1>10, <2>2, <3>1, <3>2
  <2>4. ASSUME NEW i \in DOMAIN stack', NEW y \in Scalars, NEW r \in stack'[i].scalars[y]
        PROVE  ScalarRead(stack', r, i - 1)
    <3>1. i \in DOMAIN stack /\ i - 1 \in 0 .. l /\ r \in stack[i].scalars[y]
      BY <1>1, <1>10, <1>11, <2>4
    <3> QED
      BY <2>2, <3>1 DEF ScalarsHeld
  <2> QED
    BY <2>3, <2>4 DEF ScalarsHeld
<1>21. ReadsInv'
  <2>1. phase # "refused" /\ reads \subseteq reads' /\ phase' = phase
    BY <1>2
  <2>2. \A i \in DOMAIN stack :
              /\ i \in DOMAIN stack' /\ stack'[i].node = stack[i].node
              /\ stack'[i].visible = stack[i].visible /\ stack'[i].pending = stack[i].pending
    BY <1>10, <1>11
  <2>3. \A i \in DOMAIN stack' : i \in DOMAIN stack \/ stack'[i].node \notin DOMAIN nodes
    BY <1>10
  <2>4. \A q \in DOMAIN nodes : lets'[q] = lets[q]
    BY <1>2
  <2>5. \A r \in reads : Read(r)'
    BY <1>2, <1>3, <2>1, <2>2, <2>3, <2>4, OldReads
  <2> QED
    BY <1>2, <2>5 DEF ReadsInv
<1>22. Valued' /\ Qualifying' /\ Faithful' /\ LetsAreNotRecaptured'
  BY <1>2 DEF Valued, Qualifying, Faithful, LetsAreNotRecaptured
<1> QED
  BY <1>14, <1>15, <1>16, <1>17, <1>18, <1>19, <1>20, <1>21, <1>22

-----------------------------------------------------------------------------
(* The end of a body.                                                      *)

\* Fewer bodies, each what it was but for what is pending in it.
LEMMA FewerBodies ==
    ASSUME Types, Stacked, nodes' = nodes, NEW m \in Nat, m >= 1, m <= Len(stack),
           DOMAIN stack' = 1 .. m, Len(stack') = m, context' = ContextOf(stack, m),
           \A i \in 1 .. m :
              /\ stack'[i].node = stack[i].node /\ stack'[i].key = stack[i].key /\ stack'[i].via = stack[i].via
              /\ stack'[i].means = stack[i].means /\ stack'[i].context = stack[i].context
    PROVE  Stacked'
<1>1. DOMAIN stack = 1 .. Len(stack) /\ Len(stack) \in Nat /\ \A i \in 1 .. m : i \in DOMAIN stack
  BY TypesOfParts DEF Types
<1>2. \A i \in 1 .. m : ContextOf(stack', i) = ContextOf(stack, i)
  BY DEF ContextOf
<1>3. ASSUME NEW i \in 1 .. m
      PROVE  /\ stack'[i].node \in DOMAIN nodes'
             /\ nodes'[stack'[i].node].key = stack'[i].key
             /\ nodes'[stack'[i].node].chain = {stack'[k].node : k \in 1..i}
  <2>1. \A k \in 1 .. i : stack'[k].node = stack[k].node
    BY <1>1
  <2>2. {stack'[k].node : k \in 1..i} = {stack[k].node : k \in 1..i}
    BY <2>1
  <2>3. stack'[i].node = stack[i].node /\ stack'[i].key = stack[i].key /\ i \in DOMAIN stack
    BY <1>1
  <2>4. stack[i].node \in DOMAIN nodes /\ nodes[stack[i].node].key = stack[i].key
        /\ nodes[stack[i].node].chain = {stack[k].node : k \in 1..i}
    BY <2>3 DEF Stacked
  <2> QED
    BY <2>2, <2>3, <2>4
<1>4. ASSUME NEW i \in 1 .. m, i > 1
      PROVE  /\ IsChild(nodes', stack'[i].node, stack'[i - 1].node)
             /\ stack'[i].key \in Functions
             /\ stack'[i].via = "direct"
             /\ stack'[i].means = <<"function", stack'[i].key[1], stack'[i].key[2]>>
             /\ stack'[i].context = ContextOf(stack', i - 1)
  <2>1. i - 1 \in 1 .. m /\ i \in DOMAIN stack
    BY <1>1, <1>4
  <2>2. stack'[i].node = stack[i].node /\ stack'[i - 1].node = stack[i - 1].node
    BY <2>1
  <2> QED
    BY <1>2, <1>4, <2>1, <2>2 DEF Stacked
<1>5. /\ \A i, j \in 1 .. m : i < j => stack'[i].node < stack'[j].node
      /\ \A i, j \in 1 .. m : stack'[i].key = stack'[j].key => i = j
  BY <1>1, ZenonT(30) DEF Stacked
<1>6. stack'[1].key = NoCall /\ stack'[1].node = 1
  BY <1>1 DEF Stacked
<1>7. context' = ContextOf(stack', m)
  BY <1>1, <1>2
<1> QED
  BY <1>3, <1>4, <1>5, <1>6, <1>7 DEF Stacked

\* A body ends: its reads are placed, and its query is pending in the caller.
LEMMA ReturnStep ==
    ASSUME IInv, Return
    PROVE  IInv'
<1> USE DEF IInv
<1>l. PICK l, m : l = Len(stack) /\ m = Len(stack) - 1
  OBVIOUS
<1>q. PICK q0, L, P : q0 = Entry.node /\ L = lets[Entry.node] /\ P = Entry.pending
  OBVIOUS
<1>1. /\ DOMAIN nodes = 1 .. Len(nodes) /\ DOMAIN lets = DOMAIN nodes /\ Len(nodes) \in Nat
      /\ DOMAIN stack = 1 .. l /\ l \in Nat /\ l \in DOMAIN stack
      /\ Entry = stack[l] /\ Entry \in BodyType
      /\ q0 \in DOMAIN nodes /\ nodes[q0].chain \subseteq Nat
      /\ l = Len(stack) /\ stack[l].node = q0 /\ stack[l].pending = P
      /\ L \in Seq(Nat) /\ P \in Seq(Nat) /\ lets[q0] = L /\ Entry.node = q0
  BY TypesOfParts, Bodies, BodyFields, <1>l, <1>q
<1>2. /\ value # {} /\ phase = "lowering" /\ l > 1
      /\ nodes' = nodes /\ reads' = reads \cup At(q0, value)
      /\ visible' = stack[l].visible /\ scalars' = stack[l].scalars /\ context' = stack[l].context
      /\ phase' = IF stack[l].key[1] = Home THEN "lowering" ELSE "qualifying"
      /\ value' = {Ref(q0, None, stack[l].via, stack[l].means)}
  BY <1>1 DEF Return, Lowering, Finish
<1>3. /\ m \in Nat /\ m \in DOMAIN stack /\ m < l /\ m >= 1 /\ m + 1 = l /\ m <= l /\ m = Len(stack) - 1
      /\ \A i \in 1 .. m : i \in DOMAIN stack /\ i < l /\ i # l
      /\ \A i \in DOMAIN stack : i = l \/ i \in 1 .. m
  <2>1. l \in Nat /\ l > 1 /\ l = Len(stack) /\ DOMAIN stack = 1 .. l
    BY <1>1, <1>2
  <2>2. m = l - 1
    BY <1>l
  <2>3. /\ m \in Nat /\ m \in DOMAIN stack /\ m < l /\ m >= 1 /\ m + 1 = l /\ m <= l /\ m = Len(stack) - 1
    BY <2>1, <2>2
  <2>4. \A i \in 1 .. m : i \in DOMAIN stack /\ i < l /\ i # l
    BY <2>1, <2>3
  <2>5. \A i \in DOMAIN stack : i = l \/ i \in 1 .. m
    BY <2>1, <2>3
  <2> QED
    BY <2>3, <2>4, <2>5
<1>4. Working /\ Working' /\ NodesKept
  BY <1>2 DEF Working, NodesKept
<1>5. /\ stack[l].key \in Functions /\ stack[l].via = "direct"
      /\ stack[l].means = <<"function", stack[l].key[1], stack[l].key[2]>>
      /\ stack[l].context = ContextOf(stack, m) /\ IsChild(nodes, q0, stack[m].node)
      /\ nodes[q0].key = stack[l].key
  <2>1. l > 1 /\ l \in DOMAIN stack /\ l - 1 = m
    BY <1>1, <1>2, <1>3
  <2> QED
    BY <1>1, <2>1 DEF Stacked
<1>6. nodes[q0].key # NoCall /\ nodes[q0].name = q0 /\ q0 \in Nat /\ nodes[q0].key[1] = stack[l].key[1]
  BY <1>1, <1>5, KeyFields, CallHasNumber
<1>7. \A i \in DOMAIN stack : stack[i].node \in DOMAIN nodes /\ stack[i].node \in Nat
  BY Bodies
<1>8. \A i, j \in DOMAIN stack : i # j => stack[i].node # stack[j].node
  BY BodiesInOrder
<1>9. \A i \in 1 .. m : stack[i].node \in DOMAIN nodes /\ stack[i].node # q0
  BY <1>1, <1>3, <1>7, <1>8
<1>10. /\ (L \o P) \o <<>> \in Seq(Nat)
       /\ Range((L \o P) \o <<>>) = Range(L) \cup Range(P)
  <2>1. PICK M : M = <<>>
    OBVIOUS
  <2>2. M \in Seq(Nat) /\ Range(M) = {}
    BY <2>1, RangeNone
  <2>3. (L \o P) \o M \in Seq(Nat)
    BY <1>1, <2>2, ThreeLists
  <2>4. Range((L \o P) \o M) = Range(L) \cup Range(P) \cup Range(M)
    BY <1>1, <2>2, ThreeLists
  <2> QED
    BY <2>1, <2>2, <2>3, <2>4
<1>11. /\ lets' \in Seq(Seq(Nat)) /\ Len(lets') = Len(nodes) /\ DOMAIN lets' = DOMAIN nodes
       /\ lets'[q0] = (L \o P) \o <<>>
       /\ \A q \in DOMAIN nodes : q # q0 => lets'[q] = lets[q]
  <2>1. PICK K : K = (L \o P) \o <<>>
    OBVIOUS
  <2>2. lets' = [lets EXCEPT ![q0] = K]
    BY <1>1, <2>1 DEF Return, Finish, Placed
  <2>3. lets \in Seq(Seq(Nat)) /\ K \in Seq(Nat) /\ Len(lets) = Len(nodes)
    BY <1>10, <2>1 DEF Types
  <2> QED
    BY <1>1, <2>1, <2>2, <2>3
<1>12. PICK b : b = [stack[m] EXCEPT !.pending = Append(@, q0)]
  OBVIOUS
<1>13. /\ b.node = stack[m].node /\ b.key = stack[m].key /\ b.via = stack[m].via /\ b.means = stack[m].means
       /\ b.declared = stack[m].declared /\ b.visible = stack[m].visible /\ b.scalars = stack[m].scalars
       /\ b.context = stack[m].context /\ b \in BodyType
       /\ b.pending # <<>> /\ Last(b.pending) = q0 /\ Range(b.pending) = Range(stack[m].pending) \cup {q0}
  <2>1. PICK f, g : f = stack[m].pending /\ g = Append(f, q0)
    OBVIOUS
  <2>2. b = [stack[m] EXCEPT !.pending = g]
    BY <1>12, <2>1
  <2>3. stack[m] \in BodyType
    BY <1>3, TypesOfParts
  <2>4. f \in Seq(Nat) /\ q0 \in Nat
    BY <1>6, <2>1, <2>3, BodyFields
  <2>5. g \in Seq(Nat) /\ g # <<>> /\ Len(g) = Len(f) + 1 /\ g[Len(g)] = q0
        /\ \A i \in 1 .. Len(f) : g[i] = f[i]
    BY <2>1, <2>4
  <2>6. Range(g) = Range(f) \cup {q0}
    <3>1. DOMAIN g = 1 .. Len(f) + 1 /\ DOMAIN f = 1 .. Len(f) /\ Len(f) \in Nat
      BY <2>4, <2>5
    <3>2. \A i \in DOMAIN g : i \in DOMAIN f \/ i = Len(g)
      BY <2>5, <3>1
    <3>3. Len(g) \in DOMAIN g /\ \A i \in DOMAIN f : i \in DOMAIN g /\ g[i] = f[i]
      BY <2>5, <3>1
    <3> QED
      BY <2>5, <3>2, <3>3 DEF Range
  <2> QED
    BY <2>1, <2>2, <2>3, <2>5, <2>6 DEF BodyType, Last
<1>14. /\ stack' \in Seq(BodyType) /\ Len(stack') = m /\ stack'[m] = b /\ DOMAIN stack' = 1 .. m
       /\ \A i \in 1 .. m : i # m => stack'[i] = stack[i]
  <2>1. stack' = [Front(stack) EXCEPT ![Len(stack) - 1] = b]
    BY <1>1, <1>3, <1>12 DEF Return
  <2>2. stack \in Seq(BodyType) /\ Len(stack) >= 2
    BY <1>1, <1>2 DEF Types
  <2>3. PICK s, t : s = stack /\ t = stack'
    OBVIOUS
  <2>5. s \in Seq(BodyType) /\ Len(s) >= 2 /\ b \in BodyType /\ t = [Front(s) EXCEPT ![Len(s) - 1] = b]
    BY <1>13, <2>1, <2>2, <2>3
  <2>6. t \in Seq(BodyType) /\ Len(t) = Len(s) - 1
    <3>1. t \in Seq(BodyType)
      BY <2>5, Popped
    <3>2. Len(t) = Len(s) - 1
      BY <2>5, Popped
    <3> QED
      BY <3>1, <3>2
  <2>7. \A i \in 1 .. Len(s) - 1 : t[i] = IF i = Len(s) - 1 THEN b ELSE s[i]
    BY <2>5, Popped
  <2>4. DOMAIN t = 1 .. Len(t)
    BY <2>6
  <2> QED
    BY <1>3, <2>3, <2>4, <2>6, <2>7
<1>15. \A i \in 1 .. m :
          /\ stack'[i].node = stack[i].node /\ stack'[i].key = stack[i].key /\ stack'[i].via = stack[i].via
          /\ stack'[i].means = stack[i].means /\ stack'[i].context = stack[i].context
          /\ stack'[i].visible = stack[i].visible /\ stack'[i].scalars = stack[i].scalars
          /\ stack'[i].declared = stack[i].declared
  BY <1>13, <1>14
<1>16. Entry' = b
  BY <1>14 DEF Entry, Last
<1>17. PICK v : v = Ref(q0, None, "direct", stack[l].means)
  OBVIOUS
<1>18. /\ value' = {v} /\ v \in RefType /\ v.via = "direct" /\ v.name = q0 /\ v.db = None /\ v.reached
       /\ v.means = <<"function", stack[l].key[1], stack[l].key[2]>>
  <2>1. value' = {v}
    BY <1>2, <1>5, <1>17
  <2>2. stack[l].means \in MeansType
    <3>1. stack[l].key[1] \in Databases /\ stack[l].key[2] \in Names
      BY <1>5, KeyFields
    <3> QED
      BY <1>5, <3>1 DEF MeansType
  <2>3. q0 \in Names \cup Nat /\ None \in Databases \cup {None} /\ "direct" \in Ways
    BY <1>6 DEF Ways
  <2>4. PICK mm : mm = stack[l].means
    OBVIOUS
  <2>5. v = Ref(q0, None, "direct", mm) /\ mm \in MeansType
    BY <1>17, <2>2, <2>4
  <2>6. v \in RefType
    BY <2>3, <2>5, RefTyped
  <2>7. v.via = "direct" /\ v.name = q0 /\ v.db = None /\ v.reached /\ v.means = mm
    BY <2>5 DEF Ref
  <2> QED
    BY <1>5, <2>1, <2>4, <2>6, <2>7
<1>19. \A r \in value : /\ r \in RefType /\ [r EXCEPT !.node = q0] \in RefType /\ [r EXCEPT !.node = q0].node = q0
  <2> TAKE r \in value
  <2>1. r \in RefType /\ q0 \in Nat
    BY <1>2, <1>6 DEF Types
  <2> QED
    BY <2>1, PlacedTyped
<1>20. Types'
  <2>1. \A s \in At(q0, value) : s \in RefType /\ s.node = q0
    BY <1>19 DEF At
  <2>2. reads' \in SUBSET RefType /\ \A r \in reads' : r.node \in DOMAIN nodes'
    BY <1>1, <1>2, <2>1 DEF Types
  <2>3. visible' \in SUBSET Names /\ scalars' \in [Scalars -> SUBSET RefType] /\ context' \in Databases
    BY <1>1, <1>2, BodyFields
  <2>4. value' \in SUBSET RefType
    BY <1>18
  <2>5. Len(stack') >= 1 /\ nodes' \in Seq(NodeType)
    BY <1>2, <1>3, <1>14 DEF Types
  <2>6. phase' \in {"lowering", "qualifying", "lowered", "rendered", "refused"}
    BY <1>2
  <2> QED
    BY <1>2, <1>11, <1>14, <2>2, <2>3, <2>4, <2>5, <2>6 DEF Types
<1>21. \A c \in Range(P) : /\ c \in DOMAIN nodes /\ IsChild(nodes, c, q0) /\ nodes[c].key # NoCall
                           /\ nodes[c].name # None
                           /\ Unplaced(lets, c) /\ \A j \in DOMAIN stack : c # stack[j].node
  <2> TAKE c \in Range(P)
  <2>1. l \in DOMAIN stack /\ c \in Range(stack[l].pending) /\ stack[l].node = q0
    BY <1>1
  <2>2. /\ IsChild(nodes, c, q0) /\ nodes[c].key # NoCall /\ Unplaced(lets, c)
        /\ \A j \in DOMAIN stack : c # stack[j].node
    BY <1>4, <2>1 DEF Pending
  <2>3. c \in DOMAIN nodes
    BY <2>2 DEF IsChild
  <2> QED
    BY <2>2, <2>3, CallHasNumber
<1>22. Tree' /\ Placement'
  <2>1. ASSUME NEW q \in DOMAIN lets', NEW c \in Range(lets'[q])
        PROVE  IsChild(nodes', c, q) /\ nodes'[c].name # None
    <3>1. CASE c \in Range(lets[q])
      BY <1>1, <1>2, <1>11, <3>1 DEF Placement
    <3>2. CASE q = q0 /\ c \in Range(P)
      BY <1>2, <1>21, <3>2
    <3> QED
      BY <1>1, <1>10, <1>11, <2>1, <3>1, <3>2
  <2>2. Tree'
    BY <1>2 DEF Tree
  <2> QED
    BY <2>1, <2>2 DEF Placement
<1>23. Stacked'
  BY <1>1, <1>2, <1>3, <1>5, <1>14, <1>15, FewerBodies
<1>24. \A c \in DOMAIN nodes : Unplaced(lets, c) /\ c \notin Range(P) => Unplaced(lets', c)
  <2> SUFFICES ASSUME NEW c \in DOMAIN nodes, Unplaced(lets, c), c \notin Range(P), NEW q \in DOMAIN lets'
               PROVE  c \notin Range(lets'[q])
    BY DEF Unplaced
  <2>1. c \notin Range(L) /\ \A p \in DOMAIN nodes : c \notin Range(lets[p])
    BY <1>1 DEF Unplaced
  <2> QED
    BY <1>10, <1>11, <2>1
<1>25. Pending'
  <2>1. \A i \in DOMAIN stack : Unplaced(lets', stack[i].node)
    <3> TAKE i \in DOMAIN stack
    <3>1. stack[i].node \in DOMAIN nodes /\ Unplaced(lets, stack[i].node)
      BY <1>4, <1>7 DEF Pending
    <3>2. stack[i].node \notin Range(P)
      BY <1>21
    <3> QED
      BY <1>24, <3>1, <3>2
  <2>2. ASSUME NEW i \in DOMAIN stack', NEW c \in Range(stack'[i].pending)
        PROVE  /\ IsChild(nodes', c, stack'[i].node) /\ nodes'[c].key # NoCall
               /\ Unplaced(lets', c)
               /\ \A j \in DOMAIN stack' : c # stack'[j].node
    <3>1. i \in DOMAIN stack /\ i \in 1 .. m /\ i # l /\ stack'[i].node = stack[i].node
      BY <1>3, <1>14, <1>15
    <3>2. CASE c \in Range(stack[i].pending)
      <4>1. /\ c \in DOMAIN nodes /\ IsChild(nodes, c, stack[i].node) /\ nodes[c].key # NoCall /\ Unplaced(lets, c)
            /\ \A j \in DOMAIN stack : c # stack[j].node
        BY <1>4, <3>1, <3>2 DEF Pending, IsChild
      <4>2. c \notin Range(P)
        <5> SUFFICES ASSUME c \in Range(P) PROVE FALSE
          OBVIOUS
        <5>1. IsChild(nodes, c, q0)
          BY <1>21
        <5>2. stack[i].node = stack[l].node
          BY <1>1, <4>1, <5>1, ParentIsOne
        <5> QED
          BY <1>1, <1>8, <3>1, <5>2
      <4>3. Unplaced(lets', c)
        BY <1>24, <4>1, <4>2
      <4> QED
        BY <1>2, <1>3, <1>14, <1>15, <3>1, <4>1, <4>3
    <3>3. CASE i = m /\ c = q0
      <4>1. Unplaced(lets', q0)
        BY <1>1, <2>1
      <4>2. \A j \in DOMAIN stack' : q0 # stack'[j].node
        BY <1>9, <1>14, <1>15
      <4> QED
        BY <1>2, <1>5, <1>6, <1>15, <3>1, <3>3, <4>1, <4>2
    <3> QED
      BY <1>13, <1>14, <2>2, <3>1, <3>2, <3>3
  <2> QED
    BY <1>3, <1>14, <1>15, <2>1, <2>2 DEF Pending
<1>26. \A i \in Int : i <= m => \A a : InScope(stack', a, i) <=> InScope(stack, a, i)
  <2> TAKE i \in Int
  <2> HAVE i <= m
  <2>1. \A k \in 1 .. i : k \in 1 .. m
    BY <1>3
  <2>2. \A k \in 1 .. i : stack'[k].declared = stack[k].declared
    BY <1>15, <2>1
  <2> QED
    BY <2>2, InScopeKept
<1>27. Scoped'
  <2>1. visible' = {a \in Names : InScope(stack', a, Len(stack'))}
    <3>1. stack[l].visible = {a \in Names : InScope(stack, a, l - 1)} /\ l - 1 = m
      BY <1>1, <1>2, <1>3 DEF Scoped
    <3> QED
      BY <1>2, <1>3, <1>14, <1>26, <3>1
  <2>2. ASSUME NEW i \in DOMAIN stack', i > 1
        PROVE  stack'[i].visible = {a \in Names : InScope(stack', a, i - 1)}
    <3>1. i \in DOMAIN stack /\ i \in 1 .. m /\ i - 1 \in Int /\ i - 1 <= m
      BY <1>3, <1>14
    <3>2. stack[i].visible = {a \in Names : InScope(stack, a, i - 1)}
      BY <2>2, <3>1 DEF Scoped
    <3> QED
      BY <1>15, <1>26, <3>1, <3>2
  <2>3. \A i \in 1 .. m : lets'[stack'[i].node] = lets[stack[i].node]
    BY <1>9, <1>11, <1>15
  <2>4. ASSUME NEW i \in DOMAIN stack', NEW a \in DOMAIN stack'[i].declared \cap Names
        PROVE  /\ stack'[i].declared[a] \in Range(lets'[stack'[i].node])
               /\ nodes'[stack'[i].declared[a]].name = a
    <3>1. i \in DOMAIN stack /\ i \in 1 .. m /\ a \in DOMAIN stack[i].declared \cap Names
          /\ stack'[i].declared[a] = stack[i].declared[a]
      BY <1>3, <1>14, <1>15, <2>4
    <3>2. stack[i].declared[a] \in Range(lets[stack[i].node]) /\ nodes[stack[i].declared[a]].name = a
      BY <3>1 DEF Scoped
    <3> QED
      BY <1>2, <2>3, <3>1, <3>2
  <2>5. ASSUME NEW i \in DOMAIN stack', NEW c \in Range(lets'[stack'[i].node]), nodes'[c].name \in Names
        PROVE  nodes'[c].name \in DOMAIN stack'[i].declared /\ stack'[i].declared[nodes'[c].name] = c
    <3>1. i \in DOMAIN stack /\ i \in 1 .. m /\ i # Len(stack) /\ c \in Range(lets[stack[i].node])
          /\ nodes[c].name \in Names
      BY <1>1, <1>2, <1>3, <1>14, <2>3, <2>5
    <3>2. nodes[c].name \in DOMAIN stack[i].declared /\ stack[i].declared[nodes[c].name] = c
      BY <1>4, <3>1 DEF Scoped
    <3> QED
      BY <1>2, <1>15, <3>1, <3>2
  <2> QED
    BY <2>1, <2>2, <2>4, <2>5 DEF Scoped
<1>28. Kept'
  <2> SUFFICES ASSUME NEW i \in DOMAIN stack', NEW c \in DOMAIN nodes', IsChild(nodes', c, stack'[i].node)
               PROVE  \/ c \in Range(lets'[stack'[i].node])
                      \/ c \in Range(stack'[i].pending)
                      \/ i < Len(stack') /\ c = stack'[i + 1].node
    BY DEF Kept, IsChild
  <2>1. i \in DOMAIN stack /\ i \in 1 .. m /\ i < l /\ i # l /\ stack'[i].node = stack[i].node
        /\ IsChild(nodes, c, stack[i].node) /\ c \in DOMAIN nodes
    BY <1>2, <1>3, <1>14, <1>15
  <2>2. \/ c \in Range(lets[stack[i].node])
        \/ c \in Range(stack[i].pending)
        \/ c = stack[i + 1].node
    BY <1>1, <1>4, <2>1 DEF Kept
  <2>3. lets'[stack'[i].node] = lets[stack[i].node]
    BY <1>9, <1>11, <2>1
  <2>4. CASE i = m
    BY <1>1, <1>3, <1>13, <1>14, <2>2, <2>3, <2>4
  <2>5. CASE i # m
    <3>1. i < m /\ i + 1 \in 1 .. m
      BY <1>3, <2>1, <2>5
    <3> QED
      BY <1>14, <1>15, <2>1, <2>2, <2>3, <2>5, <3>1
  <2> QED
    BY <2>4, <2>5
<1>29. ScalarsHeld'
  <2>1. ASSUME NEW i \in 0 .. m, NEW r, ScalarRead(stack, r, i) PROVE ScalarRead(stack', r, i)
    <3>1. i \in Int /\ i <= i
      BY <1>3, <2>1
    <3>2. \A k \in 1 .. i : k \in 1 .. m
      BY <1>3, <2>1
    <3>3. \A k \in 1 .. i : Declares(stack, stack', k)
      BY <1>15, <3>2 DEF Declares
    <3> QED
      BY <2>1, <3>1, <3>3, ScalarReadKept
  <2>2. ASSUME NEW i \in DOMAIN stack, NEW y \in Scalars, NEW r \in stack[i].scalars[y]
        PROVE  i - 1 \in 0 .. m /\ ScalarRead(stack', r, i - 1)
    <3>1. i - 1 \in 0 .. m
      BY <1>1, <1>3
    <3>2. ScalarRead(stack, r, i - 1)
      BY <2>2 DEF ScalarsHeld
    <3> QED
      BY <2>1, <3>1, <3>2
  <2>3. \A y \in Scalars : \A r \in scalars'[y] : ScalarRead(stack', r, Len(stack'))
    <3>1. l - 1 = m
      BY <1>1, <1>3
    <3> QED
      BY <1>1, <1>2, <1>14, <2>2, <3>1
  <2>4. \A i \in DOMAIN stack' : \A y \in Scalars : \A r \in stack'[i].scalars[y] : ScalarRead(stack', r, i - 1)
    BY <1>3, <1>14, <1>15, <2>2
  <2> QED
    BY <2>3, <2>4 DEF ScalarsHeld
<1>30. Valued'
  <2>1. CallValue(v)'
    BY <1>2, <1>5, <1>13, <1>16, <1>18 DEF CallValue
  <2> QED
    BY <1>18, <2>1 DEF Valued
<1>31. Qualifying'
  <2>1. ASSUME phase' = "qualifying" PROVE stack[l].key[1] # Home
    BY <1>2, <2>1
  <2>2. Entry'.pending # <<>> /\ Last(Entry'.pending) = q0 /\ nodes'[q0].key[1] = stack[l].key[1]
    BY <1>2, <1>6, <1>13, <1>16
  <2>3. ~HeadsMacro'
    BY <1>18 DEF HeadsMacro
  <2> QED
    BY <2>1, <2>2, <2>3 DEF Qualifying
<1>32. phase' # "qualifying" => stack[l].key[1] = Home
  BY <1>2
<1>33. ASSUME NEW r \in reads PROVE Read(r)'
  <2>1. Awaits(r) => Awaits(r)' \/ r.means[2] = Home
    <3> SUFFICES ASSUME Awaits(r) PROVE Awaits(r)' \/ r.means[2] = Home
      OBVIOUS
    <3>1. PICK q \in nodes[r.node].chain :
        /\ nodes[q].key # NoCall /\ nodes[q].key[1] = r.means[2]
        /\ \A c \in nodes[r.node].chain : c > q => nodes[c].key = NoCall
        /\ \E i \in DOMAIN stack : i > 1 /\ stack[i].node = q /\ r.name \notin stack[i].visible
      BY <1>2 DEF Awaits
    <3>2. PICK i \in DOMAIN stack : i > 1 /\ stack[i].node = q /\ r.name \notin stack[i].visible
      BY <3>1
    <3>3. /\ q \in nodes'[r.node].chain /\ nodes'[q].key # NoCall /\ nodes'[q].key[1] = r.means[2]
          /\ \A c \in nodes'[r.node].chain : c > q => nodes'[c].key = NoCall
      BY <1>2, <3>1
    <3>4. CASE i \in 1 .. m
      <4>1. i \in DOMAIN stack' /\ i > 1 /\ stack'[i].node = q /\ r.name \notin stack'[i].visible
        BY <1>14, <1>15, <3>2, <3>4
      <4> QED
        BY <1>4, <3>3, <4>1 DEF Awaits
    <3>5. CASE i = l /\ phase' = "qualifying"
      <4>1. q = q0 /\ r.name \notin visible'
        BY <1>1, <1>2, <3>2, <3>5
      <4>2. Entry'.pending # <<>> /\ q = Last(Entry'.pending)
        BY <1>13, <1>16, <4>1
      <4> QED
        BY <3>3, <3>5, <4>1, <4>2 DEF Awaits
    <3>6. CASE i = l /\ phase' # "qualifying"
      BY <1>1, <1>6, <1>32, <3>1, <3>2, <3>6
    <3> QED
      BY <1>3, <3>4, <3>5, <3>6
  <2>2. \A i \in DOMAIN stack : i < Len(stack) =>
              /\ Working' /\ i \in DOMAIN stack' /\ stack'[i].node = stack[i].node
              /\ stack[i].pending # <<>> => stack'[i].pending # <<>>
    <3> SUFFICES ASSUME NEW i \in DOMAIN stack, i < Len(stack)
                 PROVE  /\ Working' /\ i \in DOMAIN stack' /\ stack'[i].node = stack[i].node
                        /\ stack[i].pending # <<>> => stack'[i].pending # <<>>
      OBVIOUS
    <3>1. i < l
      BY <1>l
    <3>2. i \in 1 .. m
      BY <1>3, <3>1
    <3>3. i # m => stack'[i] = stack[i]
      BY <1>14, <3>2
    <3> QED
      BY <1>4, <1>13, <1>14, <1>15, <3>2, <3>3
  <2>3. \A i \in DOMAIN stack' : \E j \in DOMAIN stack \cup {0} :
              stack'[i].node = IF j = 0 THEN Fresh ELSE stack[j].node
    <3>1. 0 \notin DOMAIN stack
      BY <1>1
    <3> QED
      BY <1>3, <1>14, <1>15, <3>1
  <2>4. lets'[Entry.node] = (lets[Entry.node] \o Entry.pending) \o <<>>
        /\ \A q \in DOMAIN nodes : q # Entry.node => lets'[q] = lets[q]
    BY <1>1, <1>11
  <2>5. PICK M : M = <<>>
    OBVIOUS
  <2>6. M \in Seq(Nat) /\ lets'[Entry.node] = (lets[Entry.node] \o Entry.pending) \o M
    BY <2>4, <2>5
  <2>7. reads \subseteq reads'
    BY <1>2
  <2> QED
    BY <1>4, <2>1, <2>2, <2>3, <2>4, <2>5, <2>6, <2>7, PlacedReads
<1>34. ASSUME NEW r \in value PROVE Read([r EXCEPT !.node = q0])'
  <2>1. PICK s : s = [r EXCEPT !.node = q0]
    OBVIOUS
  <2>2. s.node = q0 /\ nodes'[s.node].chain = nodes[q0].chain
    BY <1>2, <1>19, <2>1
  <2>3. nodes[q0].chain = {stack[k].node : k \in 1 .. l}
    BY <1>1, Bodies
  <2>4. \A k \in DOMAIN stack : stack[k].node \in nodes'[s.node].chain
    BY <1>1, <2>2, <2>3
  <2>5. \A q \in nodes'[s.node].chain : q \in Nat /\ \E k \in DOMAIN stack : q = stack[k].node
    <3>1. \A q \in nodes'[s.node].chain : \E k \in DOMAIN stack : q = stack[k].node
      BY <1>1, <2>2, <2>3
    <3> QED
      BY <1>7, <3>1
  <2>7. ASSUME NEW k \in DOMAIN stack, NEW q, q = stack[k].node PROVE Sees(s, q)' = Named(k, s.name)
    <3>1. CASE k \in 1 .. m
      <4>1. k < Len(stack) /\ q # s.node /\ q \in DOMAIN nodes /\ q # q0
        BY <1>1, <1>3, <1>9, <2>2, <2>7, <3>1
      <4>2. lets'[q] = lets[q]
        BY <1>11, <4>1
      <4> QED
        BY <1>4, <2>4, <2>5, <2>7, <4>1, <4>2, BelowSees
    <3>2. CASE k = l
      <4>1. q = s.node /\ q = q0
        BY <1>1, <2>2, <2>7, <3>2
      <4>2. Sees(s, q)' = {y \in Range(lets'[q]) : nodes'[y].name = s.name}
        BY <4>1, SeesNew
      <4>3. Range(lets'[q]) = Range(L) \cup Range(P)
        BY <1>10, <1>11, <4>1
      <4>4. Named(l, s.name) = {y \in Range(L) \cup Range(P) : nodes[y].name = s.name}
        BY <1>1 DEF Named
      <4> QED
        BY <1>2, <3>2, <4>2, <4>3, <4>4
    <3> QED
      BY <1>3, <3>1, <3>2
  <2>8. Surrounded(s)
    <3>1. s.node \in DOMAIN nodes'
      BY <1>1, <1>2, <2>2
    <3>2. ASSUME NEW q \in nodes'[s.node].chain
          PROVE  \E k \in DOMAIN stack : q = stack[k].node /\ Sees(s, q)' = Named(k, s.name)
      BY <2>5, <2>7
    <3> QED
      BY <2>4, <3>1, <3>2 DEF Surrounded
  <2>9. WillAwait(s) => Awaits(s)'
    <3> SUFFICES ASSUME WillAwait(s) PROVE Awaits(s)'
      OBVIOUS
    <3>1. stack[l].key[1] = s.means[2] /\ s.means[2] # Home /\ s.name \notin stack[l].visible
      BY <1>1 DEF WillAwait
    <3>2. phase' = "qualifying" /\ s.name \notin visible'
      BY <1>2, <3>1
    <3>3. q0 \in nodes'[s.node].chain /\ nodes'[q0].key # NoCall /\ nodes'[q0].key[1] = s.means[2]
      BY <1>1, <1>2, <1>6, <2>4, <3>1
    <3>4. \A c \in nodes'[s.node].chain : ~ (c > q0)
      <4>1. \A c \in nodes[q0].chain : c <= q0 /\ c \in Nat
        BY <1>1, ChainIn
      <4> QED
        BY <1>6, <2>2, <4>1
    <3>5. Entry'.pending # <<>> /\ q0 = Last(Entry'.pending)
      BY <1>13, <1>16
    <3> QED
      BY <3>2, <3>3, <3>4, <3>5 DEF Awaits
  <2>10. \A i \in DOMAIN stack' : s.node # stack'[i].node
    BY <1>9, <1>14, <1>15, <2>2
  <2>11. Read(s)'
    BY <1>2, <1>4, <2>1, <2>8, <2>9, <2>10, NewRead
  <2> QED
    BY <2>1, <2>11
<1>35. ReadsInv'
  <2> SUFFICES ASSUME NEW r \in reads' PROVE Read(r)'
    BY DEF ReadsInv
  <2>1. CASE r \in reads
    BY <1>33, <2>1
  <2>2. CASE r \in At(q0, value)
    <3>1. PICK u \in value : r = [u EXCEPT !.node = q0]
      BY <2>2 DEF At
    <3> QED
      BY <1>34, <3>1
  <2> QED
    BY <1>2, <2>1, <2>2
<1>36. Faithful' /\ LetsAreNotRecaptured'
  BY <1>2 DEF Faithful, LetsAreNotRecaptured
<1> QED
  BY <1>20, <1>22, <1>23, <1>25, <1>27, <1>28, <1>29, <1>30, <1>31, <1>35, <1>36

-----------------------------------------------------------------------------
(* qualify.                                                                *)

\* When qualify gives a read its database.
Gets(r, q, bound) ==
    Within(r, q) /\ r.reached /\ r.db = None /\ r.name \notin bound /\ ~BoundWithin(r, q)

\* qualify changes the database of a reference alone.
LEMMA QualifiedIs ==
    ASSUME NEW r \in RefType, NEW q, NEW d \in Databases, NEW bound, NEW s, s = Qualified(r, q, d, bound)
    PROVE  /\ s \in RefType
           /\ s.node = r.node /\ s.name = r.name /\ s.via = r.via /\ s.reached = r.reached /\ s.means = r.means
           /\ s.db = IF Gets(r, q, bound) THEN d ELSE r.db
<1> USE DEF Gets
<1>1. CASE Within(r, q) /\ r.reached /\ r.db = None /\ r.name \notin bound /\ ~BoundWithin(r, q)
  <2>1. s = [r EXCEPT !.db = d]
    BY <1>1 DEF Qualified
  <2> QED
    BY <1>1, <2>1 DEF RefType
<1>2. CASE ~(Within(r, q) /\ r.reached /\ r.db = None /\ r.name \notin bound /\ ~BoundWithin(r, q))
  <2>1. s = r
    BY <1>2 DEF Qualified
  <2> QED
    BY <1>2, <2>1
<1> QED
  BY <1>1, <1>2

\* References that differ in their databases see the same lets.
LEMMA SeesOfLike ==
    ASSUME UNCHANGED <<nodes, lets>>, NEW r, NEW s, s.node = r.node, s.name = r.name, NEW q
    PROVE  Sees(s, q)' = Sees(r, q)
<1>1. Inner(s, q)' = Inner(r, q)
  BY DEF Inner
<1>2. Seen(s, q)' = Seen(r, q)
  BY <1>1 DEF Seen, Before
<1>3. Bound(s, q)' = Bound(r, q)
  BY <1>2 DEF Bound
<1> QED
  BY <1>3 DEF Sees

\* What was just lowered means the same while no binding changes.
LEMMA SameValue ==
    ASSUME Valued, UNCHANGED <<nodes, lets, stack, visible, scalars, context, value>>
    PROVE  Valued'
<1>1. \A r : ScalarRead(stack', r, Len(stack')) = ScalarRead(stack, r, Len(stack))
  BY DEF ScalarRead
<1>2. \A r : BareValue(r)' = BareValue(r)
  BY DEF BareValue, Means, LetOf, CallsFunction, KustoDatabase, Entry, Where, Entity
<1>3. \A r : /\ QualifiedValue(r)' = QualifiedValue(r) /\ CallValue(r)' = CallValue(r)
             /\ MacroValue(r)' = MacroValue(r)
  BY DEF QualifiedValue, CallValue, MacroValue, Entry
<1> QED
  BY <1>1, <1>2, <1>3 DEF Valued

\* A database's name is none.
LEMMA TableMeans ==
    ASSUME NEW m \in MeansType, m[1] = "table"
    PROVE  m[2] \in Databases /\ m[2] # None /\ m = <<"table", m[2], m[3]>>
<1>1. m \in {"table", "function"} \X Databases \X Names
  BY DEF MeansType
<1>2. m[2] \in Databases /\ m[3] \in Names /\ m = <<m[1], m[2], m[3]>>
  BY <1>1
<1> QED
  BY <1>2, ScopesAssumption

\* The tables of the body that ended, and no other name, get its database.
LEMMA QualifyBodyStep ==
    ASSUME IInv, QualifyBody
    PROVE  IInv'
<1> USE DEF IInv
<1>l. PICK l, q : l = Len(stack) /\ q = Last(Entry.pending)
  OBVIOUS
<1>d. PICK d : d = nodes[q].key[1]
  OBVIOUS
<1>1. /\ DOMAIN nodes = 1 .. Len(nodes) /\ DOMAIN lets = DOMAIN nodes /\ Len(nodes) \in Nat
      /\ DOMAIN stack = 1 .. l /\ l \in Nat /\ l \in DOMAIN stack
      /\ Entry = stack[l] /\ l = Len(stack)
  BY TypesOfParts, <1>l
<1>2. /\ phase = "qualifying" /\ phase' = "lowering"
      /\ reads' = {Qualified(r, q, d, visible) : r \in reads}
      /\ UNCHANGED <<nodes, lets, stack, visible, scalars, context, value>>
  BY <1>l, <1>d DEF QualifyBody
<1>3. Working /\ Working' /\ ~HeadsMacro /\ (HeadsMacro /\ Working' => HeadsMacro')
  BY <1>2 DEF Working, Qualifying
<1>4. q \in Range(stack[l].pending) /\ d # Home
  <2>1. Entry.pending # <<>> /\ Entry.pending \in Seq(Nat)
    BY <1>1, <1>2, TypesOfParts, BodyFields DEF Qualifying
  <2>2. Last(Entry.pending) \in Range(Entry.pending)
    BY <2>1, RangeSeq
  <2> QED
    BY <1>1, <1>2, <1>l, <1>d, <2>2 DEF Qualifying
<1>5. IsChild(nodes, q, stack[l].node) /\ nodes[q].key # NoCall /\ q \in DOMAIN nodes
  BY <1>1, <1>3, <1>4 DEF Pending, IsChild
<1>6. d \in Databases /\ d # None
  <2>1. nodes[q].key \in Functions
    BY <1>5, TypesOfParts
  <2> QED
    BY <1>d, <2>1, KeyFields
<1>7. \A r \in reads : r \in RefType /\ r.node \in DOMAIN nodes /\ Read(r)
  BY <1>2 DEF Types, ReadsInv
<1>8. Types'
  <2>1. ASSUME NEW s \in reads' PROVE s \in RefType /\ s.node \in DOMAIN nodes'
    <3>1. PICK r \in reads : s = Qualified(r, q, d, visible)
      BY <1>2
    <3>2. r \in RefType /\ r.node \in DOMAIN nodes
      BY <1>7
    <3>3. s \in RefType
      BY <1>6, <3>1, <3>2, QualifiedIs
    <3>4. s.node = r.node
      BY <1>6, <3>1, <3>2, QualifiedIs
    <3> QED
      BY <1>2, <3>2, <3>3, <3>4
  <2>2. reads' \in SUBSET RefType
    BY <2>1
  <2> QED
    BY <1>2, <2>1, <2>2 DEF Types
<1>9. Tree' /\ Placement' /\ Stacked' /\ Pending' /\ Scoped' /\ Kept' /\ ScalarsHeld'
  BY <1>2, <1>3, SameScope
<1>10. ASSUME NEW r \in reads, NEW s, s = Qualified(r, q, d, visible) PROVE Read(s)'
  <2>1. /\ s \in RefType
        /\ s.node = r.node /\ s.name = r.name /\ s.via = r.via /\ s.reached = r.reached /\ s.means = r.means
        /\ IF Within(r, q) /\ r.reached /\ r.db = None /\ r.name \notin visible /\ ~BoundWithin(r, q)
           THEN s.db = d
           ELSE s.db = r.db
    <3>0. r \in RefType
      BY <1>7
    <3>1. s \in RefType
      BY <1>6, <1>10, <3>0, QualifiedIs
    <3>2. s.node = r.node /\ s.name = r.name /\ s.via = r.via /\ s.reached = r.reached /\ s.means = r.means
      BY <1>6, <1>10, <3>0, QualifiedIs
    <3>3. s.db = IF Gets(r, q, visible) THEN d ELSE r.db
      BY <1>6, <1>10, <3>0, QualifiedIs
    <3> QED
      BY <3>1, <3>2, <3>3 DEF Gets
  <2>2. r \in RefType /\ r.node \in DOMAIN nodes /\ Read(r)
    BY <1>7
  <2>3. \A p : Sees(s, p)' = Sees(r, p)
    BY <1>2, <2>1, SeesOfLike
  <2>4. Moved(r) => Moved(s)'
    <3> SUFFICES ASSUME Moved(r) PROVE Moved(s)'
      OBVIOUS
    <3>1. PICK p \in nodes[r.node].chain, m \in reads :
        /\ m.via = "spliced" /\ m.node \in Range(lets[p])
        /\ \/ Len(lets[p]) > 1
           \/ Working /\ \E i \in DOMAIN stack : stack[i].node = p /\ stack[i].pending # <<>>
      BY DEF Moved
    <3>2. PICK t : t = Qualified(m, q, d, visible)
      OBVIOUS
    <3>3. t \in reads' /\ t.via = "spliced" /\ t.node = m.node
      <4>1. m \in RefType
        BY <1>7
      <4>2. t.node = m.node /\ t.via = m.via
        <5>1. t.node = m.node /\ t.name = m.name /\ t.via = m.via /\ t.reached = m.reached /\ t.means = m.means
          BY <1>6, <3>2, <4>1, QualifiedIs
        <5> QED
          BY <5>1
      <4> QED
        BY <1>2, <3>1, <3>2, <4>2
    <3> QED
      BY <1>2, <1>3, <2>1, <3>1, <3>3 DEF Moved
  <2>5. HomeInsideOther(r) => HomeInsideOther(s)'
    BY <1>2, <2>1 DEF HomeInsideOther
  <2>6. Working' => \A i \in DOMAIN stack' : s.node # stack'[i].node
    BY <1>2, <1>3, <2>1, <2>2 DEF Read
  <2>7. CASE Within(r, q) /\ r.reached /\ r.db = None /\ r.name \notin visible /\ ~BoundWithin(r, q)
    <3>1. s.db = d /\ q \in nodes[r.node].chain
      BY <2>1, <2>7 DEF Within
    <3>2. \A p \in nodes[r.node].chain : p >= q => Sees(r, p) = {}
      BY <2>7 DEF BoundWithin, Binders, Sees
    <3>3. \A p \in nodes[r.node].chain : p \in Nat /\ (p < q => \E k \in DOMAIN stack : p = stack[k].node)
      <4> TAKE p \in nodes[r.node].chain
      <4>1. p \in Nat /\ q \in Nat /\ nodes[q].chain = {c \in nodes[r.node].chain : c <= q}
        BY <2>2, <3>1, ChainIn
      <4>2. ASSUME p < q PROVE \E k \in DOMAIN stack : p = stack[k].node
        <5>1. p \in nodes[q].chain /\ p # q
          BY <4>1, <4>2
        <5>2. p \in nodes[stack[l].node].chain
          BY <1>5, <5>1 DEF IsChild
        <5> QED
          BY <1>1, <5>2, Bodies
      <4> QED
        BY <4>1, <4>2
    <3>4. ~ LetRead(r)
      <4> SUFFICES ASSUME LetRead(r) PROVE FALSE
        OBVIOUS
      <4>1. PICK p \in nodes[r.node].chain : Sees(r, p) = {r.means[2]} /\ r.name \in Names
        BY DEF LetRead
      <4>2. p < q
        <5>1. ~ (p >= q)
          BY <3>2, <4>1
        <5>2. p \in Nat /\ q \in Nat
          BY <1>1, <1>5, <3>3
        <5> QED
          BY <5>1, <5>2
      <4>3. PICK k \in DOMAIN stack : p = stack[k].node
        BY <3>3, <4>2
      <4>4. PICK j \in DOMAIN lets[p] : nodes[lets[p][j]].name = r.name
        BY <4>1 DEF Sees, Bound, Seen, Before
      <4>5. PICK c \in Range(lets[stack[k].node]) : nodes[c].name = r.name
        BY <4>3, <4>4 DEF Range
      <4>6. r.name \in DOMAIN stack[k].declared
        BY <1>3, <4>1, <4>5 DEF Scoped
      <4>7. k \in 1 .. Len(stack)
        BY <1>1
      <4>8. InScope(stack, r.name, Len(stack))
        BY <4>6, <4>7 DEF InScope
      <4> QED
        BY <2>7, <4>1, <4>8 DEF Scoped
    <3>5. ~ FunctionRead(r)
      <4> SUFFICES ASSUME FunctionRead(r) PROVE FALSE
        OBVIOUS
      <4>1. PICK p \in nodes[r.node].chain :
                r.name \in Sees(r, p) /\ \A x \in nodes[r.node].chain : x > p => nodes[x].key = NoCall
        BY DEF FunctionRead
      <4>2. ~ (q > p)
        BY <1>5, <3>1, <4>1
      <4>3. p >= q
        BY <1>1, <1>5, <3>3, <4>2
      <4> QED
        BY <3>2, <4>1, <4>3
    <3>6. ASSUME r.means[1] = "table", TableRead(r) PROVE TableRead(s)'
      <4>1. CASE Moved(r) \/ HomeInsideOther(r)
        BY <2>4, <2>5, <4>1 DEF TableRead
      <4>2. CASE ~ (Moved(r) \/ HomeInsideOther(r))
        <5>1. r.means[2] # None
          BY <2>2, <3>6, RefFields, TableMeans
        <5>2. r.name = r.means[3] /\ r.name \in Names /\ (r.means[2] = Home \/ Awaits(r))
          BY <2>7, <3>6, <4>2, <5>1 DEF TableRead
        <5>3. r.means[2] # Home
          <6> SUFFICES ASSUME r.means[2] = Home PROVE FALSE
            OBVIOUS
          <6>1. nodes[q].key[1] \notin {None, Home}
            BY <1>d, <1>4, <1>6
          <6> QED
            BY <3>1, <3>6, <4>2, <6>1 DEF HomeInsideOther
        <5>4. PICK q1 \in nodes[r.node].chain :
                /\ nodes[q1].key # NoCall /\ nodes[q1].key[1] = r.means[2]
                /\ \A c \in nodes[r.node].chain : c > q1 => nodes[c].key = NoCall
                /\ \/ \E i \in DOMAIN stack : i > 1 /\ stack[i].node = q1
                   \/ q1 = Last(Entry.pending)
          BY <5>2, <5>3 DEF Awaits
        <5>5. q1 = q
          <6>1. ASSUME NEW i \in DOMAIN stack, stack[i].node = q1 PROVE FALSE
            <7>1. stack[l].node < q /\ stack[l].node \in Nat /\ q \in Nat /\ stack[i].node \in Nat
              BY <1>1, <1>5, Bodies DEF IsChild
            <7>2. i = l \/ i < l
              BY <1>1
            <7>3. i < l => stack[i].node < stack[l].node
              BY <1>1, Bodies
            <7>4. q > q1
              BY <6>1, <7>1, <7>2, <7>3
            <7> QED
              BY <1>5, <3>1, <5>4, <7>4
          <6> QED
            BY <1>l, <5>4, <6>1
        <5>6. s.db = s.means[2] /\ s.name = s.means[3] /\ s.name \in Names
          BY <1>d, <2>1, <3>1, <5>2, <5>4, <5>5
        <5> QED
          BY <1>6, <3>1, <5>6 DEF TableRead
      <4> QED
        BY <4>1, <4>2
    <3> QED
      BY <2>1, <2>2, <2>4, <2>6, <3>4, <3>5, <3>6 DEF Read
  <2>8. CASE ~(Within(r, q) /\ r.reached /\ r.db = None /\ r.name \notin visible /\ ~BoundWithin(r, q))
    <3>1. s.db = r.db
      BY <2>1, <2>8
    <3>2. LetRead(r) => LetRead(s)'
      BY <1>2, <2>1, <2>3, <2>4, <3>1 DEF LetRead
    <3>3. FunctionRead(r) => FunctionRead(s)'
      BY <1>2, <2>1, <2>3, <3>1 DEF FunctionRead
    <3>4. ASSUME r.reached, TableRead(r) PROVE TableRead(s)'
      <4>1. CASE Moved(r) \/ HomeInsideOther(r)
        BY <2>4, <2>5, <4>1 DEF TableRead
      <4>2. CASE ~ (Moved(r) \/ HomeInsideOther(r))
        <5>1. CASE r.db = r.means[2] /\ r.db # None
          BY <2>1, <3>1, <3>4, <4>2, <5>1 DEF TableRead
        <5>2. CASE ~ (r.db = r.means[2] /\ r.db # None)
          <6>1. /\ r.name = r.means[3] /\ r.name \in Names /\ r.db = None
                /\ \A p \in nodes[r.node].chain : Sees(r, p) = {}
                /\ r.means[2] = Home \/ Awaits(r)
            BY <3>4, <4>2, <5>2 DEF TableRead
          <6>2. ~ BoundWithin(r, q)
            BY <6>1 DEF BoundWithin, Binders, Sees
          <6>3. Awaits(r) => Awaits(s)'
            <7> SUFFICES ASSUME Awaits(r) PROVE Awaits(s)'
              OBVIOUS
            <7>1. PICK q1 \in nodes[r.node].chain :
                    /\ nodes[q1].key # NoCall /\ nodes[q1].key[1] = r.means[2]
                    /\ \A c \in nodes[r.node].chain : c > q1 => nodes[c].key = NoCall
                    /\ \/ \E i \in DOMAIN stack : i > 1 /\ stack[i].node = q1 /\ r.name \notin stack[i].visible
                       \/ q1 = q /\ r.name \notin visible
              BY <1>l DEF Awaits
            <7>2. ~ (q1 = q /\ r.name \notin visible)
              BY <2>8, <3>4, <6>1, <6>2, <7>1 DEF Within
            <7>3. \E i \in DOMAIN stack : i > 1 /\ stack[i].node = q1 /\ r.name \notin stack[i].visible
              BY <7>1, <7>2
            <7> QED
              BY <1>2, <1>3, <2>1, <7>1, <7>3 DEF Awaits
          <6> QED
            BY <1>2, <2>1, <2>3, <3>1, <6>1, <6>3 DEF TableRead
        <5> QED
          BY <5>1, <5>2
      <4> QED
        BY <4>1, <4>2
    <3> QED
      BY <2>1, <2>2, <2>4, <2>6, <3>2, <3>3, <3>4 DEF Read
  <2> QED
    BY <2>7, <2>8
<1>11. ReadsInv'
  BY <1>2, <1>10 DEF ReadsInv
<1>12. Valued'
  BY <1>2, SameValue
<1>13. Qualifying' /\ Faithful' /\ LetsAreNotRecaptured'
  BY <1>2 DEF Qualifying, Faithful, LetsAreNotRecaptured
<1> QED
  BY <1>8, <1>9, <1>11, <1>12, <1>13

\* The statement ends: its reads are placed, in no body.
LEMMA EndQueryStep ==
    ASSUME IInv, EndQuery
    PROVE  IInv'
<1> USE DEF IInv
<1>q. PICK q0, L, P : q0 = Entry.node /\ L = lets[Entry.node] /\ P = Entry.pending
  OBVIOUS
<1>1. /\ DOMAIN nodes = 1 .. Len(nodes) /\ DOMAIN lets = DOMAIN nodes /\ Len(nodes) \in Nat
      /\ Len(stack) = 1 /\ DOMAIN stack = {1}
      /\ Entry = stack[1] /\ Entry \in BodyType
      /\ q0 \in DOMAIN nodes /\ nodes[q0].chain \subseteq Nat /\ q0 \in Nat
      /\ stack[1].node = q0 /\ stack[1].pending = P
      /\ L \in Seq(Nat) /\ P \in Seq(Nat) /\ lets[q0] = L /\ Entry.node = q0
  <2>1. Len(stack) = 1
    BY DEF EndQuery
  <2>2. DOMAIN stack = {1} /\ Entry = stack[1] /\ Entry \in BodyType
    BY <2>1, TypesOfParts
  <2> QED
    BY <2>1, <2>2, TypesOfParts, Bodies, BodyFields, <1>q
<1>2. /\ value # {} /\ phase = "lowering" /\ phase' = "lowered" /\ value' = {}
      /\ nodes' = nodes /\ reads' = reads \cup At(q0, value)
      /\ UNCHANGED <<stack, visible, scalars, context>>
  BY <1>1 DEF EndQuery, Lowering, Finish
<1>3. Working /\ ~Working' /\ NodesKept
  BY <1>2 DEF Working, NodesKept
<1>10. /\ (L \o P) \o <<>> \in Seq(Nat)
       /\ Range((L \o P) \o <<>>) = Range(L) \cup Range(P)
  <2>1. PICK M : M = <<>>
    OBVIOUS
  <2>2. M \in Seq(Nat) /\ Range(M) = {}
    BY <2>1, RangeNone
  <2>3. (L \o P) \o M \in Seq(Nat)
    BY <1>1, <2>2, ThreeLists
  <2>4. Range((L \o P) \o M) = Range(L) \cup Range(P) \cup Range(M)
    BY <1>1, <2>2, ThreeLists
  <2> QED
    BY <2>1, <2>2, <2>3, <2>4
<1>11. /\ lets' \in Seq(Seq(Nat)) /\ Len(lets') = Len(nodes) /\ DOMAIN lets' = DOMAIN nodes
       /\ lets'[q0] = (L \o P) \o <<>>
       /\ \A q \in DOMAIN nodes : q # q0 => lets'[q] = lets[q]
  <2>1. PICK K : K = (L \o P) \o <<>>
    OBVIOUS
  <2>2. lets' = [lets EXCEPT ![q0] = K]
    BY <1>1, <2>1 DEF EndQuery, Finish, Placed
  <2>3. lets \in Seq(Seq(Nat)) /\ K \in Seq(Nat) /\ Len(lets) = Len(nodes)
    BY <1>10, <2>1 DEF Types
  <2> QED
    BY <1>1, <2>1, <2>2, <2>3
<1>12. \A r \in value : /\ r \in RefType /\ [r EXCEPT !.node = q0] \in RefType /\ [r EXCEPT !.node = q0].node = q0
  <2> TAKE r \in value
  <2>1. r \in RefType /\ q0 \in Nat
    BY <1>1, <1>2 DEF Types
  <2> QED
    BY <2>1, PlacedTyped
<1>13. Types'
  <2>1. \A s \in At(q0, value) : s \in RefType /\ s.node = q0
    BY <1>12 DEF At
  <2>2. reads' \in SUBSET RefType /\ \A r \in reads' : r.node \in DOMAIN nodes'
    BY <1>1, <1>2, <2>1 DEF Types
  <2>3. nodes' \in Seq(NodeType) /\ stack' \in Seq(BodyType) /\ Len(stack') >= 1 /\ visible' \in SUBSET Names
        /\ scalars' \in [Scalars -> SUBSET RefType] /\ context' \in Databases
    BY <1>2 DEF Types
  <2> QED
    BY <1>2, <1>11, <2>2, <2>3 DEF Types
<1>14. \A c \in Range(P) : IsChild(nodes, c, q0) /\ nodes[c].name # None
  <2> TAKE c \in Range(P)
  <2>1. 1 \in DOMAIN stack /\ c \in Range(stack[1].pending) /\ stack[1].node = q0
    BY <1>1
  <2>2. IsChild(nodes, c, q0) /\ nodes[c].key # NoCall
    BY <1>3, <2>1 DEF Pending
  <2>3. c \in DOMAIN nodes
    BY <2>2 DEF IsChild
  <2> QED
    BY <2>2, <2>3, CallHasNumber
<1>15. Tree' /\ Placement'
  <2>1. ASSUME NEW q \in DOMAIN lets', NEW c \in Range(lets'[q])
        PROVE  IsChild(nodes', c, q) /\ nodes'[c].name # None
    <3>1. CASE c \in Range(lets[q])
      BY <1>1, <1>2, <1>11, <3>1 DEF Placement
    <3>2. CASE q = q0 /\ c \in Range(P)
      BY <1>2, <1>14, <3>2
    <3> QED
      BY <1>1, <1>10, <1>11, <2>1, <3>1, <3>2
  <2>2. Tree'
    BY <1>2 DEF Tree
  <2> QED
    BY <2>1, <2>2 DEF Placement
<1>16. Stacked'
  BY <1>2 DEF Stacked, IsChild, ContextOf
<1>17. Pending' /\ Kept'
  BY <1>3 DEF Pending, Kept
<1>18. Scoped'
  <2>1. /\ visible' = {n \in Names : InScope(stack', n, Len(stack'))}
        /\ \A i \in DOMAIN stack' : i > 1 => stack'[i].visible = {n \in Names : InScope(stack', n, i - 1)}
    BY <1>2 DEF Scoped
  <2>2. \A i \in DOMAIN stack' : \A n \in DOMAIN stack'[i].declared \cap Names :
          /\ stack'[i].declared[n] \in Range(lets'[stack'[i].node])
          /\ nodes'[stack'[i].declared[n]].name = n
    <3>1. Range(L) \subseteq Range(lets'[q0])
      BY <1>10, <1>11
    <3> QED
      BY <1>1, <1>2, <3>1 DEF Scoped
  <2> QED
    BY <1>3, <2>1, <2>2 DEF Scoped
<1>19. ScalarsHeld'
  BY <1>2 DEF ScalarsHeld
<1>20. ASSUME NEW r \in reads PROVE Read(r)'
  <2>1. Awaits(r) => Awaits(r)' \/ r.means[2] = Home
    BY <1>1, <1>2 DEF Awaits
  <2>2. \A i \in DOMAIN stack : i < Len(stack) =>
              /\ Working' /\ i \in DOMAIN stack' /\ stack'[i].node = stack[i].node
              /\ stack[i].pending # <<>> => stack'[i].pending # <<>>
    BY <1>1
  <2>4. lets'[Entry.node] = (lets[Entry.node] \o Entry.pending) \o <<>>
        /\ \A q \in DOMAIN nodes : q # Entry.node => lets'[q] = lets[q]
    BY <1>1, <1>11
  <2>5. PICK M : M = <<>>
    OBVIOUS
  <2>6. M \in Seq(Nat) /\ lets'[Entry.node] = (lets[Entry.node] \o Entry.pending) \o M
    BY <2>4, <2>5
  <2>7. reads \subseteq reads'
    BY <1>2
  <2> QED
    BY <1>3, <2>1, <2>2, <2>4, <2>5, <2>6, <2>7, PlacedReads
<1>21. ASSUME NEW r \in value PROVE Read([r EXCEPT !.node = q0])'
  <2>1. PICK s : s = [r EXCEPT !.node = q0]
    OBVIOUS
  <2>2. s.node = q0 /\ nodes'[s.node].chain = nodes[q0].chain
    BY <1>2, <1>12, <2>1
  <2>3. nodes[q0].chain = {q0}
    <3>1. 1 \in DOMAIN stack /\ 1 .. 1 = {1}
      BY <1>1
    <3>2. nodes[stack[1].node].chain = {stack[k].node : k \in 1 .. 1}
      BY <3>1, Bodies
    <3> QED
      BY <1>1, <3>1, <3>2
  <2>4. Sees(s, q0)' = Named(1, s.name)
    <3>1. Sees(s, q0)' = {y \in Range(lets'[q0]) : nodes'[y].name = s.name}
      BY <2>2, SeesNew
    <3>2. Range(lets'[q0]) = Range(L) \cup Range(P)
      BY <1>10, <1>11
    <3>3. Named(1, s.name) = {y \in Range(L) \cup Range(P) : nodes[y].name = s.name}
      BY <1>1 DEF Named
    <3> QED
      BY <1>2, <3>1, <3>2, <3>3
  <2>5. Surrounded(s)
    <3>1. s.node \in DOMAIN nodes' /\ \A k \in DOMAIN stack : stack[k].node \in nodes'[s.node].chain
      BY <1>1, <1>2, <2>2, <2>3
    <3>2. ASSUME NEW q \in nodes'[s.node].chain
          PROVE  \E k \in DOMAIN stack : q = stack[k].node /\ Sees(s, q)' = Named(k, s.name)
      <4>1. q = q0 /\ 1 \in DOMAIN stack /\ q = stack[1].node
        BY <1>1, <2>2, <2>3, <3>2
      <4> QED
        BY <2>4, <4>1
    <3> QED
      BY <3>1, <3>2 DEF Surrounded
  <2>6. ~ WillAwait(s)
    BY <1>1 DEF WillAwait
  <2>7. Read(s)'
    BY <1>2, <1>3, <2>1, <2>5, <2>6, NewRead
  <2> QED
    BY <2>1, <2>7
<1>22. ReadsInv'
  <2> SUFFICES ASSUME NEW r \in reads' PROVE Read(r)'
    BY DEF ReadsInv
  <2>1. CASE r \in reads
    BY <1>20, <2>1
  <2>2. CASE r \in At(q0, value)
    <3>1. PICK u \in value : r = [u EXCEPT !.node = q0]
      BY <2>2 DEF At
    <3> QED
      BY <1>21, <3>1
  <2> QED
    BY <1>2, <2>1, <2>2
<1>23. Valued' /\ Qualifying' /\ Faithful' /\ LetsAreNotRecaptured'
  BY <1>2 DEF Valued, Qualifying, Faithful, LetsAreNotRecaptured
<1> QED
  BY <1>13, <1>15, <1>16, <1>17, <1>18, <1>19, <1>22, <1>23

-----------------------------------------------------------------------------
(* Translation.                                                            *)

\* A name reaches a let of the innermost query that has one for it.
LEMMA ReachedIs ==
    ASSUME Types, Tree, Placement, NEW r, r.node \in DOMAIN nodes, Binders(r) # {}
    PROVE  \E q \in Binders(r) : /\ q \in nodes[r.node].chain
                                 /\ \A p \in Binders(r) : p <= q
                                 /\ Reached(r) \in Sees(r, q)
<1>1. Binders(r) \in SUBSET (0 .. r.node) /\ r.node \in Nat /\ Binders(r) \subseteq nodes[r.node].chain
  BY TypesOfParts DEF Binders, Tree
<1>2. PICK q : q = Max(Binders(r))
  OBVIOUS
<1>3. q \in Binders(r) /\ \A p \in Binders(r) : q >= p
  BY <1>1, <1>2, MaxIs
<1>4. q \in nodes[r.node].chain /\ q \in DOMAIN nodes /\ q \in Nat /\ Bound(r, q) # {}
  BY <1>1, <1>3, ChainIn DEF Binders
<1>5. PICK B : B = Bound(r, q)
  OBVIOUS
<1>6. lets[q] \in Seq(Nat) /\ B \subseteq DOMAIN lets[q]
  BY <1>4, <1>5, TypesOfParts DEF Bound, Seen, Before
<1>7. Len(lets[q]) \in Nat /\ B \in SUBSET (0 .. Len(lets[q])) /\ B # {}
  BY <1>4, <1>5, <1>6
<1>8. Max(B) \in B
  BY <1>7, MaxIs
<1>9. Reached(r) = lets[q][Max(B)]
  BY <1>2, <1>5 DEF Reached
<1>10. Reached(r) \in Sees(r, q)
  BY <1>5, <1>8, <1>9 DEF Sees
<1>11. \A p \in Binders(r) : p <= q
  <2> TAKE p \in Binders(r)
  <2>1. p \in Nat /\ q >= p
    BY <1>1, <1>3
  <2> QED
    BY <1>4, <2>1
<1> QED
  BY <1>3, <1>4, <1>10, <1>11

\* A let is reached when no query further in has one of its name.
LEMMA AnsweredByLet ==
    ASSUME Types, Tree, Placement, NEW r, r.node \in DOMAIN nodes, r.db = None,
           NEW p \in nodes[r.node].chain, NEW b, Sees(r, p) = {b}, nodes[b].key = NoCall,
           \A q \in Binders(r) : ~ (q > p)
    PROVE  Answered(r) = <<"let", b>>
<1>1. p \in Binders(r)
  BY DEF Binders, Sees
<1>2. PICK q \in Binders(r) : /\ q \in nodes[r.node].chain
                              /\ \A x \in Binders(r) : x <= q
                              /\ Reached(r) \in Sees(r, q)
  BY <1>1, ReachedIs
<1>3. p = q
  <2>1. p \in Nat /\ q \in Nat
    BY <1>2, ChainIn
  <2>2. p <= q /\ ~ (q > p)
    BY <1>1, <1>2
  <2> QED
    BY <2>1, <2>2
<1>4. Reached(r) = b
  BY <1>2, <1>3
<1> QED
  BY <1>1, <1>4 DEF Answered

\* A call's number is the name of its query alone.
LEMMA AnsweredByCall ==
    ASSUME Types, Tree, Placement, NEW r, r.node \in DOMAIN nodes, r.db = None,
           NEW p \in nodes[r.node].chain, r.name \in Sees(r, p),
           r.name \in DOMAIN nodes, nodes[r.name].key # NoCall
    PROVE  Answered(r) = <<"function", nodes[r.name].key[1], nodes[r.name].key[2]>>
<1>1. p \in Binders(r)
  BY DEF Binders, Sees
<1>2. PICK q \in Binders(r) : q \in nodes[r.node].chain /\ Reached(r) \in Sees(r, q)
  BY <1>1, ReachedIs
<1>3. PICK c : c = Reached(r)
  OBVIOUS
<1>4. c \in Range(lets[q]) /\ nodes[c].name = r.name
  BY <1>2, <1>3 DEF Sees, Bound, Seen, Before, Range
<1>5. c \in DOMAIN nodes
  BY <1>2, <1>4, ChainIn, TypesOfParts DEF Placement, IsChild
<1>6. c = r.name
  <2>1. r.name \in Nat
    BY TypesOfParts
  <2>2. nodes[c].name \in Names \cup {None, c} /\ nodes[c].name \notin Names /\ nodes[c].name # None
    BY <1>4, <1>5, <2>1, ScopesAssumption DEF Tree
  <2> QED
    BY <1>4, <2>2
<1> QED
  BY <1>1, <1>3, <1>6 DEF Answered

\* A meaning is its parts.
LEMMA MeansIs ==
    ASSUME NEW m \in MeansType
    PROVE  /\ m[1] = "let" => m = <<"let", m[2]>>
           /\ m[1] = "function" => m = <<"function", m[2], m[3]>>
           /\ m[1] = "table" => m = <<"table", m[2], m[3]>>
<1>1. CASE m \in {"let"} \X Nat
  <2>1. m = <<m[1], m[2]>>
    BY <1>1
  <2> QED
    BY <1>1, <2>1
<1>2. CASE m \in {"table", "function"} \X Databases \X Names
  <2>1. m = <<m[1], m[2], m[3]>> /\ m[1] \in {"table", "function"}
    BY <1>2
  <2> QED
    BY <2>1
<1> QED
  BY <1>1, <1>2 DEF MeansType

\* One query binds a name that is not ambiguous.
LEMMA OneBinder ==
    ASSUME Types, Tree, NEW r, r.node \in DOMAIN nodes, ~ (Cardinality(Binders(r)) > 1),
           NEW p \in Binders(r), NEW q \in Binders(r)
    PROVE  q = p
<1>1. Binders(r) \in SUBSET (1 .. r.node) /\ r.node \in Nat
  BY TypesOfParts DEF Binders, Tree
<1>2. IsFiniteSet(1 .. r.node)
  BY <1>1, FS_Interval
<1>3. IsFiniteSet(Binders(r))
  BY <1>1, <1>2, FS_Subset
<1>4. Cardinality(Binders(r)) \in Nat
  BY <1>3, FS_CardinalityType
<1>5. Cardinality(Binders(r)) # 0
  BY <1>3, FS_EmptySet
<1>6. Cardinality(Binders(r)) = 1
  BY <1>4, <1>5
<1>7. \E x : Binders(r) = {x}
  BY <1>3, <1>6, FS_Singleton
<1> QED
  BY <1>7

\* What is left of the reads is what the names mean.
LEMMA TranslateStep ==
    ASSUME IInv, Translate
    PROVE  IInv'
<1> USE DEF IInv
<1>1. /\ phase = "lowered" /\ reads' = {Qualified(r, 1, Home, {}) : r \in reads}
      /\ phase' \in {"refused", "rendered"}
      /\ UNCHANGED <<nodes, lets, stack, visible, scalars, context, value>>
  BY DEF Translate
<1>2. phase' = "rendered" => \A s \in reads' : ~ Ambiguous(s)
  BY DEF Translate
<1>3. ~Working /\ ~Working'
  BY <1>1 DEF Working
<1>4. Home \in Databases /\ Home # None
  BY ScopesAssumption
<1>5. \A r \in reads : r \in RefType /\ r.node \in DOMAIN nodes /\ Read(r)
  BY <1>1 DEF Types, ReadsInv
<1>6. ASSUME NEW r \in reads, NEW s, s = Qualified(r, 1, Home, {})
      PROVE  /\ s \in RefType
             /\ s.node = r.node /\ s.name = r.name /\ s.via = r.via /\ s.reached = r.reached /\ s.means = r.means
             /\ s.db = IF r.reached /\ r.db = None /\ (\A q \in nodes[r.node].chain : Sees(r, q) = {})
                       THEN Home ELSE r.db
  <2>1. r \in RefType /\ r.node \in DOMAIN nodes
    BY <1>5
  <2>2. s \in RefType
    BY <1>4, <1>6, <2>1, QualifiedIs
  <2>3. s.node = r.node /\ s.name = r.name /\ s.via = r.via /\ s.reached = r.reached /\ s.means = r.means
    BY <1>4, <1>6, <2>1, QualifiedIs
  <2>4. s.db = IF Gets(r, 1, {}) THEN Home ELSE r.db
    BY <1>4, <1>6, <2>1, QualifiedIs
  <2>5. Within(r, 1) /\ \A q \in nodes[r.node].chain : q >= 1
    BY <2>1, TypesOfParts DEF Within, Tree
  <2>6. BoundWithin(r, 1) <=> \E q \in nodes[r.node].chain : Sees(r, q) # {}
    BY <2>5 DEF BoundWithin, Binders, Sees
  <2> QED
    BY <2>2, <2>3, <2>4, <2>5, <2>6 DEF Gets
<1>7. Types'
  <2>1. ASSUME NEW s \in reads' PROVE s \in RefType /\ s.node \in DOMAIN nodes'
    <3>1. PICK r \in reads : s = Qualified(r, 1, Home, {})
      BY <1>1
    <3> QED
      BY <1>1, <1>5, <1>6, <3>1
  <2>2. reads' \in SUBSET RefType
    BY <2>1
  <2> QED
    BY <1>1, <2>1, <2>2 DEF Types
<1>8. Tree' /\ Placement' /\ Stacked' /\ Pending' /\ Scoped' /\ Kept' /\ ScalarsHeld'
  BY <1>1, <1>3, SameScope
<1>9. ASSUME NEW r \in reads, NEW s, s = Qualified(r, 1, Home, {})
      PROVE  /\ s.means[1] = "let" => LetRead(s)' \/ (s.via = "spliced" /\ Moved(s)')
             /\ s.via # "scalar" =>
                  /\ s.reached
                  /\ s.means[1] = "let" \/ s.means[1] = "function" \/ s.means[1] = "table"
                  /\ s.means[1] = "function" => FunctionRead(s)'
                  /\ s.means[1] = "table" =>
                        \/ Moved(s)' \/ HomeInsideOther(s)'
                        \/ s.name = s.means[3] /\ s.name \in Names /\ s.db = s.means[2] /\ s.db # None
  <2>1. /\ s \in RefType
        /\ s.node = r.node /\ s.name = r.name /\ s.via = r.via /\ s.reached = r.reached /\ s.means = r.means
        /\ s.db = IF r.reached /\ r.db = None /\ (\A q \in nodes[r.node].chain : Sees(r, q) = {})
                  THEN Home ELSE r.db
    BY <1>6, <1>9
  <2>2. r \in RefType /\ r.node \in DOMAIN nodes /\ Read(r)
    BY <1>5
  <2>3. \A p : Sees(s, p)' = Sees(r, p)
    BY <1>1, <2>1, SeesOfLike
  <2>4. Moved(r) => Moved(s)'
    <3> SUFFICES ASSUME Moved(r) PROVE Moved(s)'
      OBVIOUS
    <3>1. PICK p \in nodes[r.node].chain, m \in reads :
            m.via = "spliced" /\ m.node \in Range(lets[p]) /\ Len(lets[p]) > 1
      BY <1>3 DEF Moved
    <3>2. PICK t : t = Qualified(m, 1, Home, {})
      OBVIOUS
    <3>3. t \in reads' /\ t.via = "spliced" /\ t.node = m.node
      BY <1>1, <1>6, <3>1, <3>2
    <3> QED
      BY <1>1, <2>1, <3>1, <3>3 DEF Moved
  <2>5. HomeInsideOther(r) => HomeInsideOther(s)'
    BY <1>1, <2>1 DEF HomeInsideOther
  <2>6. ASSUME LetRead(r) PROVE LetRead(s)'
    <3>1. s.db = r.db
      BY <2>1, <2>6 DEF LetRead
    <3> QED
      BY <1>1, <2>1, <2>3, <2>4, <2>6, <3>1 DEF LetRead
  <2>7. ASSUME FunctionRead(r) PROVE FunctionRead(s)'
    <3>1. s.db = r.db
      BY <2>1, <2>7 DEF FunctionRead
    <3> QED
      BY <1>1, <2>1, <2>3, <2>7, <3>1 DEF FunctionRead
  <2>8. ASSUME r.reached, TableRead(r)
        PROVE  \/ Moved(s)' \/ HomeInsideOther(s)'
               \/ s.name = s.means[3] /\ s.name \in Names /\ s.db = s.means[2] /\ s.db # None
    <3>1. ~ Awaits(r)
      BY <1>1, <1>3 DEF Awaits
    <3> QED
      BY <1>4, <2>1, <2>4, <2>5, <2>8, <3>1 DEF TableRead
  <2>9. /\ s.means[1] = "let" => LetRead(s)' \/ (s.via = "spliced" /\ Moved(s)')
    BY <2>1, <2>2, <2>4, <2>6 DEF Read
  <2>10. s.via # "scalar" =>
            /\ s.reached
            /\ s.means[1] = "let" \/ s.means[1] = "function" \/ s.means[1] = "table"
            /\ s.means[1] = "function" => FunctionRead(s)'
    BY <2>1, <2>2, <2>7 DEF Read
  <2>11. s.via # "scalar" /\ s.means[1] = "table" =>
            \/ Moved(s)' \/ HomeInsideOther(s)'
            \/ s.name = s.means[3] /\ s.name \in Names /\ s.db = s.means[2] /\ s.db # None
    BY <2>1, <2>2, <2>8 DEF Read
  <2> QED
    BY <2>9, <2>10, <2>11
<1>10. \A s \in reads' :
          /\ s \in RefType /\ s.node \in DOMAIN nodes
          /\ s.means[1] = "let" => LetRead(s)' \/ (s.via = "spliced" /\ Moved(s)')
          /\ s.via # "scalar" =>
               /\ s.reached
               /\ s.means[1] = "let" \/ s.means[1] = "function" \/ s.means[1] = "table"
               /\ s.means[1] = "function" => FunctionRead(s)'
               /\ s.means[1] = "table" =>
                     \/ Moved(s)' \/ HomeInsideOther(s)'
                     \/ s.name = s.means[3] /\ s.name \in Names /\ s.db = s.means[2] /\ s.db # None
  <2> TAKE s \in reads'
  <2>1. PICK r \in reads : s = Qualified(r, 1, Home, {})
    BY <1>1
  <2>2. s \in RefType /\ s.node \in DOMAIN nodes
    BY <1>1, <1>7 DEF Types
  <2>3. /\ s.means[1] = "let" => LetRead(s)' \/ (s.via = "spliced" /\ Moved(s)')
        /\ s.via # "scalar" =>
             /\ s.reached
             /\ s.means[1] = "let" \/ s.means[1] = "function" \/ s.means[1] = "table"
             /\ s.means[1] = "function" => FunctionRead(s)'
             /\ s.means[1] = "table" =>
                   \/ Moved(s)' \/ HomeInsideOther(s)'
                   \/ s.name = s.means[3] /\ s.name \in Names /\ s.db = s.means[2] /\ s.db # None
    BY <1>9, <2>1
  <2> QED
    BY <2>2, <2>3
<1>11. ReadsInv'
  <2> SUFFICES ASSUME NEW s \in reads' PROVE Read(s)'
    BY DEF ReadsInv
  <2>1. s.via # "scalar" /\ s.means[1] = "table" => TableRead(s)'
    BY <1>10 DEF TableRead
  <2> QED
    BY <1>3, <1>10, <2>1 DEF Read
<1>12. \A s : /\ Answered(s)' = Answered(s) /\ Binders(s)' = Binders(s)
              /\ \A q : Sees(s, q)' = Sees(s, q)
  <2>1. \A s, q : Seen(s, q)' = Seen(s, q)
    BY <1>1 DEF Seen, Before, Inner
  <2>2. \A s, q : Bound(s, q)' = Bound(s, q)
    BY <1>1, <2>1 DEF Bound
  <2>3. \A s : Binders(s)' = Binders(s)
    BY <1>1, <2>2 DEF Binders
  <2>4. \A s : Reached(s)' = Reached(s)
    BY <1>1, <2>2, <2>3 DEF Reached
  <2>5. \A s, q : Sees(s, q)' = Sees(s, q)
    BY <1>1, <2>2 DEF Sees
  <2>6. \A s : Answered(s)' = Answered(s)
    BY <1>1, <2>3, <2>4 DEF Answered
  <2> QED
    BY <2>3, <2>5, <2>6
<1>13. ASSUME NEW s \in reads', ~AmongMovedLets(s)' PROVE ~Moved(s)'
  BY <1>3, <1>13 DEF Moved, AmongMovedLets
<1>14. ASSUME NEW s \in reads', LetRead(s)', s.means[1] = "let",
              s.via = "scalar" => ~ (Cardinality(Binders(s)) > 1),
              s.via = "scalar" \/ ~Moved(s)'
       PROVE  Answered(s) = s.means
  <2>1. s.db = None /\ s.node \in DOMAIN nodes
    BY <1>10, <1>14 DEF LetRead
  <2>2. PICK p \in nodes[s.node].chain :
          /\ Sees(s, p) = {s.means[2]} /\ nodes[s.means[2]].key = NoCall
          /\ s.via = "scalar" \/ \A q \in nodes[s.node].chain : q > p => Sees(s, q) = {}
    BY <1>1, <1>12, <1>14 DEF LetRead
  <2>3. p \in Binders(s) /\ p \in Nat
    BY <2>1, <2>2, ChainIn DEF Binders, Sees
  <2>4. ASSUME NEW q \in Binders(s), q > p PROVE FALSE
    <3>1. q \in nodes[s.node].chain /\ Sees(s, q) # {}
      BY DEF Binders, Sees
    <3>2. s.via = "scalar"
      BY <2>2, <2>4, <3>1
    <3>3. q = p
      BY <1>14, <2>1, <2>3, <3>2, OneBinder
    <3> QED
      BY <2>3, <2>4, <3>3
  <2>5. PICK b : b = s.means[2]
    OBVIOUS
  <2>6. Answered(s) = <<"let", b>>
    BY <2>1, <2>2, <2>4, <2>5, AnsweredByLet
  <2>7. s.means = <<"let", s.means[2]>>
    BY <1>10, <1>14, RefFields, MeansIs
  <2> QED
    BY <2>5, <2>6, <2>7
<1>15. Faithful'
  <2> SUFFICES ASSUME NEW s \in reads', s.via # "scalar", ~HomeInsideOther(s)', ~AmongMovedLets(s)'
               PROVE  Answered(s) = s.means
    BY <1>12 DEF Faithful
  <2>1. ~Moved(s)'
    BY <1>13
  <2>2. s.means \in MeansType /\ s.node \in DOMAIN nodes
    BY <1>10, RefFields
  <2>3. CASE s.means[1] = "let"
    BY <1>10, <1>14, <2>1, <2>3
  <2>4. CASE s.means[1] = "function"
    <3>1. FunctionRead(s)'
      BY <1>10, <2>4
    <3>2. /\ s.db = None /\ s.name \in DOMAIN nodes /\ nodes[s.name].key = <<s.means[2], s.means[3]>>
          /\ nodes[s.name].key # NoCall
          /\ \E p \in nodes[s.node].chain : s.name \in Sees(s, p)
      BY <1>1, <1>12, <3>1 DEF FunctionRead
    <3>3. Answered(s) = <<"function", nodes[s.name].key[1], nodes[s.name].key[2]>>
      BY <2>2, <3>2, AnsweredByCall
    <3>4. s.means = <<"function", s.means[2], s.means[3]>>
      BY <2>2, <2>4, MeansIs
    <3> QED
      BY <3>2, <3>3, <3>4
  <2>5. CASE s.means[1] = "table"
    <3>1. s.name = s.means[3] /\ s.db = s.means[2] /\ s.db # None
      BY <1>10, <2>1, <2>5
    <3>2. s.means = <<"table", s.means[2], s.means[3]>>
      BY <2>2, <2>5, MeansIs
    <3> QED
      BY <3>1, <3>2 DEF Answered
  <2> QED
    BY <1>10, <2>3, <2>4, <2>5
<1>16. LetsAreNotRecaptured'
  <2> SUFFICES ASSUME phase' = "rendered", NEW s \in reads', s.via = "scalar", s.means[1] = "let"
               PROVE  Answered(s) = s.means
    BY <1>12 DEF LetsAreNotRecaptured
  <2>1. LetRead(s)'
    BY <1>10
  <2>2. s.db = None
    BY <2>1 DEF LetRead
  <2>3. ~ (Cardinality(Binders(s)) > 1)
    BY <1>2, <2>2 DEF Ambiguous
  <2> QED
    BY <1>14, <2>1, <2>3
<1>17. Valued'
  BY <1>1, SameValue
<1>18. Qualifying'
  BY <1>1 DEF Qualifying
<1> QED
  BY <1>7, <1>8, <1>11, <1>15, <1>16, <1>17, <1>18

-----------------------------------------------------------------------------
(* A macro-expand.                                                         *)

\* What is appended comes after.
LEMMA ThreeMore ==
    ASSUME NEW S, NEW N \in Seq(S), NEW a \in S, NEW b \in S, NEW d \in S, NEW A, A = N \o <<a, b, d>>
    PROVE  /\ A \in Seq(S) /\ Len(A) = Len(N) + 3 /\ DOMAIN A = 1 .. Len(N) + 3
           /\ \A i \in 1 .. Len(N) : A[i] = N[i]
           /\ A[Len(N) + 1] = a /\ A[Len(N) + 2] = b /\ A[Len(N) + 3] = d
<1>1. PICK B : B = <<a, b, d>>
  OBVIOUS
<1>2. B \in Seq(S) /\ Len(B) = 3 /\ B[1] = a /\ B[2] = b /\ B[3] = d
  BY <1>1
<1>3. A = N \o B
  BY <1>1
<1> QED
  BY <1>2, <1>3

\* Three queries at once are three queries one after the other.
LEMMA OneByOne ==
    ASSUME NEW S, NEW N \in Seq(S), NEW a \in S, NEW b \in S, NEW d \in S
    PROVE  N \o <<a, b, d>> = Append(Append(Append(N, a), b), d)
<1>0. PICK A : A = N \o <<a, b, d>>
  OBVIOUS
<1>3. /\ A \in Seq(S) /\ Len(A) = Len(N) + 3 /\ DOMAIN A = 1 .. Len(N) + 3
      /\ \A i \in 1 .. Len(N) : A[i] = N[i]
      /\ A[Len(N) + 1] = a /\ A[Len(N) + 2] = b /\ A[Len(N) + 3] = d
  BY <1>0, ThreeMore
<1>4. PICK C : C = Append(Append(Append(N, a), b), d)
  OBVIOUS
<1>5. /\ C \in Seq(S) /\ Len(C) = Len(N) + 3
      /\ \A i \in 1 .. Len(N) : C[i] = N[i]
      /\ C[Len(N) + 1] = a /\ C[Len(N) + 2] = b /\ C[Len(N) + 3] = d
  <2>1. PICK C1 : C1 = Append(N, a)
    OBVIOUS
  <2>2. PICK C2 : C2 = Append(C1, b)
    OBVIOUS
  <2>3. C1 \in Seq(S) /\ Len(C1) = Len(N) + 1 /\ C1[Len(N) + 1] = a /\ \A i \in 1 .. Len(N) : C1[i] = N[i]
    BY <2>1
  <2>4. /\ C2 \in Seq(S) /\ Len(C2) = Len(N) + 2 /\ C2[Len(N) + 2] = b /\ C2[Len(N) + 1] = a
        /\ \A i \in 1 .. Len(N) : C2[i] = N[i]
    BY <2>2, <2>3
  <2>5. C = Append(C2, d)
    BY <1>4, <2>1, <2>2
  <2> QED
    BY <2>4, <2>5
<1>6. A = C
  <2>1. \A i \in 1 .. Len(N) + 3 : i \in 1 .. Len(N) \/ i = Len(N) + 1 \/ i = Len(N) + 2 \/ i = Len(N) + 3
    OBVIOUS
  <2>2. \A i \in 1 .. Len(N) + 3 : A[i] = C[i]
    BY <1>3, <1>5, <2>1
  <2>3. DOMAIN C = 1 .. Len(N) + 3 /\ DOMAIN A = 1 .. Len(N) + 3
    BY <1>3, <1>5
  <2>4. A = [i \in 1 .. Len(N) + 3 |-> A[i]] /\ C = [i \in 1 .. Len(N) + 3 |-> C[i]]
    BY <1>3, <1>5, <2>3
  <2> QED
    BY <2>2, <2>4
<1> QED
  BY <1>0, <1>4, <1>6

\* Two queries of a query, and one of the second of them.
LEMMA ThreeQueries ==
    ASSUME NEW N \in Seq(NodeType), TreeOf(N), NEW q \in DOMAIN N, NEW t \in Names,
           NEW a \in NodeType, NEW b \in NodeType, NEW d \in NodeType,
           a.name = t, a.key = NoCall, a.chain = {Len(N) + 1} \cup N[q].chain,
           b.name = None, b.key = NoCall, b.chain = {Len(N) + 2} \cup N[q].chain,
           d.name = t, d.key = NoCall, d.chain = {Len(N) + 3, Len(N) + 2} \cup N[q].chain
    PROVE  N \o <<a, b, d>> \in Seq(NodeType) /\ TreeOf(N \o <<a, b, d>>)
<1>1. PICK x : x = Len(N) + 1
  OBVIOUS
<1>2. x \in Nat /\ Len(N) + 2 = x + 1 /\ Len(N) + 3 = x + 2
  BY <1>1
<1>3. PICK A1 : A1 = Append(N, a)
  OBVIOUS
<1>4. PICK A2 : A2 = Append(A1, b)
  OBVIOUS
<1>5. N \o <<a, b, d>> = Append(A2, d)
  <2>1. N \o <<a, b, d>> = Append(Append(Append(N, a), b), d)
    BY OneByOne
  <2> QED
    BY <1>3, <1>4, <2>1
<1>6. a.name \in Names \cup {None, Len(N) + 1} /\ (a.key # NoCall => a.name = Len(N) + 1)
  OBVIOUS
<1>7. /\ A1 \in Seq(NodeType) /\ TreeOf(A1) /\ Len(A1) = x
      /\ q \in DOMAIN A1 /\ A1[q] = N[q]
  <2>1. A1 \in Seq(NodeType) /\ TreeOf(A1)
    BY <1>3, <1>6, TreeAppended
  <2>2. Len(A1) = x /\ q \in DOMAIN A1 /\ A1[q] = N[q]
    BY <1>1, <1>3
  <2> QED
    BY <2>1, <2>2
<1>8. b.chain = {Len(A1) + 1} \cup A1[q].chain
  BY <1>2, <1>7
<1>9. b.name \in Names \cup {None, Len(A1) + 1} /\ (b.key # NoCall => b.name = Len(A1) + 1)
  OBVIOUS
<1>10. /\ A2 \in Seq(NodeType) /\ TreeOf(A2) /\ Len(A2) = x + 1
       /\ x + 1 \in DOMAIN A2 /\ A2[x + 1] = b
  <2>1. A2 \in Seq(NodeType) /\ TreeOf(A2) /\ Len(A2) = Len(A1) + 1 /\ A2[Len(A1) + 1] = b
        /\ DOMAIN A2 = 1 .. Len(A1) + 1
    <3>1. A1 \in Seq(NodeType) /\ TreeOf(A1) /\ q \in DOMAIN A1
      BY <1>7
    <3>2. A2 \in Seq(NodeType) /\ TreeOf(A2)
      BY <3>1, <1>4, <1>8, <1>9, TreeAppended
    <3>3. Len(A2) = Len(A1) + 1 /\ A2[Len(A1) + 1] = b /\ DOMAIN A2 = 1 .. Len(A1) + 1
      BY <3>1, <1>4
    <3> QED
      BY <3>2, <3>3
  <2> QED
    BY <1>2, <1>7, <2>1
<1>12. PICK y : y = x + 1
  OBVIOUS
<1>13. y \in DOMAIN A2 /\ d.chain = {Len(A2) + 1} \cup A2[y].chain
  BY <1>2, <1>10, <1>12
<1>14. d.name \in Names \cup {None, Len(A2) + 1} /\ (d.key # NoCall => d.name = Len(A2) + 1)
  OBVIOUS
<1>15. Append(A2, d) \in Seq(NodeType) /\ TreeOf(Append(A2, d))
  BY <1>10, <1>13, <1>14, TreeAppended
<1> QED
  BY <1>5, <1>15

\* The first let sees none.
LEMMA GivenFirst ==
    ASSUME NEW S, NEW L \in Seq(S), NEW x \in S, NEW n, NEW N
    PROVE  Given(N, <<x>> \o L, x, n) = {}
<1>1. PICK K : K = <<x>> \o L
  OBVIOUS
<1>2. K \in Seq(S) /\ K[1] = x /\ DOMAIN K = 1 .. Len(K) /\ 1 \in DOMAIN K /\ Len(K) \in Nat
  BY <1>1
<1>3. 1 \in Places(K, x) /\ Places(K, x) \in SUBSET Nat
  BY <1>2 DEF Places
<1>4. Min(Places(K, x)) \in Places(K, x) /\ \A i \in Places(K, x) : Min(Places(K, x)) <= i
  BY <1>3, MinIs
<1>5. PICK m : m = Min(Places(K, x))
  OBVIOUS
<1>6. m \in Nat /\ m <= 1
  BY <1>3, <1>4, <1>5
<1>7. \A i \in DOMAIN K : ~ (i < m)
  BY <1>2, <1>6
<1>8. Earlier(K, x) = {}
  BY <1>3, <1>5, <1>7 DEF Earlier
<1> QED
  BY <1>1, <1>8 DEF Given

\* A bare name that calls no function is a let's, or a table's.
LEMMA BareMeans ==
    ASSUME Types, Tree, Placement, Stacked, Scoped, NEW n \in Names, ~CallsFunction(n, None)
    PROVE  Means(n)[1] = "let" \/ Means(n)[1] = "table"
<1>1. CASE LetOf(n) # None
  BY <1>1 DEF Means
<1>2. CASE LetOf(n) = None
  <2>1. \A k \in DOMAIN stack : n \notin DOMAIN stack[k].declared
    BY <1>2, LetOfIs
  <2>2. n \notin visible
    BY <2>1, TypesOfParts DEF Scoped, InScope
  <2>3. KustoDatabase = context
    BY TypesOfParts DEF KustoDatabase, Stacked, ContextOf
  <2>4. <<KustoDatabase, n>> \notin Functions
    BY <2>2, <2>3 DEF CallsFunction, Where
  <2> QED
    BY <1>2, <2>4 DEF Means, Entity
<1> QED
  BY <1>1, <1>2

\* A read that is placed in new queries of the query being lowered.
LEMMA PlacedInside ==
    ASSUME Types, Tree, Placement, Stacked, Pending, Working, NodesKept, NEW s, NEW D,
           s.node \in DOMAIN nodes', s.node \in D, nodes'[s.node].chain = D \cup nodes[Entry.node].chain,
           \A d \in D : d \in Nat /\ d > Entry.node /\ nodes'[d].key = NoCall /\ Sees(s, d)' = {},
           \A q \in DOMAIN nodes : q # Entry.node => lets'[q] = lets[q],
           NEW q0, q0 = Entry.node, Sees(s, q0)' = Named(Len(stack), s.name),
           stack' = stack, Working'
    PROVE  Surrounded(s) /\ (WillAwait(s) => Awaits(s)')
<1>l. PICK l : l = Len(stack)
  OBVIOUS
<1>1. /\ DOMAIN stack = 1 .. l /\ l \in Nat /\ l \in DOMAIN stack /\ Entry = stack[l] /\ stack[l].node = q0
      /\ q0 \in DOMAIN nodes /\ nodes[q0].chain = {stack[k].node : k \in 1 .. l} /\ Entry.node = q0
  BY <1>l, TypesOfParts, Bodies
<1>2. \A k \in DOMAIN stack : stack[k].node \in Nat /\ stack[k].node \in DOMAIN nodes
  BY Bodies
<1>3. \A k \in DOMAIN stack : stack[k].node \in nodes'[s.node].chain
  BY <1>1
<1>4. \A q \in nodes'[s.node].chain : q \in D \/ \E k \in DOMAIN stack : q = stack[k].node
  BY <1>1
<1>5. \A q \in nodes'[s.node].chain : q \in Nat /\ ((\E k \in DOMAIN stack : q = stack[k].node) \/ q > Entry.node)
  BY <1>2, <1>4
<1>6. ASSUME NEW k \in DOMAIN stack, NEW q, q = stack[k].node PROVE Sees(s, q)' = Named(k, s.name) /\ ~ (q > q0)
  <2>1. CASE k = l
    <3>1. q = q0 /\ q \in Nat /\ l = Len(stack)
      BY <1>1, <1>2, <1>6, <1>l, <2>1
    <3>2. Sees(s, q0)' = Named(l, s.name)
      BY <1>l
    <3> QED
      BY <2>1, <3>1, <3>2
  <2>2. CASE k # l
    <3>1. k < Len(stack) /\ k < l
      BY <1>1, <1>l, <2>2
    <3>2. q < q0
      BY <1>1, <1>6, <3>1, Bodies
    <3>3. q \in Nat /\ q0 \in Nat /\ q \in DOMAIN nodes /\ q # q0
      BY <1>1, <1>2, <1>6, <3>2
    <3>4. lets'[q] = lets[q]
      BY <1>1, <3>3
    <3>5. q # s.node
      <4>1. s.node \in Nat /\ s.node > q0
        BY <1>1
      <4> QED
        BY <3>2, <3>3, <4>1
    <3>6. Sees(s, q)' = Named(k, s.name)
      BY <1>3, <1>5, <1>6, <3>1, <3>4, <3>5, BelowSees
    <3> QED
      BY <3>2, <3>3, <3>6
  <2> QED
    BY <2>1, <2>2
<1>7. Surrounded(s)
  <2>1. ASSUME NEW q \in nodes'[s.node].chain
        PROVE  \/ \E k \in DOMAIN stack : q = stack[k].node /\ Sees(s, q)' = Named(k, s.name)
               \/ q > Entry.node /\ Sees(s, q)' = {} /\ nodes'[q].key = NoCall
    <3>1. CASE q \in D
      BY <3>1
    <3>2. CASE \E k \in DOMAIN stack : q = stack[k].node
      BY <1>6, <3>2
    <3> QED
      BY <1>4, <3>1, <3>2
  <2> QED
    BY <1>3, <2>1 DEF Surrounded
<1>8. ASSUME WillAwait(s) PROVE Awaits(s)'
  <2>1. l > 1 /\ stack[l].key[1] = s.means[2] /\ s.name \notin stack[l].visible
    BY <1>1, <1>l, <1>8 DEF WillAwait
  <2>2. nodes'[q0] = nodes[q0] /\ nodes[q0].key = stack[l].key /\ stack[l].key \in Functions
    BY <1>1, <2>1 DEF NodesKept, Stacked
  <2>3. q0 \in nodes'[s.node].chain /\ nodes'[q0].key # NoCall /\ nodes'[q0].key[1] = s.means[2]
    BY <1>1, <1>3, <2>1, <2>2, KeyFields
  <2>4. ASSUME NEW c \in nodes'[s.node].chain, c > q0 PROVE nodes'[c].key = NoCall
    BY <1>1, <1>4, <1>6, <2>4
  <2>5. \E i \in DOMAIN stack' : i > 1 /\ stack'[i].node = q0 /\ s.name \notin stack'[i].visible
    BY <1>1, <2>1
  <2> QED
    BY <2>3, <2>4, <2>5 DEF Awaits
<1> QED
  BY <1>7, <1>8

\* The lists of lets after a macro-expand.
LEMMA MacroLets ==
    ASSUME NEW K \in Seq(Seq(Nat)), NEW q \in DOMAIN K, NEW x \in Nat, x = Len(K) + 1,
           NEW J \in Seq(Nat), NEW b \in Seq(Nat), NEW M
    PROVE  M = [K EXCEPT ![q] = J] \o << <<>>, b, <<>> >> =>
           /\ M \in Seq(Seq(Nat)) /\ Len(M) = x + 2
           /\ M[q] = J /\ \A p \in DOMAIN K : p # q => M[p] = K[p]
           /\ M[x] = <<>> /\ M[x + 1] = b /\ M[x + 2] = <<>>
<1>0. HAVE M = [K EXCEPT ![q] = J] \o << <<>>, b, <<>> >>
<1>1. DOMAIN K = 1 .. Len(K) /\ Len(K) \in Nat
  OBVIOUS
<1>2. PICK A : A = [K EXCEPT ![q] = J]
  OBVIOUS
<1>3. A \in Seq(Seq(Nat)) /\ Len(A) = Len(K) /\ A[q] = J /\ \A p \in DOMAIN K : p # q => A[p] = K[p]
  BY <1>1, <1>2
<1>4. PICK a : a = <<>>
  OBVIOUS
<1>5. PICK S : S = Seq(Nat)
  OBVIOUS
<1>6. a \in S /\ b \in S /\ A \in Seq(S)
  BY <1>3, <1>4, <1>5
<1>7. M = A \o <<a, b, a>>
  BY <1>0, <1>2, <1>4
<1>8. /\ M \in Seq(S) /\ Len(M) = Len(A) + 3
      /\ \A i \in 1 .. Len(A) : M[i] = A[i]
      /\ M[Len(A) + 1] = a /\ M[Len(A) + 2] = b /\ M[Len(A) + 3] = a
  BY <1>6, <1>7, ThreeMore
<1>9. Len(A) + 1 = x /\ Len(A) + 2 = x + 1 /\ Len(A) + 3 = x + 2
  BY <1>1, <1>3
<1> QED
  BY <1>1, <1>3, <1>4, <1>5, <1>8, <1>9

\* A let that is put first, and its macro-expand, change what no read is
\* answered from but those among the lets that it is put before.
LEMMA MacroExpandStep ==
    ASSUME IInv, NEW t \in Names, NEW n \in Names, MacroExpand(t, n)
    PROVE  IInv'
<1> USE DEF IInv
<1>x. PICK x : x = Len(nodes) + 1
  OBVIOUS
<1>l. PICK l : l = Len(stack)
  OBVIOUS
<1>q. PICK q0, L, P, m : q0 = Entry.node /\ L = lets[Entry.node] /\ P = Entry.pending /\ m = Means(n)
  OBVIOUS
<1>1. /\ DOMAIN nodes = 1 .. Len(nodes) /\ DOMAIN lets = DOMAIN nodes /\ Len(nodes) \in Nat
      /\ DOMAIN stack = 1 .. l /\ l \in Nat /\ l \in DOMAIN stack
      /\ Entry = stack[l] /\ Entry \in BodyType
      /\ q0 \in DOMAIN nodes /\ nodes[q0].chain \subseteq Nat
      /\ l = Len(stack) /\ x = Len(nodes) + 1 /\ stack[l].node = q0 /\ stack[l].pending = P
      /\ L \in Seq(Nat) /\ P \in Seq(Nat) /\ lets[q0] = L /\ Entry.node = q0 /\ Fresh = x
      /\ x \in Nat /\ x + 1 \in Nat /\ x + 2 \in Nat /\ Len(lets) + 1 = x
  BY TypesOfParts, Bodies, BodyFields, <1>x, <1>l, <1>q DEF Fresh, Types
<1>2. /\ phase = "lowering" /\ phase' = "lowering" /\ value = {}
      /\ \A i \in DOMAIN stack : t \notin DOMAIN stack[i].declared
      /\ t # n /\ ~CallsFunction(n, None)
      /\ UNCHANGED <<stack, visible, scalars, context>>
  BY DEF MacroExpand, Lowering
<1>3. Working /\ Working' /\ ~HeadsMacro
  BY <1>2 DEF Working, HeadsMacro
<1>4. m \in MeansType /\ m = Means(n) /\ (m[1] = "let" \/ m[1] = "table")
  BY <1>2, <1>q, MeansTyped, BareMeans
\* The queries.
<1>5. PICK a, b, d : /\ a = [name |-> t, key |-> NoCall, chain |-> {x} \cup nodes[q0].chain]
                     /\ b = [name |-> None, key |-> NoCall, chain |-> {x + 1} \cup nodes[q0].chain]
                     /\ d = [name |-> t, key |-> NoCall, chain |-> {x + 2, x + 1} \cup nodes[q0].chain]
  OBVIOUS
<1>6. /\ a \in NodeType /\ a.name = t /\ a.key = NoCall /\ a.chain = {x} \cup nodes[q0].chain
      /\ b \in NodeType /\ b.name = None /\ b.key = NoCall /\ b.chain = {x + 1} \cup nodes[q0].chain
      /\ d \in NodeType /\ d.name = t /\ d.key = NoCall /\ d.chain = {x + 2, x + 1} \cup nodes[q0].chain
  BY <1>1, <1>5 DEF NodeType
<1>7. nodes' = nodes \o <<a, b, d>>
  BY <1>1, <1>5 DEF MacroExpand
<1>8. /\ nodes' \in Seq(NodeType) /\ Len(nodes') = x + 2 /\ DOMAIN nodes' = 1 .. x + 2
      /\ nodes'[x] = a /\ nodes'[x + 1] = b /\ nodes'[x + 2] = d /\ NodesKept
  <2>1. nodes \in Seq(NodeType) /\ Len(nodes) + 1 = x /\ Len(nodes) + 2 = x + 1 /\ Len(nodes) + 3 = x + 2
    BY <1>1 DEF Types
  <2>2. /\ nodes' \in Seq(NodeType) /\ Len(nodes') = Len(nodes) + 3 /\ DOMAIN nodes' = 1 .. Len(nodes) + 3
        /\ \A i \in 1 .. Len(nodes) : nodes'[i] = nodes[i]
        /\ nodes'[Len(nodes) + 1] = a /\ nodes'[Len(nodes) + 2] = b /\ nodes'[Len(nodes) + 3] = d
    BY <1>6, <1>7, <2>1, ThreeMore
  <2>3. NodesKept
    BY <1>1, <2>2 DEF NodesKept
  <2> QED
    BY <2>1, <2>2, <2>3
<1>9. Tree'
  <2>1. nodes \in Seq(NodeType) /\ TreeOf(nodes)
    BY DEF Types, Tree, TreeOf
  <2>2. /\ a.chain = {Len(nodes) + 1} \cup nodes[q0].chain /\ b.chain = {Len(nodes) + 2} \cup nodes[q0].chain
        /\ d.chain = {Len(nodes) + 3, Len(nodes) + 2} \cup nodes[q0].chain
    BY <1>1, <1>6
  <2>3. TreeOf(nodes \o <<a, b, d>>)
    BY <1>1, <1>6, <2>1, <2>2, ThreeQueries
  <2> QED
    BY <1>7, <2>3 DEF Tree, TreeOf
<1>10. PICK K : K = <<x>> \o L
  OBVIOUS
<1>11. K \in Seq(Nat) /\ Range(K) = {x} \cup Range(L) /\ Len(K) = 1 + Len(L) /\ Len(L) \in Nat
  <2>1. PICK X : X = <<x>>
    OBVIOUS
  <2>2. X \in Seq(Nat) /\ Range(X) = {x} /\ Len(X) = 1
    BY <1>1, <2>1, RangeOne
  <2>3. Range(X \o L) = Range(X) \cup Range(L)
    BY <1>1, <2>2, Concat
  <2>5. X \o L \in Seq(Nat) /\ Len(X \o L) = Len(X) + Len(L)
    <3>1. ASSUME NEW U \in Seq(Nat), NEW V \in Seq(Nat) PROVE U \o V \in Seq(Nat) /\ Len(U \o V) = Len(U) + Len(V)
      OBVIOUS
    <3> QED
      BY <1>1, <2>2, <3>1, Zenon
  <2>4. Len(L) \in Nat
    BY <1>1
  <2> QED
    BY <1>10, <2>1, <2>2, <2>3, <2>4, <2>5
<1>12. /\ lets' \in Seq(Seq(Nat)) /\ Len(lets') = x + 2 /\ DOMAIN lets' = 1 .. x + 2
       /\ lets'[q0] = K /\ \A p \in DOMAIN nodes : p # q0 => lets'[p] = lets[p]
       /\ lets'[x] = <<>> /\ lets'[x + 1] = <<x + 2>> /\ lets'[x + 2] = <<>>
  <2>1. lets' = [lets EXCEPT ![q0] = <<x>> \o @] \o << <<>>, <<x + 2>>, <<>> >>
    BY <1>1 DEF MacroExpand
  <2>2. lets \in Seq(Seq(Nat)) /\ q0 \in DOMAIN lets /\ x = Len(lets) + 1 /\ L = lets[q0]
    BY <1>1 DEF Types
  <2>5. PICK M, F : M = lets' /\ F = lets
    OBVIOUS
  <2>6. PICK b1 : b1 = <<x + 2>>
    OBVIOUS
  <2>7. /\ F \in Seq(Seq(Nat)) /\ q0 \in DOMAIN F /\ x = Len(F) + 1 /\ b1 \in Seq(Nat)
        /\ M = [F EXCEPT ![q0] = K] \o << <<>>, b1, <<>> >>
    <3>1. F \in Seq(Seq(Nat)) /\ q0 \in DOMAIN F /\ x = Len(F) + 1 /\ F[q0] = L
      BY <2>2, <2>5
    <3>2. b1 \in Seq(Nat)
      BY <1>1, <2>6
    <3>3. [F EXCEPT ![q0] = <<x>> \o @] = [F EXCEPT ![q0] = K]
      BY <1>10, <3>1
    <3>4. M = [F EXCEPT ![q0] = <<x>> \o @] \o << <<>>, b1, <<>> >>
      BY <2>1, <2>5, <2>6
    <3> QED
      BY <3>1, <3>2, <3>3, <3>4
  <2>8. /\ M \in Seq(Seq(Nat)) /\ Len(M) = x + 2
        /\ M[q0] = K /\ \A p \in DOMAIN F : p # q0 => M[p] = F[p]
        /\ M[x] = <<>> /\ M[x + 1] = b1 /\ M[x + 2] = <<>>
    <3>1. q0 \in DOMAIN F /\ x \in Nat /\ K \in Seq(Nat)
      BY <1>1, <1>11, <2>7
    <3> QED
      BY <2>7, <3>1, MacroLets
  <2>3. /\ lets' \in Seq(Seq(Nat)) /\ Len(lets') = x + 2
        /\ lets'[q0] = K /\ \A p \in DOMAIN lets : p # q0 => lets'[p] = lets[p]
        /\ lets'[x] = <<>> /\ lets'[x + 1] = <<x + 2>> /\ lets'[x + 2] = <<>>
    BY <2>5, <2>6, <2>8
  <2>4. DOMAIN lets' = 1 .. x + 2
    BY <2>3
  <2> QED
    BY <1>1, <1>10, <2>3, <2>4
<1>13. PICK A, B, C \in RefType :
          /\ reads' = reads \cup {A, B, C}
          /\ A.node = x /\ A.name = n /\ A.db = None /\ A.via = "spliced" /\ A.reached /\ A.means = m
          /\ B.node = x + 2 /\ B.name = n /\ B.db = None /\ B.via = "direct" /\ B.reached /\ B.means = m
          /\ C.node = x + 1 /\ C.name = t /\ C.db = None /\ C.via = "direct" /\ C.reached
          /\ C.means = <<"let", x + 2>>
  <2>1. reads' = reads \cup At(x, {Ref(n, None, "spliced", m)})
                       \cup At(x + 2, {Ref(n, None, "direct", m)})
                       \cup At(x + 1, {Ref(t, None, "direct", <<"let", x + 2>>)})
    BY <1>1, <1>4 DEF MacroExpand
  <2>2. PICK y, z : y = x + 1 /\ z = x + 2
    OBVIOUS
  <2>3. y \in Nat /\ z \in Nat /\ x \in Nat /\ m \in MeansType
    BY <1>1, <1>4, <2>2
  <2>4. PICK k, r1, r2, r3 : /\ k = <<"let", z>> /\ r1 = Ref(n, None, "spliced", m)
                             /\ r2 = Ref(n, None, "direct", m) /\ r3 = Ref(t, None, "direct", k)
    OBVIOUS
  <2>5. PICK A, B, C : /\ A = [r1 EXCEPT !.node = x] /\ B = [r2 EXCEPT !.node = z]
                       /\ C = [r3 EXCEPT !.node = y]
    OBVIOUS
  <2>6. k \in MeansType /\ "spliced" \in Ways /\ "direct" \in Ways
    BY <2>3, <2>4 DEF MeansType, Ways
  <2>7. /\ At(x, {r1}) = {A} /\ A \in RefType
        /\ A.node = x /\ A.name = n /\ A.db = None /\ A.via = "spliced" /\ A.reached = TRUE /\ A.means = m
    <3>1. r1 \in RefType
      BY <2>3, <2>4, <2>6 DEF Ref, RefType
    <3>2. r1.name = n /\ r1.db = None /\ r1.via = "spliced" /\ r1.reached = TRUE /\ r1.means = m
      BY <2>4 DEF Ref
    <3>3. At(x, {r1}) = {A}
      BY <2>5 DEF At
    <3>4. A \in RefType
      BY <2>3, <2>5, <3>1, PlacedTyped
    <3>5. A.node = x /\ A.name = r1.name /\ A.db = r1.db /\ A.via = r1.via
          /\ A.reached = r1.reached /\ A.means = r1.means
      BY <2>5, <3>1 DEF RefType
    <3> QED
      BY <3>2, <3>3, <3>4, <3>5
  <2>8. /\ At(z, {r2}) = {B} /\ B \in RefType
        /\ B.node = z /\ B.name = n /\ B.db = None /\ B.via = "direct" /\ B.reached = TRUE /\ B.means = m
    <3>1. r2 \in RefType
      BY <2>3, <2>4, <2>6 DEF Ref, RefType
    <3>2. r2.name = n /\ r2.db = None /\ r2.via = "direct" /\ r2.reached = TRUE /\ r2.means = m
      BY <2>4 DEF Ref
    <3>3. At(z, {r2}) = {B}
      BY <2>5 DEF At
    <3>4. B \in RefType
      BY <2>3, <2>5, <3>1, PlacedTyped
    <3>5. B.node = z /\ B.name = r2.name /\ B.db = r2.db /\ B.via = r2.via
          /\ B.reached = r2.reached /\ B.means = r2.means
      BY <2>5, <3>1 DEF RefType
    <3> QED
      BY <3>2, <3>3, <3>4, <3>5
  <2>9. /\ At(y, {r3}) = {C} /\ C \in RefType
        /\ C.node = y /\ C.name = t /\ C.db = None /\ C.via = "direct" /\ C.reached = TRUE /\ C.means = k
    <3>1. r3 \in RefType
      BY <2>3, <2>4, <2>6 DEF Ref, RefType
    <3>2. r3.name = t /\ r3.db = None /\ r3.via = "direct" /\ r3.reached = TRUE /\ r3.means = k
      BY <2>4 DEF Ref
    <3>3. At(y, {r3}) = {C}
      BY <2>5 DEF At
    <3>4. C \in RefType
      BY <2>3, <2>5, <3>1, PlacedTyped
    <3>5. C.node = y /\ C.name = r3.name /\ C.db = r3.db /\ C.via = r3.via
          /\ C.reached = r3.reached /\ C.means = r3.means
      BY <2>5, <3>1 DEF RefType
    <3> QED
      BY <3>2, <3>3, <3>4, <3>5
  <2>10. reads' = reads \cup {A} \cup {B} \cup {C}
    BY <2>1, <2>2, <2>4, <2>7, <2>8, <2>9
  <2>11. reads' = reads \cup {A, B, C}
    BY <2>10
  <2> QED
    BY <2>2, <2>4, <2>7, <2>8, <2>9, <2>11
<1>14. PICK v : v = [node |-> None, name |-> t, db |-> None, via |-> "macro", reached |-> TRUE,
                    means |-> <<"let", x>>]
  OBVIOUS
<1>15. /\ v \in RefType /\ v.name = t /\ v.db = None /\ v.via = "macro" /\ v.reached /\ v.means = <<"let", x>>
       /\ value' = {v} /\ value' # {} /\ HeadsMacro'
  <2>1. <<"let", x>> \in MeansType /\ "macro" \in Ways
    BY <1>1 DEF MeansType, Ways
  <2>2. v \in RefType /\ v.name = t /\ v.db = None /\ v.via = "macro" /\ v.reached /\ v.means = <<"let", x>>
    BY <1>14, <2>1 DEF RefType
  <2>3. value' = {v}
    BY <1>1, <1>14 DEF MacroExpand, Ref
  <2>4. value' # {}
    BY <2>2, <2>3, ScopesAssumption
  <2> QED
    BY <2>2, <2>3, <2>4 DEF HeadsMacro
<1>16. Types'
  <2>1. reads' \in SUBSET RefType /\ \A r \in reads' : r.node \in DOMAIN nodes'
    BY <1>1, <1>8, <1>13 DEF Types, NodesKept
  <2>2. value' \in SUBSET RefType
    BY <1>15
  <2>3. /\ stack' \in Seq(BodyType) /\ Len(stack') >= 1 /\ visible' \in SUBSET Names
        /\ scalars' \in [Scalars -> SUBSET RefType] /\ context' \in Databases
    BY <1>2 DEF Types
  <2> QED
    BY <1>2, <1>8, <1>12, <2>1, <2>2, <2>3 DEF Types
<1>17. \A c \in DOMAIN nodes, q \in DOMAIN nodes : IsChild(nodes', c, q) <=> IsChild(nodes, c, q)
  BY <1>8, ChildrenKept
<1>18. IsChild(nodes', x, q0) /\ IsChild(nodes', x + 2, x + 1)
  <2>1. nodes'[q0] = nodes[q0] /\ q0 \in Nat /\ q0 < x
    BY <1>1, <1>8 DEF NodesKept
  <2>2. x \in DOMAIN nodes' /\ x + 1 \in DOMAIN nodes' /\ x + 2 \in DOMAIN nodes' /\ q0 \in DOMAIN nodes'
    BY <1>1, <1>8, <2>1
  <2>3. nodes'[x].chain = nodes'[q0].chain \cup {x}
    BY <1>6, <1>8, <2>1
  <2>4. nodes'[x + 2].chain = nodes'[x + 1].chain \cup {x + 2}
    BY <1>6, <1>8
  <2>5. x + 1 < x + 2
    BY <1>1
  <2> QED
    BY <2>1, <2>2, <2>3, <2>4, <2>5 DEF IsChild
<1>19. \A q \in DOMAIN nodes : Range(lets'[q]) = Range(lets[q]) \cup (IF q = q0 THEN {x} ELSE {})
  BY <1>1, <1>11, <1>12
<1>20. /\ Range(lets'[x]) = {} /\ Range(lets'[x + 2]) = {} /\ Range(lets'[x + 1]) = {x + 2}
       /\ \A q \in DOMAIN lets' : q \in DOMAIN nodes \/ q = x \/ q = x + 1 \/ q = x + 2
  <2>1. \A q \in 1 .. x + 2 : q \in 1 .. Len(nodes) \/ q = x \/ q = x + 1 \/ q = x + 2
    <3>1. PICK N : N = Len(nodes)
      OBVIOUS
    <3>2. N \in Nat /\ x = N + 1
      BY <1>1, <3>1
    <3>3. \A q \in 1 .. x + 2 : q \in 1 .. N \/ q = x \/ q = x + 1 \/ q = x + 2
      BY <3>2
    <3> QED
      BY <3>1, <3>3
  <2>2. Range(<<x + 2>>) = {x + 2}
    BY RangeOne
  <2> QED
    BY <1>1, <1>12, <2>1, <2>2, RangeNone
<1>21. Placement'
  <2> SUFFICES ASSUME NEW q \in DOMAIN lets', NEW c \in Range(lets'[q])
               PROVE  IsChild(nodes', c, q) /\ nodes'[c].name # None
    BY DEF Placement
  <2>1. CASE q \in DOMAIN nodes /\ c \in Range(lets[q])
    <3>1. c \in DOMAIN nodes /\ IsChild(nodes, c, q) /\ nodes[c].name # None
      BY <1>1, <2>1 DEF Placement, IsChild
    <3> QED
      BY <1>8, <1>17, <2>1, <3>1 DEF NodesKept
  <2>2. CASE q = q0 /\ c = x
    BY <1>6, <1>8, <1>18, <2>2, NamesAreNot
  <2>3. CASE q = x + 1 /\ c = x + 2
    BY <1>6, <1>8, <1>18, <2>3, NamesAreNot
  <2>4. CASE q \in DOMAIN nodes
    BY <1>19, <2>1, <2>2, <2>4
  <2> QED
    BY <1>20, <2>3, <2>4
<1>22. Stacked'
  <2>1. \A i \in DOMAIN stack :
              /\ stack'[i].node = stack[i].node /\ stack'[i].key = stack[i].key /\ stack'[i].via = stack[i].via
              /\ stack'[i].means = stack[i].means /\ stack'[i].context = stack[i].context
    BY <1>2
  <2> QED
    BY <1>2, <1>8, <2>1, SameBodies
<1>23. \A c \in DOMAIN nodes : Unplaced(lets, c) => Unplaced(lets', c)
  <2> SUFFICES ASSUME NEW c \in DOMAIN nodes, Unplaced(lets, c), NEW q \in DOMAIN lets'
               PROVE  c \notin Range(lets'[q])
    BY DEF Unplaced
  <2>1. c # x /\ c # x + 2
    BY <1>1
  <2>2. CASE q \in DOMAIN nodes
    BY <1>1, <1>19, <2>1, <2>2 DEF Unplaced
  <2> QED
    BY <1>20, <2>1, <2>2
<1>24. Pending'
  <2>1. ASSUME NEW i \in DOMAIN stack PROVE Unplaced(lets', stack[i].node)
    BY <1>3, <1>23, Bodies DEF Pending
  <2>2. ASSUME NEW i \in DOMAIN stack, NEW c \in Range(stack[i].pending)
        PROVE  /\ IsChild(nodes', c, stack[i].node) /\ nodes'[c].key # NoCall
               /\ Unplaced(lets', c)
               /\ \A j \in DOMAIN stack : c # stack[j].node
    <3>1. /\ c \in DOMAIN nodes /\ IsChild(nodes, c, stack[i].node) /\ nodes[c].key # NoCall /\ Unplaced(lets, c)
          /\ \A j \in DOMAIN stack : c # stack[j].node
      BY <1>3, <2>2 DEF Pending, IsChild
    <3>2. stack[i].node \in DOMAIN nodes
      BY Bodies
    <3> QED
      BY <1>8, <1>17, <1>23, <3>1, <3>2 DEF NodesKept
  <2> QED
    BY <1>2, <2>1, <2>2 DEF Pending
\* No let of the bodies around has the name.
<1>25. \A i \in DOMAIN stack : \A c \in Range(lets[stack[i].node]) : c \in DOMAIN nodes /\ nodes[c].name # t
  <2> TAKE i \in DOMAIN stack
  <2> TAKE c \in Range(lets[stack[i].node])
  <2>1. stack[i].node \in DOMAIN lets
    BY <1>1, Bodies
  <2>2. c \in DOMAIN nodes
    BY <2>1 DEF Placement, IsChild
  <2>3. nodes[c].name \in Names => nodes[c].name \in DOMAIN stack[i].declared
    BY <1>3 DEF Scoped
  <2> QED
    BY <1>2, <2>2, <2>3
<1>26. Scoped'
  <2>1. /\ visible' = {a1 \in Names : InScope(stack', a1, Len(stack'))}
        /\ \A i \in DOMAIN stack' : i > 1 => stack'[i].visible = {a1 \in Names : InScope(stack', a1, i - 1)}
    BY <1>2 DEF Scoped, InScope
  <2>2. ASSUME NEW i \in DOMAIN stack, NEW a1 \in DOMAIN stack[i].declared \cap Names
        PROVE  /\ stack[i].declared[a1] \in Range(lets'[stack[i].node])
               /\ nodes'[stack[i].declared[a1]].name = a1
    <3>1. /\ stack[i].declared[a1] \in Range(lets[stack[i].node])
          /\ nodes[stack[i].declared[a1]].name = a1
      BY <2>2 DEF Scoped
    <3>2. stack[i].declared[a1] \in DOMAIN nodes
      BY <1>25, <3>1
    <3>3. stack[i].node \in DOMAIN nodes
      BY Bodies
    <3> QED
      BY <1>8, <1>19, <3>1, <3>2, <3>3 DEF NodesKept
  <2>3. ASSUME NEW i \in DOMAIN stack, NEW c \in Range(lets'[stack[i].node]), nodes'[c].name \in Names
        PROVE  \/ nodes'[c].name \in DOMAIN stack[i].declared /\ stack[i].declared[nodes'[c].name] = c
               \/ i = Len(stack) /\ HeadsMacro'
    <3>1. stack[i].node \in DOMAIN nodes
      BY Bodies
    <3>2. CASE c \in Range(lets[stack[i].node])
      <4>1. nodes'[c] = nodes[c]
        BY <1>8, <1>25, <3>2 DEF NodesKept
      <4>2. nodes[c].name \in DOMAIN stack[i].declared /\ stack[i].declared[nodes[c].name] = c
        BY <1>3, <2>3, <3>2, <4>1 DEF Scoped
      <4> QED
        BY <4>1, <4>2
    <3>3. CASE stack[i].node = q0
      <4>1. i = Len(stack)
        BY <1>1, <3>3, Bodies
      <4> QED
        BY <1>15, <4>1
    <3> QED
      BY <1>19, <2>3, <3>1, <3>2, <3>3
  <2> QED
    BY <1>2, <2>1, <2>2, <2>3 DEF Scoped
<1>27. Kept'
  <2> SUFFICES ASSUME NEW i \in DOMAIN stack, NEW c \in DOMAIN nodes', IsChild(nodes', c, stack[i].node)
               PROVE  \/ c \in Range(lets'[stack[i].node])
                      \/ c \in Range(stack[i].pending)
                      \/ i < Len(stack) /\ c = stack[i + 1].node
                      \/ i = Len(stack) /\ nodes'[c].name = None
    BY <1>2, <1>15 DEF Kept
  <2>1. stack[i].node \in DOMAIN nodes
    BY Bodies
  <2>2. CASE c \in DOMAIN nodes
    <3>1. IsChild(nodes, c, stack[i].node)
      BY <1>17, <2>1, <2>2
    <3>2. \/ c \in Range(lets[stack[i].node])
          \/ c \in Range(stack[i].pending)
          \/ i < Len(stack) /\ c = stack[i + 1].node
      BY <1>3, <2>2, <3>1 DEF Kept
    <3> QED
      BY <1>19, <2>1, <3>2
  <2>3. CASE c = x \/ c = x + 1
    <3>1. c \notin DOMAIN nodes /\ nodes'[c].chain = {c} \cup nodes[Entry.node].chain
      BY <1>1, <1>6, <1>8, <2>3
    <3>2. i = Len(stack)
      BY <1>8, <3>1, NewChild
    <3>3. CASE c = x
      <4>1. stack[i].node = q0
        BY <1>1, <3>2
      <4> QED
        BY <1>19, <2>1, <3>3, <4>1
    <3>4. CASE c = x + 1
      BY <1>6, <1>8, <3>2, <3>4
    <3> QED
      BY <2>3, <3>3, <3>4
  <2>4. CASE c = x + 2
    <3>1. nodes'[c].chain = nodes'[stack[i].node].chain \cup {c}
      BY DEF IsChild
    <3>2. x + 1 \in nodes'[c].chain /\ x + 1 # c
      BY <1>1, <1>6, <1>8, <2>4
    <3>3. nodes'[stack[i].node] = nodes[stack[i].node] /\ nodes[stack[i].node].chain \subseteq DOMAIN nodes
      BY <1>8, <2>1, ChainIn DEF NodesKept
    <3>4. x + 1 \notin DOMAIN nodes
      BY <1>1
    <3> QED
      BY <3>1, <3>2, <3>3, <3>4
  <2>5. c \in DOMAIN nodes \/ c = x \/ c = x + 1 \/ c = x + 2
    BY <1>8, <1>12, <1>20
  <2> QED
    BY <2>2, <2>3, <2>4, <2>5
<1>28. ScalarsHeld'
  BY <1>2 DEF ScalarsHeld, ScalarRead
<1>29. Valued'
  <2>1. {c \in Range(lets'[q0]) : nodes'[c].name = t} = {x}
    <3>1. \A c \in Range(lets[q0]) : nodes'[c].name # t
      BY <1>1, <1>8, <1>25 DEF NodesKept
    <3>2. nodes'[x].name = t
      BY <1>6, <1>8
    <3> QED
      BY <1>1, <1>19, <3>1, <3>2
  <2>2. Entry' = Entry /\ x \in DOMAIN nodes'
    BY <1>1, <1>2, <1>8 DEF Entry
  <2>3. MacroValue(v)'
    <3>1. Entry'.node = q0
      BY <1>1, <2>2
    <3> QED
      BY <1>15, <2>1, <2>2, <3>1 DEF MacroValue
  <2> QED
    BY <1>15, <2>3 DEF Valued
\* What was read before.
<1>30. A \in reads' /\ B \in reads' /\ C \in reads'
  BY <1>13
<1>31. ASSUME NEW r, r.node \in DOMAIN nodes', q0 \in nodes'[r.node].chain, L # <<>> \/ P # <<>>
       PROVE  Moved(r)'
  <2>1. A.via = "spliced" /\ A.node \in Range(lets'[q0]) /\ A \in reads'
    BY <1>1, <1>13, <1>19, <1>30
  <2>2. CASE L # <<>>
    <3>1. Len(lets'[q0]) > 1
      <4>1. Len(L) # 0
        BY <1>1, <2>2
      <4> QED
        BY <1>11, <1>12, <4>1
    <3> QED
      BY <1>31, <2>1, <3>1 DEF Moved
  <2>3. CASE P # <<>>
    <3>1. l \in DOMAIN stack' /\ stack'[l].node = q0 /\ stack'[l].pending # <<>>
      BY <1>1, <1>2, <2>3
    <3> QED
      BY <1>3, <1>31, <2>1, <3>1 DEF Moved
  <2> QED
    BY <1>31, <2>2, <2>3
<1>32. ASSUME NEW r \in reads PROVE Read(r)'
  <2>1. Read(r) /\ r.node \in DOMAIN nodes
    BY <1>2 DEF ReadsInv, Types
  <2>2. r.node # q0
    BY <1>1, <1>3, <2>1 DEF Read
  <2>3. nodes'[r.node] = nodes[r.node] /\ r.node \in DOMAIN nodes'
    BY <1>8, <2>1 DEF NodesKept
  <2>4. ASSUME NEW q \in nodes[r.node].chain
        PROVE  /\ Sees(r, q) \subseteq Sees(r, q)'
               /\ r.name \in Names /\ (Sees(r, q) # {} \/ ~Moved(r)') => Sees(r, q)' = Sees(r, q)
    <3>1. q \in DOMAIN nodes
      BY <2>1, ChainIn
    <3>2. CASE q # q0
      <4>1. lets'[q] = lets[q]
        BY <1>12, <3>1, <3>2
      <4>2. Sees(r, q)' = Sees(r, q)
        BY <1>8, <2>1, <3>1, <4>1, SeesSame
      <4> QED
        BY <4>2
    <3>3. CASE q = q0
      <4>1. PICK c : c = Step(r, q)
        OBVIOUS
      <4>2. Sees(r, q) = Given(nodes, lets[q], c, r.name) /\ IsChild(nodes, c, q) /\ c = Inner(r, q)
        BY <2>1, <2>2, <3>3, <4>1, SeesIs DEF Step
      <4>3. Sees(r, q)' = Given(nodes', lets'[q], c, r.name)
        BY <1>8, <2>1, <2>2, <3>3, <4>2, SeesInside
      <4>4. lets[q] = L /\ lets'[q] = <<x>> \o L
        BY <1>1, <1>10, <1>12, <3>3
      <4>5. c \in DOMAIN nodes /\ c # x
        BY <1>1, <4>2 DEF IsChild
      <4>6. \A z \in Range(L) : nodes'[z] = nodes[z] /\ nodes[z].name # t
        BY <1>1, <1>8, <1>25 DEF NodesKept
      <4>7. Given(nodes', <<x>> \o L, c, r.name) = Given(nodes, L, c, r.name) \cup {z \in {x} : nodes'[z].name = r.name}
        <5>1. PICK N, O, k : N = nodes /\ O = nodes' /\ k = r.name
          OBVIOUS
        <5>2. L \in Seq(Nat) /\ x \in Nat /\ c # x /\ \A z \in Range(L) : O[z] = N[z]
          BY <1>1, <4>5, <4>6, <5>1
        <5>3. Given(O, <<x>> \o L, c, k) = Given(N, L, c, k) \cup {z \in {x} : O[z].name = k}
          BY <5>2, GivenPrepended
        <5> QED
          BY <5>1, <5>3
      <4>8. nodes'[x].name = t
        BY <1>6, <1>8
      <4>9. Sees(r, q) \subseteq Sees(r, q)'
        BY <4>2, <4>3, <4>4, <4>7
      <4>10. CASE r.name # t
        <5>1. Sees(r, q)' = Sees(r, q)
          BY <4>2, <4>3, <4>4, <4>7, <4>8, <4>10
        <5> QED
          BY <5>1
      <4>11. CASE r.name = t
        <5>1. Sees(r, q) = {}
          BY <4>2, <4>4, <4>6, <4>11, GivenIn
        <5>2. L # <<>> \/ P # <<>>
          <6>1. c \in Range(stack[l].pending) \/ c \in Range(lets[stack[l].node])
            BY <1>1, <1>3, <3>3, <4>2, <4>5 DEF Kept
          <6> QED
            BY <1>1, <6>1, RangeNone
        <5>3. Moved(r)'
          BY <1>31, <2>3, <3>3, <5>2
        <5> QED
          BY <4>9, <5>1, <5>3
      <4> QED
        BY <4>10, <4>11
    <3> QED
      BY <3>2, <3>3
  <2>5. ASSUME Moved(r) PROVE Moved(r)'
    <3>1. PICK q \in nodes[r.node].chain, m1 \in reads :
              /\ m1.via = "spliced" /\ m1.node \in Range(lets[q])
              /\ \/ Len(lets[q]) > 1
                 \/ \E i \in DOMAIN stack : stack[i].node = q /\ stack[i].pending # <<>>
      BY <2>5 DEF Moved
    <3>2. q \in nodes'[r.node].chain /\ m1 \in reads' /\ q \in DOMAIN nodes
      BY <1>13, <2>1, <2>3, <3>1, ChainIn
    <3>3. m1.node \in Range(lets'[q])
      BY <1>19, <3>1, <3>2
    <3>4. Len(lets[q]) > 1 => Len(lets'[q]) > 1
      <4>1. q = q0 => Len(lets'[q]) = 1 + Len(lets[q]) /\ Len(lets[q]) \in Nat
        BY <1>1, <1>11, <1>12
      <4>2. q # q0 => lets'[q] = lets[q]
        BY <1>12, <3>2
      <4> QED
        BY <4>1, <4>2
    <3> QED
      BY <1>2, <1>3, <3>1, <3>2, <3>3, <3>4 DEF Moved
  <2>6. Awaits(r) => Awaits(r)'
    <3>1. \A q \in nodes[r.node].chain : nodes'[q] = nodes[q]
      BY <1>8, <2>1, ChainIn DEF NodesKept
    <3> QED
      BY <1>2, <1>3, <2>3, <3>1 DEF Awaits
  <2>7. \A i \in DOMAIN stack' : r.node # stack'[i].node
    BY <1>2, <1>3, <2>1 DEF Read
  <2> QED
    BY <1>8, <2>1, <2>4, <2>5, <2>6, <2>7, ReadStays
\* The first branch: a let before all others, of which it sees none.
<1>33. x \notin DOMAIN nodes /\ x + 1 \notin DOMAIN nodes /\ x + 2 \notin DOMAIN nodes
       /\ x > q0 /\ x + 1 > q0 /\ x + 2 > q0 /\ q0 \in Nat
  <2>1. PICK N : N = Len(nodes)
    OBVIOUS
  <2>2. N \in Nat /\ x = N + 1 /\ q0 \in 1 .. N /\ DOMAIN nodes = 1 .. N
    BY <1>1, <2>1
  <2> QED
    BY <2>2
<1>34. \A i \in DOMAIN stack' : stack'[i].node \in DOMAIN nodes
  BY <1>2, Bodies
<1>35. \A i \in DOMAIN stack' : A.node # stack'[i].node /\ B.node # stack'[i].node /\ C.node # stack'[i].node
  BY <1>13, <1>33, <1>34
<1>36. \A q \in DOMAIN nodes : q # Entry.node => lets'[q] = lets[q]
  BY <1>1, <1>12
<1>37. q0 \in nodes[q0].chain
  BY <1>1 DEF Tree
<1>38. Named(l, n) = {c \in Range(L) : nodes[c].name = n}
  <2>1. \A c \in Range(P) : nodes[c].name # n
    <3> TAKE c \in Range(P)
    <3>1. IsChild(nodes, c, stack[l].node) /\ nodes[c].key # NoCall
      BY <1>1, <1>3 DEF Pending
    <3> QED
      BY <3>1, CallHasNumber DEF IsChild
  <2> QED
    BY <1>1, <2>1 DEF Named
<1>39. Read(A)'
  <2>1. A.node \in DOMAIN nodes' /\ nodes'[A.node].chain = {x} \cup nodes[Entry.node].chain
        /\ q0 \in nodes'[A.node].chain
    BY <1>1, <1>6, <1>8, <1>13, <1>37
  <2>2. Sees(A, x)' = {}
    <3>1. Sees(A, x)' = {c \in Range(lets'[x]) : nodes'[c].name = A.name}
      BY <1>13, SeesNew
    <3> QED
      BY <1>20, <3>1
  <2>3. Sees(A, q0)' = {}
    <3>1. /\ x \in nodes'[A.node].chain /\ x > q0 /\ q0 # A.node
          /\ nodes'[A.node].chain \in SUBSET Nat
          /\ \A c \in nodes'[A.node].chain : c > q0 => c >= x
      <4>1. \A c \in nodes[q0].chain : c \in Nat /\ ~ (c > q0)
        BY <1>1, <1>33, ChainIn
      <4> QED
        BY <1>1, <1>13, <1>33, <2>1, <4>1
    <3>2. Sees(A, q0)' = Given(nodes', lets'[q0], x, A.name)
      BY <3>1, SeesNew
    <3>3. Given(nodes', <<x>> \o L, x, A.name) = {}
      BY <1>1, GivenFirst
    <3> QED
      BY <1>10, <1>12, <3>2, <3>3
  <2>4. CASE Named(l, n) = {}
    <3>1. Sees(A, q0)' = Named(Len(stack), A.name)
      BY <1>1, <1>13, <2>3, <2>4
    <3>2. PICK D : D = {x}
      OBVIOUS
    <3>3. A.node \in D /\ nodes'[A.node].chain = D \cup nodes[Entry.node].chain
          /\ \A c \in D : c \in Nat /\ c > Entry.node /\ nodes'[c].key = NoCall /\ Sees(A, c)' = {}
      BY <1>1, <1>6, <1>8, <1>13, <1>33, <2>1, <2>2, <3>2
    <3>4. Surrounded(A) /\ (WillAwait(A) => Awaits(A)')
      BY <1>1, <1>2, <1>3, <1>8, <1>36, <2>1, <3>1, <3>3, PlacedInside
    <3>5. A.name \in Names /\ A.db = None /\ A.means = Means(A.name) /\ ~CallsFunction(A.name, None)
      BY <1>2, <1>4, <1>13
    <3>6. /\ A.means[1] = "let" => LetRead(A)'
          /\ A.means[1] = "table" => TableRead(A)'
      BY <1>3, <1>8, <3>4, <3>5, NewBare
    <3> QED
      BY <1>4, <1>13, <1>35, <3>6 DEF Read
  <2>5. CASE Named(l, n) # {}
    <3>1. L # <<>>
      BY <1>38, <2>5, RangeNone
    <3>2. Moved(A)'
      BY <1>31, <2>1, <3>1
    <3> QED
      BY <1>4, <1>13, <1>35, <3>2 DEF Read, TableRead
  <2> QED
    BY <2>4, <2>5
\* The second branch: a let of a query of its own.
<1>40. Read(B)'
  <2>1. B.node \in DOMAIN nodes' /\ nodes'[B.node].chain = {x + 2, x + 1} \cup nodes[Entry.node].chain
    BY <1>1, <1>6, <1>8, <1>13
  <2>2. Sees(B, x + 2)' = {}
    <3>1. Sees(B, x + 2)' = {c \in Range(lets'[x + 2]) : nodes'[c].name = B.name}
      BY <1>13, SeesNew
    <3> QED
      BY <1>20, <3>1
  <2>0. \A c \in nodes[q0].chain : c \in Nat /\ ~ (c > q0) /\ ~ (c > x + 1)
    <3>1. \A c \in nodes[q0].chain : c \in Nat /\ c <= q0
      BY <1>1, ChainIn
    <3> QED
      BY <1>1, <1>33, <3>1
  <2>3. Sees(B, x + 1)' = {}
    <3>0. PICK y, z : y = x + 1 /\ z = x + 2
      OBVIOUS
    <3>1. /\ z \in nodes'[B.node].chain /\ z > y /\ y # B.node
          /\ nodes'[B.node].chain \in SUBSET Nat
          /\ \A c \in nodes'[B.node].chain : c > y => c >= z
      BY <1>1, <1>13, <2>0, <2>1, <3>0
    <3>2. Sees(B, y)' = Given(nodes', lets'[y], z, B.name)
      BY <3>1, SeesNew
    <3>3. Given(nodes', lets'[y], z, B.name) \subseteq {c \in Range(lets'[y]) : nodes'[c].name = B.name}
      BY GivenIn
    <3>4. Range(lets'[y]) = {z} /\ nodes'[z].name = t
      BY <1>6, <1>8, <1>20, <3>0
    <3> QED
      BY <1>2, <1>13, <3>0, <3>2, <3>3, <3>4
  <2>4. Sees(B, q0)' = Named(Len(stack), B.name)
    <3>0. PICK y : y = x + 1
      OBVIOUS
    <3>1. /\ y \in nodes'[B.node].chain /\ y > q0 /\ q0 # B.node
          /\ nodes'[B.node].chain \in SUBSET Nat
          /\ \A c \in nodes'[B.node].chain : c > q0 => c >= y
      BY <1>1, <1>13, <1>33, <2>0, <2>1, <3>0
    <3>2. Sees(B, q0)' = Given(nodes', lets'[q0], y, B.name)
      BY <3>1, SeesNew
    <3>3. y \notin Range(lets'[q0])
      <4>1. Range(lets'[q0]) \subseteq {x} \cup DOMAIN nodes
        BY <1>1, <1>19, <1>25
      <4> QED
        BY <1>1, <1>33, <3>0, <4>1
    <3>4. Given(nodes', lets'[q0], y, B.name) = {c \in Range(lets'[q0]) : nodes'[c].name = B.name}
      BY <3>3, GivenIn
    <3>5. nodes'[x].name # B.name /\ \A c \in Range(L) : nodes'[c] = nodes[c]
      BY <1>1, <1>2, <1>6, <1>8, <1>13, <1>25 DEF NodesKept
    <3> QED
      BY <1>1, <1>13, <1>19, <1>38, <3>2, <3>4, <3>5
  <2>5. PICK D : D = {x + 2, x + 1}
    OBVIOUS
  <2>6. B.node \in D /\ nodes'[B.node].chain = D \cup nodes[Entry.node].chain
        /\ \A c \in D : c \in Nat /\ c > Entry.node /\ nodes'[c].key = NoCall /\ Sees(B, c)' = {}
    BY <1>1, <1>6, <1>8, <1>13, <1>33, <2>1, <2>2, <2>3, <2>5
  <2>7. Surrounded(B) /\ (WillAwait(B) => Awaits(B)')
    BY <1>1, <1>2, <1>3, <1>8, <1>36, <2>1, <2>4, <2>6, PlacedInside
  <2>8. B.name \in Names /\ B.db = None /\ B.means = Means(B.name) /\ ~CallsFunction(B.name, None)
    BY <1>2, <1>4, <1>13
  <2>9. /\ B.means[1] = "let" => LetRead(B)'
        /\ B.means[1] = "table" => TableRead(B)'
    BY <1>3, <1>8, <2>7, <2>8, NewBare
  <2> QED
    BY <1>4, <1>13, <1>35, <2>9 DEF Read
<1>41. Read(C)'
  <2>1. C.node \in DOMAIN nodes' /\ nodes'[C.node].chain = {x + 1} \cup nodes[q0].chain
    BY <1>1, <1>6, <1>8, <1>13
  <2>2. Sees(C, x + 1)' = {x + 2}
    <3>1. Sees(C, x + 1)' = {c \in Range(lets'[x + 1]) : nodes'[c].name = C.name}
      BY <1>13, SeesNew
    <3>2. nodes'[x + 2].name = C.name
      BY <1>6, <1>8, <1>13
    <3> QED
      BY <1>20, <3>1, <3>2
  <2>3. \A c \in nodes'[C.node].chain : ~ (c > x + 1)
    <3>1. \A c \in nodes[q0].chain : c \in Nat /\ c <= q0
      BY <1>1, ChainIn
    <3> QED
      BY <1>1, <1>33, <2>1, <3>1
  <2>4. PICK y : y = x + 1
    OBVIOUS
  <2>5. y \in nodes'[C.node].chain /\ Sees(C, y)' = {C.means[2]} /\ nodes'[C.means[2]].key = NoCall
        /\ \A q \in nodes'[C.node].chain : q > y => Sees(C, q)' = {}
    BY <1>6, <1>8, <1>13, <2>1, <2>2, <2>3, <2>4
  <2>6. LetRead(C)'
    BY <1>13, <2>5 DEF LetRead
  <2> QED
    BY <1>13, <1>35, <2>6 DEF Read
<1>42. ReadsInv'
  BY <1>13, <1>32, <1>39, <1>40, <1>41 DEF ReadsInv
<1>43. Qualifying' /\ Faithful' /\ LetsAreNotRecaptured'
  BY <1>2 DEF Qualifying, Faithful, LetsAreNotRecaptured
<1> QED
  BY <1>9, <1>16, <1>21, <1>22, <1>24, <1>26, <1>27, <1>28, <1>29, <1>42, <1>43

-----------------------------------------------------------------------------
(* A name, and a scalar.                                                   *)

\* A name that calls a function is expanded, or the statement is refused;
\* any other is a reference.
LEMMA LowerNameStep ==
    ASSUME IInv, Lowering, value = {}, NEW n \in Names, NEW d \in Databases \cup {None},
           NEW m \in MeansType, LowerName(n, d, "direct", m),
           CallsFunction(n, d) => m = <<"function", Where(d), n>>,
           ~CallsFunction(n, d) => BareValue(Ref(n, d, "direct", m))' \/ QualifiedValue(Ref(n, d, "direct", m))'
    PROVE  IInv'
<1>1. CASE CallsFunction(n, d)
  <2>1. PICK key : key = <<Where(d), n>>
    OBVIOUS
  <2>2. key \in Functions /\ Expand(key, "direct", m)
    BY <1>1, <2>1 DEF CallsFunction, LowerName
  <2>3. m = <<"function", key[1], key[2]>>
    BY <1>1, <2>1
  <2>4. CASE Expanding(key)
    <3>1. phase' = "refused" /\ UNCHANGED <<nodes, lets, reads, stack, visible, scalars, context, value>>
      BY <2>2, <2>4 DEF Expand
    <3> QED
      BY <3>1, Refused
  <2>5. CASE ~Expanding(key)
    <3>1. PICK via : via = "direct"
      OBVIOUS
    <3>2. /\ nodes' = Append(nodes, [name |-> Fresh, key |-> key,
                                     chain |-> {Fresh} \cup nodes[Entry.node].chain])
          /\ lets' = Append(lets, <<>>) /\ stack' = Append(stack, Body(key, via, m)) /\ context' = key[1]
          /\ UNCHANGED <<reads, visible, scalars, value, phase>>
      BY <2>2, <2>5, <3>1 DEF Expand
    <3> QED
      BY <2>2, <2>3, <2>5, <3>1, <3>2, ExpandStep
  <2> QED
    BY <2>4, <2>5
<1>2. CASE ~CallsFunction(n, d)
  <2>1. PICK r : r = Ref(n, d, "direct", m)
    OBVIOUS
  <2>2. /\ value' = {r}
        /\ UNCHANGED <<nodes, lets, reads, stack, visible, scalars, context, phase>>
    BY <1>2, <2>1 DEF LowerName
  <2>3. r \in RefType /\ r.reached
    BY <2>1 DEF Ref, RefType, Ways
  <2>4. BareValue(r)' \/ QualifiedValue(r)'
    BY <1>2, <2>1
  <2>5. Valued'
    BY <2>2, <2>3, <2>4 DEF Valued
  <2>6. value' \in SUBSET RefType
    BY <2>2, <2>3
  <2> QED
    BY <2>2, <2>5, <2>6, Lowered
<1> QED
  BY <1>1, <1>2

\* A name is lowered as a table, or as the call of what it means.
LEMMA ReadBareStep ==
    ASSUME IInv, NEW n \in Names, ReadBare(n)
    PROVE  IInv'
<1> USE DEF IInv
<1>1. PICK m : m = Means(n)
  OBVIOUS
<1>2. Lowering /\ value = {} /\ LowerName(n, None, "direct", m)
  BY <1>1 DEF ReadBare
<1>3. m \in MeansType
  BY <1>1, MeansTyped
<1>4. ASSUME CallsFunction(n, None) PROVE m = <<"function", Where(None), n>>
  <2>1. n \notin visible /\ <<context, n>> \in Functions /\ Where(None) = context
    BY <1>4 DEF CallsFunction, Where
  <2>2. \A k \in DOMAIN stack : n \notin DOMAIN stack[k].declared
    BY <2>1, TypesOfParts DEF Scoped, InScope
  <2>3. LetOf(n) = None
    BY <2>2, LetOfIs
  <2>4. KustoDatabase = context
    BY TypesOfParts DEF KustoDatabase, Stacked, ContextOf
  <2> QED
    BY <1>1, <2>1, <2>3, <2>4 DEF Means, Entity
<1>5. ASSUME ~CallsFunction(n, None) PROVE BareValue(Ref(n, None, "direct", m))'
  <2>1. UNCHANGED <<nodes, lets, reads, stack, visible, scalars, context, phase>>
    BY <1>2, <1>5 DEF LowerName
  <2>2. PICK r : r = Ref(n, None, "direct", m)
    OBVIOUS
  <2>3. r.via = "direct" /\ r.name = n /\ r.db = None /\ r.means = m
    BY <2>2 DEF Ref
  <2>4. BareValue(r)
    BY <1>1, <1>5, <2>3 DEF BareValue
  <2>5. BareValue(r)' = BareValue(r)
    BY <2>1 DEF BareValue, Means, LetOf, CallsFunction, KustoDatabase, Entry, Where, Entity
  <2>6. BareValue(r)'
    BY <2>4, <2>5
  <2> QED
    BY <1>1, <2>2, <2>6
<1> QED
  BY <1>2, <1>3, <1>4, <1>5, LowerNameStep

\* A qualified name is its database's table, or the call of its function.
LEMMA ReadQualifiedStep ==
    ASSUME IInv, NEW n \in Names, NEW d \in Databases, ReadQualified(n, d)
    PROVE  IInv'
<1>1. PICK m : m = Entity(d, n)
  OBVIOUS
<1>2. Lowering /\ value = {} /\ LowerName(n, d, "direct", m)
  BY <1>1 DEF ReadQualified
<1>3. m \in MeansType
  BY <1>1, EntityTyped
<1>4. d # None /\ Where(d) = d
  BY ScopesAssumption DEF Where
<1>5. ASSUME CallsFunction(n, d) PROVE m = <<"function", Where(d), n>>
  BY <1>1, <1>4, <1>5 DEF CallsFunction, Entity
<1>6. ASSUME ~CallsFunction(n, d) PROVE QualifiedValue(Ref(n, d, "direct", m))'
  <2>1. m = <<"table", d, n>>
    BY <1>1, <1>4, <1>6 DEF CallsFunction, Entity
  <2> QED
    BY <2>1 DEF QualifiedValue, Ref
<1> QED
  BY <1>2, <1>3, <1>5, <1>6, LowerNameStep

\* A scalar let is used: what its value read is still in scope.
LEMMA UseScalarStep ==
    ASSUME IInv, NEW x \in Scalars, NEW reached \in BOOLEAN, UseScalar(x, reached)
    PROVE  IInv'
<1> USE DEF IInv
<1>1. /\ Lowering /\ value = {}
      /\ value' = {[r EXCEPT !.reached = reached] : r \in scalars[x]}
      /\ UNCHANGED <<nodes, lets, reads, stack, visible, scalars, context, phase>>
  BY DEF UseScalar
<1>2. ASSUME NEW r \in scalars[x], NEW s, s = [r EXCEPT !.reached = reached]
      PROVE  s \in RefType /\ ScalarRead(stack, s, Len(stack))
  <2>1. r \in RefType /\ ScalarRead(stack, r, Len(stack))
    BY DEF Types, ScalarsHeld
  <2>2. s \in RefType /\ s.via = r.via /\ s.means = r.means /\ s.db = r.db /\ s.name = r.name
    BY <1>2, <2>1 DEF RefType
  <2> QED
    BY <2>1, <2>2 DEF ScalarRead
<1>3. \A s \in value' : s \in RefType /\ ScalarRead(stack', s, Len(stack'))
  BY <1>1, <1>2
<1>4. Valued'
  BY <1>3 DEF Valued
<1>5. value' \in SUBSET RefType
  BY <1>3
<1> QED
  BY <1>1, <1>4, <1>5, Lowered

-----------------------------------------------------------------------------
(* Every behavior.                                                         *)

\* A statement begins with one query, no binding and nothing read.
LEMMA InitStep ==
    ASSUME Init
    PROVE  IInv
<1>1. PICK e, b : /\ e = [name |-> None, key |-> NoCall, chain |-> {1}]
                  /\ b = [node |-> 1, key |-> NoCall, via |-> "direct", means |-> None,
                          pending |-> <<>>, declared |-> << >>,
                          visible |-> {}, scalars |-> scalars, context |-> Home]
  OBVIOUS
<1>2. /\ nodes = <<e>> /\ lets = << <<>> >> /\ reads = {} /\ visible = {}
      /\ scalars = [x \in Scalars |-> {}] /\ context = Home /\ stack = <<b>> /\ value = {}
      /\ phase = "lowering"
  BY <1>1 DEF Init
<1>3. /\ DOMAIN nodes = {1} /\ Len(nodes) = 1 /\ nodes[1] = e
      /\ DOMAIN lets = {1} /\ Len(lets) = 1 /\ lets[1] = <<>>
      /\ DOMAIN stack = {1} /\ Len(stack) = 1 /\ stack[1] = b
  BY <1>2
<1>4. e.name = None /\ e.key = NoCall /\ e.chain = {1} /\ e \in NodeType
  BY <1>1 DEF NodeType
<1>5. /\ b.node = 1 /\ b.key = NoCall /\ b.pending = <<>> /\ b.visible = {} /\ b.context = Home
      /\ b.scalars = scalars /\ DOMAIN b.declared = {}
  BY <1>1, EmptyDeclared
<1>6. scalars \in [Scalars -> SUBSET RefType] /\ \A x \in Scalars : scalars[x] = {}
  BY <1>2
<1>7. b \in BodyType
  <2>1. << >> \in DeclaredType /\ <<>> \in Seq(Nat) /\ "direct" \in Ways /\ Home \in Databases
    BY EmptyDeclared, ScopesAssumption DEF Ways
  <2> QED
    BY <1>1, <1>6, <2>1 DEF BodyType
<1>8. Types
  <2>1. nodes \in Seq(NodeType) /\ stack \in Seq(BodyType) /\ lets \in Seq(Seq(Nat))
    <3>1. <<>> \in Seq(Nat)
      OBVIOUS
    <3> QED
      BY <1>2, <1>4, <1>7, <3>1
  <2> QED
    BY <1>2, <1>3, <1>6, <2>1, ScopesAssumption DEF Types
<1>9. Tree
  BY <1>3, <1>4 DEF Tree
<1>10. Placement /\ Pending
  <2>1. Range(lets[1]) = {} /\ Range(stack[1].pending) = {}
    BY <1>3, <1>5, RangeNone
  <2> QED
    BY <1>3, <2>1 DEF Placement, Pending, Unplaced
<1>11. Stacked
  <2>1. {stack[k].node : k \in 1 .. 1} = {1}
    BY <1>3, <1>5
  <2>2. nodes[1].key = stack[1].key /\ nodes[1].chain = {1} /\ stack[1].node = 1 /\ stack[1].key = NoCall
    BY <1>3, <1>4, <1>5
  <2>3. context = ContextOf(stack, Len(stack))
    BY <1>2, <1>3, <2>2 DEF ContextOf
  <2>4. \A i \in DOMAIN stack : i = 1
    BY <1>3
  <2>5. \A i \in DOMAIN stack :
            /\ stack[i].node \in DOMAIN nodes
            /\ nodes[stack[i].node].key = stack[i].key
            /\ nodes[stack[i].node].chain = {stack[k].node : k \in 1 .. i}
            /\ ~(i > 1)
    <3>1. SUFFICES ASSUME NEW i \in DOMAIN stack
                   PROVE  /\ stack[i].node \in DOMAIN nodes
                          /\ nodes[stack[i].node].key = stack[i].key
                          /\ nodes[stack[i].node].chain = {stack[k].node : k \in 1 .. i}
                          /\ ~(i > 1)
      OBVIOUS
    <3>2. i = 1
      BY <2>4
    <3> QED
      BY <3>2, <1>3, <2>1, <2>2
  <2>6. \A i, j \in DOMAIN stack : ~(i < j) /\ i = j
    BY <2>4
  <2> QED
    BY <2>2, <2>3, <2>5, <2>6 DEF Stacked
<1>12. Scoped
  <2>1. \A n : ~InScope(stack, n, 1)
    BY <1>3, <1>5 DEF InScope
  <2>2. Range(lets[1]) = {}
    BY <1>3, RangeNone
  <2> QED
    BY <1>2, <1>3, <1>5, <2>1, <2>2 DEF Scoped
<1>13. Kept
  BY <1>3, <1>5 DEF Kept, IsChild
<1>14. ScalarsHeld
  BY <1>3, <1>5, <1>6 DEF ScalarsHeld
<1>15. Valued /\ ReadsInv /\ Qualifying /\ Faithful /\ LetsAreNotRecaptured
  BY <1>2 DEF Valued, ReadsInv, Qualifying, Faithful, LetsAreNotRecaptured
<1> QED
  BY <1>8, <1>9, <1>10, <1>11, <1>12, <1>13, <1>14, <1>15 DEF IInv

\* Nothing changes when no variable does.
LEMMA Stutters ==
    ASSUME IInv, UNCHANGED vars
    PROVE  IInv'
<1> USE DEF IInv, vars
<1>1. Types'
  BY DEF Types
<1>2. Tree' /\ Placement' /\ Stacked' /\ Pending' /\ Scoped' /\ Kept' /\ ScalarsHeld'
  BY SameScope DEF Working, HeadsMacro
<1>3. Valued'
  BY SameValue
<1>4. ReadsInv'
  <2>1. \A r, q : Sees(r, q)' = Sees(r, q)
    BY DEF Sees, Bound, Seen, Before, Inner
  <2>2. \A r : Moved(r)' = Moved(r) /\ Awaits(r)' = Awaits(r) /\ HomeInsideOther(r)' = HomeInsideOther(r)
    BY DEF Moved, Awaits, HomeInsideOther, Working, Entry
  <2>3. \A r : LetRead(r)' = LetRead(r)
    BY <2>1, <2>2 DEF LetRead
  <2>4. \A r : FunctionRead(r)' = FunctionRead(r)
    BY <2>1 DEF FunctionRead
  <2>5. \A r : TableRead(r)' = TableRead(r)
    BY <2>1, <2>2 DEF TableRead
  <2>6. \A r : Read(r) => Read(r)'
    BY <2>2, <2>3, <2>4, <2>5 DEF Read, Working
  <2> QED
    BY <2>6 DEF ReadsInv
<1>5. Qualifying'
  BY DEF Qualifying, Entry, HeadsMacro
<1>6. Faithful' /\ LetsAreNotRecaptured'
  <2>1. \A r : Answered(r)' = Answered(r)
    <3>1. \A r, q : Seen(r, q)' = Seen(r, q)
      BY DEF Seen, Before, Inner
    <3>2. \A r, q : Bound(r, q)' = Bound(r, q)
      BY <3>1 DEF Bound
    <3>3. \A r : Binders(r)' = Binders(r)
      BY <3>2 DEF Binders
    <3>4. \A r : Reached(r)' = Reached(r)
      BY <3>2, <3>3 DEF Reached
    <3> QED
      BY <3>3, <3>4 DEF Answered
  <2>2. \A r : HomeInsideOther(r)' = HomeInsideOther(r) /\ AmongMovedLets(r)' = AmongMovedLets(r)
    BY DEF HomeInsideOther, AmongMovedLets
  <2> QED
    BY <2>1, <2>2 DEF Faithful, LetsAreNotRecaptured
<1> QED
  BY <1>1, <1>2, <1>3, <1>4, <1>5, <1>6

\* Every step keeps the invariant.
LEMMA NextStep ==
    ASSUME IInv, [Next]_vars
    PROVE  IInv'
<1>1. ASSUME NEW n \in Names, ReadBare(n) PROVE IInv'
  BY <1>1, ReadBareStep
<1>2. ASSUME NEW n \in Names, LetTable(n) PROVE IInv'
  BY <1>2, LetTableStep
<1>3. ASSUME NEW n \in Names, NEW d \in Databases, ReadQualified(n, d) PROVE IInv'
  BY <1>3, ReadQualifiedStep
<1>4. ASSUME NEW x \in Scalars, LetScalar(x) PROVE IInv'
  BY <1>4, LetScalarStep
<1>5. ASSUME NEW x \in Scalars, NEW reached \in BOOLEAN, UseScalar(x, reached) PROVE IInv'
  BY <1>5, UseScalarStep
<1>6. ASSUME NEW t \in Names, NEW n \in Names, MacroExpand(t, n) PROVE IInv'
  BY <1>6, MacroExpandStep
<1>7. CASE Return
  BY <1>7, ReturnStep
<1>8. CASE QualifyBody
  BY <1>8, QualifyBodyStep
<1>9. CASE EndQuery
  BY <1>9, EndQueryStep
<1>10. CASE Translate
  BY <1>10, TranslateStep
<1>11. CASE UNCHANGED vars
  BY <1>11, Stutters
<1> QED
  BY <1>1, <1>2, <1>3, <1>4, <1>5, <1>6, <1>7, <1>8, <1>9, <1>10, <1>11 DEF Next

\* The inductive invariant holds in every state of every statement.
THEOREM Invariance == Spec => []IInv
<1>1. Init => IInv
  BY InitStep
<1>2. IInv /\ [Next]_vars => IInv'
  BY NextStep
<1> QED
  BY <1>1, <1>2, PTL DEF Spec

\* Whatever the functions registered and the statement written, once it is
\* rendered every name read where it is written is answered from what Kusto
\* means by it (lower.py:1204 and 1388, qualify, translate's _let_cte).
THEOREM FaithfulNames == Spec => []Faithful
<1>1. IInv => Faithful
  BY DEF IInv
<1> QED
  BY <1>1, Invariance, PTL

\* No let that a scalar let's toscalar reads is captured by another: a use
\* that would be is refused (translate/__init__.py:1143, _toscalar_scope).
THEOREM LetsStay == Spec => []LetsAreNotRecaptured
<1>1. IInv => LetsAreNotRecaptured
  BY DEF IInv
<1> QED
  BY <1>1, Invariance, PTL

-----------------------------------------------------------------------------
(* The types.                                                              *)

\* A reference names a table, a let or a query there is.
Known(r, N) == r.name \in Names \cup DOMAIN N
AllKnown(held, N) == \A x \in Scalars : \A r \in held[x] : Known(r, N)
Numbered ==
    /\ \A r \in reads \cup value : Known(r, nodes)
    /\ AllKnown(scalars, nodes)
    /\ \A i \in DOMAIN stack : AllKnown(stack[i].scalars, nodes)

\* Queries are only added.
LEMMA QueriesStay ==
    ASSUME Types, [Next]_vars
    PROVE  DOMAIN nodes \subseteq DOMAIN nodes'
<1>1. nodes \in Seq(NodeType) /\ DOMAIN nodes = 1 .. Len(nodes) /\ Len(nodes) \in Nat
  BY TypesOfParts DEF Types
<1>2. \A e : nodes' = Append(nodes, e) => DOMAIN nodes \subseteq DOMAIN nodes'
  <2> SUFFICES ASSUME NEW e, nodes' = Append(nodes, e) PROVE DOMAIN nodes \subseteq DOMAIN nodes'
    OBVIOUS
  <2>1. nodes \in Seq(NodeType \cup {e})
    BY <1>1
  <2>2. DOMAIN nodes' = 1 .. Len(nodes) + 1
    BY <2>1
  <2> QED
    BY <1>1, <2>2
<1>3. \A key, via, m : Expand(key, via, m) => DOMAIN nodes \subseteq DOMAIN nodes'
  BY <1>2 DEF Expand
<1>4. \A n, d, via, m : LowerName(n, d, via, m) => DOMAIN nodes \subseteq DOMAIN nodes'
  BY <1>3 DEF LowerName
<1>5. \A n : ReadBare(n) \/ LetTable(n) => DOMAIN nodes \subseteq DOMAIN nodes'
  BY <1>2, <1>4 DEF ReadBare, LetTable
<1>6. \A n, d : ReadQualified(n, d) => DOMAIN nodes \subseteq DOMAIN nodes'
  BY <1>4 DEF ReadQualified
<1>7. \A x, reached : LetScalar(x) \/ UseScalar(x, reached) => DOMAIN nodes \subseteq DOMAIN nodes'
  BY DEF LetScalar, UseScalar
<1>8. ASSUME NEW t, NEW n, MacroExpand(t, n) PROVE DOMAIN nodes \subseteq DOMAIN nodes'
  <2>1. PICK a, b, c : nodes' = nodes \o <<a, b, c>>
    BY <1>8 DEF MacroExpand
  <2>2. DOMAIN nodes' = 1 .. Len(nodes) + 3
    BY <1>1, <2>1
  <2> QED
    BY <1>1, <2>2
<1>9. Return \/ QualifyBody \/ EndQuery \/ Translate => DOMAIN nodes \subseteq DOMAIN nodes'
  BY DEF Return, QualifyBody, EndQuery, Translate
<1>10. UNCHANGED vars => DOMAIN nodes \subseteq DOMAIN nodes'
  BY DEF vars
<1> QED
  BY <1>5, <1>6, <1>7, <1>8, <1>9, <1>10 DEF Next

\* A body whose lets or pending calls change keeps what it restores.
LEMMA SameHeld ==
    ASSUME Types, NEW e, e.scalars = Entry.scalars, stack' = [stack EXCEPT ![Len(stack)] = e]
    PROVE  \A i \in DOMAIN stack' : i \in DOMAIN stack /\ stack'[i].scalars = stack[i].scalars
  BY TypesOfParts

\* What is known of the references a step starts from, when queries were added.
LEMMA StillKnown ==
    ASSUME Numbered, DOMAIN nodes \subseteq DOMAIN nodes'
    PROVE  /\ \A r \in reads \cup value : Known(r, nodes')
           /\ AllKnown(scalars, nodes')
           /\ \A i \in DOMAIN stack : AllKnown(stack[i].scalars, nodes')
           /\ \A r : r.name \in Names => Known(r, nodes')
  BY DEF Numbered, Known, AllKnown

\* A name that is lowered is a reference of that name, or a call whose body begins.
LEMMA NumberedName ==
    ASSUME IInv, Numbered, DOMAIN nodes \subseteq DOMAIN nodes', NEW n \in Names, NEW d, NEW via, NEW m,
           LowerName(n, d, via, m)
    PROVE  Numbered'
<1>1. CASE ~CallsFunction(n, d)
  <2>1. value' = {Ref(n, d, via, m)} /\ UNCHANGED <<nodes, reads, stack, scalars>>
    BY <1>1 DEF LowerName
  <2>2. Ref(n, d, via, m).name = n
    BY DEF Ref
  <2> QED
    BY <2>1, <2>2, StillKnown DEF Numbered, AllKnown, Known
<1>2. CASE CallsFunction(n, d)
  <2>1. PICK key : Expand(key, via, m)
    BY <1>2 DEF LowerName
  <2>2. UNCHANGED <<reads, scalars, value>>
    BY <2>1 DEF Expand
  <2>3. CASE Expanding(key)
    <3>1. UNCHANGED <<nodes, stack>>
      BY <2>1, <2>3 DEF Expand
    <3> QED
      BY <2>2, <3>1 DEF Numbered
  <2>4. CASE ~Expanding(key)
    <3>1. PICK b : b = Body(key, via, m)
      OBVIOUS
    <3>2. stack' = Append(stack, b) /\ b.scalars = scalars
      BY <2>1, <2>4, <3>1 DEF Expand, Body
    <3>3. \A i \in DOMAIN stack' : stack'[i].scalars = scalars \/ (i \in DOMAIN stack /\ stack'[i] = stack[i])
      <4>1. stack \in Seq(BodyType)
        BY DEF IInv, Types
      <4> QED
        BY <3>2, <4>1
    <3>4. \A i \in DOMAIN stack' : AllKnown(stack'[i].scalars, nodes')
      BY <3>3, StillKnown
    <3>5. AllKnown(scalars', nodes') /\ \A r \in reads' \cup value' : Known(r, nodes')
      BY <2>2, StillKnown
    <3> QED
      BY <3>4, <3>5 DEF Numbered
  <2> QED
    BY <2>3, <2>4
<1> QED
  BY <1>1, <1>2

\* Every step keeps references to queries that are there.
LEMMA NumberedStep ==
    ASSUME IInv, Numbered, [Next]_vars
    PROVE  Numbered'
<1> USE DEF IInv
<1>0. DOMAIN nodes \subseteq DOMAIN nodes'
  BY QueriesStay
<1>k. /\ \A r \in reads \cup value : Known(r, nodes')
      /\ AllKnown(scalars, nodes')
      /\ \A i \in DOMAIN stack : AllKnown(stack[i].scalars, nodes')
      /\ \A r : r.name \in Names => Known(r, nodes')
  BY <1>0, StillKnown
<1>t. ASSUME NEW q, NEW r \in At(q, value) PROVE Known(r, nodes')
  <2>1. PICK s \in value : r = [s EXCEPT !.node = q]
    BY <1>t DEF At
  <2>2. s \in RefType
    BY <2>1 DEF Types
  <2>3. r.name = s.name
    BY <2>1, <2>2 DEF RefType
  <2> QED
    BY <1>k, <2>1, <2>3 DEF Known
<1>q. ASSUME NEW q, NEW d, NEW bound, NEW r \in reads PROVE Known(Qualified(r, q, d, bound), nodes')
  <2>1. r \in RefType /\ Known(r, nodes')
    BY <1>k DEF Types
  <2>2. [r EXCEPT !.db = d].name = r.name
    BY <2>1 DEF RefType
  <2> QED
    BY <2>1, <2>2 DEF Qualified, Known
<1>1. ASSUME NEW n \in Names, ReadBare(n) PROVE Numbered'
  <2>1. PICK m : LowerName(n, None, "direct", m)
    BY <1>1 DEF ReadBare
  <2> QED
    BY <1>0, <2>1, NumberedName
<1>2. ASSUME NEW n \in Names, LetTable(n) PROVE Numbered'
  <2>1. PICK b : b = [Entry EXCEPT !.pending = <<>>, !.declared = Declaring(@, n, Fresh)]
    OBVIOUS
  <2>2. /\ stack' = [stack EXCEPT ![Len(stack)] = b] /\ reads' = reads \cup At(Fresh, value)
        /\ value' = {} /\ scalars' = scalars
    BY <1>2, <2>1 DEF LetTable
  <2>3. b.scalars = Entry.scalars
    BY <2>1, TypesOfParts DEF BodyType
  <2>4. \A i \in DOMAIN stack' : AllKnown(stack'[i].scalars, nodes')
    BY <1>k, <2>2, <2>3, SameHeld
  <2>5. \A r \in reads' \cup value' : Known(r, nodes')
    BY <1>k, <1>t, <2>2
  <2>6. AllKnown(scalars', nodes')
    BY <1>k, <2>2
  <2> QED
    BY <2>4, <2>5, <2>6 DEF Numbered
<1>3. ASSUME NEW n \in Names, NEW d \in Databases, ReadQualified(n, d) PROVE Numbered'
  <2>1. PICK m : LowerName(n, d, "direct", m)
    BY <1>3 DEF ReadQualified
  <2> QED
    BY <1>0, <2>1, NumberedName
<1>4. ASSUME NEW x \in Scalars, LetScalar(x) PROVE Numbered'
  <2>1. PICK b : b = [Entry EXCEPT !.declared = Declaring(@, x, None)]
    OBVIOUS
  <2>2. /\ stack' = [stack EXCEPT ![Len(stack)] = b] /\ value' = {}
        /\ scalars' = [scalars EXCEPT ![x] = {[r EXCEPT !.via = "scalar"] : r \in value}]
        /\ reads' = reads
    BY <1>4, <2>1 DEF LetScalar
  <2>3. b.scalars = Entry.scalars
    BY <2>1, TypesOfParts DEF BodyType
  <2>4. \A i \in DOMAIN stack' : AllKnown(stack'[i].scalars, nodes')
    BY <1>k, <2>2, <2>3, SameHeld
  <2>5. \A r \in reads' \cup value' : Known(r, nodes')
    BY <1>k, <2>2
  <2>6. ASSUME NEW y \in Scalars, NEW r \in scalars'[y] PROVE Known(r, nodes')
    <3>1. CASE y # x
      BY <1>k, <2>2, <2>6, <3>1 DEF Types, AllKnown
    <3>2. CASE y = x
      <4>1. PICK s \in value : r = [s EXCEPT !.via = "scalar"]
        BY <2>2, <2>6, <3>2 DEF Types
      <4>2. s \in RefType
        BY <4>1 DEF Types
      <4>3. r.name = s.name
        BY <4>1, <4>2 DEF RefType
      <4> QED
        BY <1>k, <4>1, <4>3 DEF Known
    <3> QED
      BY <3>1, <3>2
  <2> QED
    BY <2>4, <2>5, <2>6 DEF Numbered, AllKnown
<1>5. ASSUME NEW x \in Scalars, NEW reached \in BOOLEAN, UseScalar(x, reached) PROVE Numbered'
  <2>1. /\ value' = {[r EXCEPT !.reached = reached] : r \in scalars[x]}
        /\ UNCHANGED <<reads, stack, scalars>>
    BY <1>5 DEF UseScalar
  <2>2. ASSUME NEW r \in value' PROVE Known(r, nodes')
    <3>1. PICK s \in scalars[x] : r = [s EXCEPT !.reached = reached]
      BY <2>1, <2>2
    <3>2. s \in RefType /\ Known(s, nodes')
      BY <1>k, <3>1 DEF Types, AllKnown
    <3>3. r.name = s.name
      BY <3>1, <3>2 DEF RefType
    <3> QED
      BY <3>2, <3>3 DEF Known
  <2> QED
    BY <1>k, <2>1, <2>2 DEF Numbered
<1>6. ASSUME NEW t \in Names, NEW n \in Names, MacroExpand(t, n) PROVE Numbered'
  <2>1. UNCHANGED <<stack, scalars>>
    BY <1>6 DEF MacroExpand
  <2>2. ASSUME NEW r \in reads' \cup value' PROVE Known(r, nodes')
    <3>1. PICK q, a, b, c, m, u, v, w :
              /\ reads' = reads \cup At(a, {Ref(n, None, "spliced", m)}) \cup At(b, {Ref(n, None, "direct", m)})
                                \cup At(c, {Ref(t, None, "direct", u)})
              /\ value' = {Ref(t, None, "macro", v)}
      BY <1>6 DEF MacroExpand
    <3>2. ASSUME NEW p \in Names, NEW via, NEW mm, NEW s, s = Ref(p, None, via, mm)
          PROVE  s.name \in Names /\ \A k : \A x \in At(k, {s}) : x.name \in Names
      BY <3>2 DEF Ref, At
    <3>3. r \in reads \/ r.name \in Names
      BY <2>2, <3>1, <3>2
    <3> QED
      BY <1>k, <3>3
  <2> QED
    BY <1>k, <2>1, <2>2 DEF Numbered
<1>7. CASE Return
  <2>1. PICK b : b = [stack[Len(stack) - 1] EXCEPT !.pending = Append(@, Entry.node)]
    OBVIOUS
  <2>2. /\ stack' = [Front(stack) EXCEPT ![Len(stack) - 1] = b] /\ Len(stack) > 1
        /\ scalars' = Entry.scalars /\ reads' = reads \cup At(Entry.node, value)
        /\ value' = {Ref(Entry.node, None, Entry.via, Entry.means)} /\ nodes' = nodes
    BY <1>7, <2>1 DEF Return, Finish
  <2>3. /\ stack \in Seq(BodyType) /\ Len(stack) >= 2 /\ Len(stack) - 1 \in DOMAIN stack
        /\ DOMAIN stack = 1 .. Len(stack) /\ stack[Len(stack) - 1] \in BodyType
    BY <2>2, TypesOfParts DEF Types
  <2>4. b \in BodyType /\ b.scalars = stack[Len(stack) - 1].scalars
    <3>1. Entry.node \in Nat
      BY TypesOfParts, BodyFields
    <3>2. Append(stack[Len(stack) - 1].pending, Entry.node) \in Seq(Nat)
      BY <2>3, <3>1, BodyFields
    <3> QED
      BY <2>1, <2>3, <3>2 DEF BodyType
  <2>5. /\ Len(stack') = Len(stack) - 1 /\ stack' \in Seq(BodyType)
        /\ \A i \in 1 .. Len(stack) - 1 : stack'[i] = IF i = Len(stack) - 1 THEN b ELSE stack[i]
    <3>1. PICK s, t : s = stack /\ t = stack'
      OBVIOUS
    <3>2. s \in Seq(BodyType) /\ Len(s) >= 2 /\ b \in BodyType /\ t = [Front(s) EXCEPT ![Len(s) - 1] = b]
      BY <2>2, <2>3, <2>4, <3>1
    <3>3. t \in Seq(BodyType)
      BY <3>2, Popped
    <3>4. Len(t) = Len(s) - 1
      BY <3>2, Popped
    <3>5. \A i \in 1 .. Len(s) - 1 : t[i] = IF i = Len(s) - 1 THEN b ELSE s[i]
      BY <3>2, Popped
    <3> QED
      BY <3>1, <3>3, <3>4, <3>5
  <2>6. \A i \in DOMAIN stack' : i \in DOMAIN stack /\ stack'[i].scalars = stack[i].scalars
    <3> SUFFICES ASSUME NEW i \in DOMAIN stack'
                 PROVE  i \in DOMAIN stack /\ stack'[i].scalars = stack[i].scalars
      OBVIOUS
    <3>1. i \in 1 .. Len(stack) - 1
      BY <2>5
    <3>2. i \in DOMAIN stack
      BY <2>3, <3>1
    <3> QED
      BY <2>4, <2>5, <3>1, <3>2
  <2>7. Known(Ref(Entry.node, None, Entry.via, Entry.means), nodes')
    <3>1. Entry.node \in DOMAIN nodes
      BY TypesOfParts DEF Stacked
    <3> QED
      BY <1>0, <3>1 DEF Ref, Known
  <2>8. \A r \in reads' \cup value' : Known(r, nodes')
    BY <1>k, <1>t, <2>2, <2>7
  <2>9. AllKnown(scalars', nodes')
    BY <1>k, <2>2, TypesOfParts
  <2> QED
    BY <1>k, <2>6, <2>8, <2>9 DEF Numbered
<1>8. CASE QualifyBody
  <2>1. PICK q, d, bound : reads' = {Qualified(r, q, d, bound) : r \in reads}
    BY <1>8 DEF QualifyBody
  <2>2. \A r \in reads' : Known(r, nodes')
    BY <1>q, <2>1
  <2> QED
    BY <1>k, <1>8, <2>2 DEF Numbered, QualifyBody
<1>9. CASE EndQuery
  <2>1. reads' = reads \cup At(Entry.node, value) /\ value' = {} /\ UNCHANGED <<stack, scalars>>
    BY <1>9 DEF EndQuery, Finish
  <2> QED
    BY <1>k, <1>t, <2>1 DEF Numbered
<1>10. CASE Translate
  <2>1. reads' = {Qualified(r, 1, Home, {}) : r \in reads}
    BY <1>10 DEF Translate
  <2>2. \A r \in reads' : Known(r, nodes')
    BY <1>q, <2>1
  <2> QED
    BY <1>k, <1>10, <2>2 DEF Numbered, Translate
<1>11. CASE UNCHANGED vars
  BY <1>11 DEF vars, Numbered
<1> QED
  BY <1>1, <1>2, <1>3, <1>4, <1>5, <1>6, <1>7, <1>8, <1>9, <1>10, <1>11 DEF Next

\* The types of the lowering state: a body is expanded at most once at a time
\* however calls go round (lower.py:1352), every let and call has one query
\* and every finished read belongs to one.
THEOREM TypeCorrect == Spec => []TypeOK
<1>1. Init => Numbered
  BY DEF Init, Numbered, AllKnown
<1>2. ASSUME IInv, Numbered PROVE TypeOK
  <2> USE DEF IInv
  <2>1. Len(lets) = Len(nodes) /\ context \in Databases /\ visible \subseteq Names
        /\ phase \in {"lowering", "qualifying", "lowered", "rendered", "refused"}
    BY <1>2 DEF Types
  <2>2. \A q \in DOMAIN lets : Range(lets[q]) \subseteq DOMAIN nodes
    BY <1>2 DEF Placement, IsChild
  <2>3. \A r \in reads : r.node \in DOMAIN nodes /\ r.via \in Ways /\ r.db \in Databases \cup {None}
                         /\ r.name \in Names \cup DOMAIN nodes
    BY <1>2 DEF Types, RefType, Numbered, Known
  <2>4. \A i, j \in DOMAIN stack : stack[i].key = stack[j].key => i = j
    BY <1>2 DEF Stacked
  <2> QED
    BY <2>1, <2>2, <2>3, <2>4 DEF TypeOK
<1> QED
  BY <1>1, <1>2, Invariance, InitStep, NextStep, NumberedStep, PTL DEF Spec

=============================================================================
