--------------------------- MODULE SharingProofs ---------------------------
(***************************************************************************)
(* The properties of Sharing, for every operator and every set of columns.  *)
(*                                                                         *)
(* An operator of any size is walked in any number of steps and its values  *)
(* are recursive functions of its DAG, so both the walk and the data need   *)
(* induction.  Over the walk it is the inductive invariant IInv; over the   *)
(* data it is LeastNatural, the least number at which something would fail: *)
(* a node's arguments have smaller numbers, its readers larger ones.        *)
(*                                                                         *)
(* The argument for SameAnswer: a node that the query evaluates on a row is *)
(* behind the guard walk left on it (InlinedAreBehind), so the row takes    *)
(* every branch its slot is rebuilt behind; the conditions of a rebuilt     *)
(* branch are evaluated inline too, so the slots nested before them already *)
(* hold their values (OneSlotMore, BoundIsInline).                          *)
(***************************************************************************)
EXTENDS Sharing, WellFoundedInduction, TLAPS

-----------------------------------------------------------------------------
(* Induction over numbers, and over functions defined by recursion.        *)

\* Every non-empty set of naturals has a least element.
LEMMA LeastNatural ==
    ASSUME NEW S \in SUBSET Nat, S # {}
    PROVE  \E m \in S : \A n \in S : m <= n
<1> DEFINE R == OpToRel(<, Nat)
<1>1. IsWellFoundedOn(R, Nat)
  BY NatLessThanWellFounded
<1>2. \A m, n \in Nat : <<n, m>> \in R <=> n < m
  BY DEF OpToRel
<1> HIDE DEF R
<1>3. PICK m \in S : \A n \in S : ~ (<<n, m>> \in R)
  BY <1>1, WFMin
<1>4. \A n \in S : ~ (n < m)
  BY <1>2, <1>3
<1> QED
  BY <1>4

\* Induction up to N.
LEMMA UpTo ==
    ASSUME NEW N \in Nat, NEW S, 0 \in S, \A n \in 0 .. N : n < N /\ n \in S => n + 1 \in S
    PROVE  0 .. N \subseteq S
<1> SUFFICES ASSUME (0 .. N) \ S # {} PROVE FALSE
  OBVIOUS
<1>1. PICK m \in (0 .. N) \ S : \A n \in (0 .. N) \ S : m <= n
  <2>1. (0 .. N) \ S \in SUBSET Nat
    OBVIOUS
  <2> QED
    BY <2>1, LeastNatural
<1>2. m # 0 /\ m - 1 \in 0 .. N /\ m - 1 < N /\ ~ (m <= m - 1)
  OBVIOUS
<1>3. m - 1 \in S
  BY <1>1, <1>2
<1>4. (m - 1) + 1 \in S
  BY <1>2, <1>3
<1> QED
  BY <1>4

\* Induction from the nodes below.
LEMMA FromBelow ==
    ASSUME NEW N \in Nat, NEW S, \A n \in 1 .. N : (\A m \in 1 .. n - 1 : m \in S) => n \in S
    PROVE  1 .. N \subseteq S
<1> SUFFICES ASSUME (1 .. N) \ S # {} PROVE FALSE
  OBVIOUS
<1>1. (1 .. N) \ S \in SUBSET Nat
  OBVIOUS
<1>2. PICK m \in (1 .. N) \ S : \A n \in (1 .. N) \ S : m <= n
  BY <1>1, LeastNatural
<1>3. \A n \in 1 .. m - 1 : n \in S
  <2> SUFFICES ASSUME NEW n \in 1 .. m - 1, n \notin S PROVE FALSE
    OBVIOUS
  <2>1. n \in (1 .. N) \ S /\ ~ (m <= n)
    BY <1>2
  <2> QED
    BY <1>2, <2>1
<1> QED
  BY <1>2, <1>3

\* Induction from the nodes above.
LEMMA FromAbove ==
    ASSUME NEW N \in Nat, NEW S, \A n \in 1 .. N : (\A m \in n + 1 .. N : m \in S) => n \in S
    PROVE  1 .. N \subseteq S
<1> DEFINE T == {n \in 1 .. N : (N + 1) - n \in S}
<1>1. 1 .. N \subseteq T
  <2> SUFFICES ASSUME NEW n \in 1 .. N, \A m \in 1 .. n - 1 : m \in T PROVE n \in T
    <3> HIDE DEF T
    <3> QED
      BY FromBelow
  <2>1. (N + 1) - n \in 1 .. N
    OBVIOUS
  <2>2. ASSUME NEW m \in ((N + 1) - n) + 1 .. N PROVE m \in S
    <3>1. (N + 1) - m \in 1 .. n - 1 /\ (N + 1) - ((N + 1) - m) = m
      BY <2>2
    <3>2. (N + 1) - m \in T
      BY <3>1
    <3> QED
      BY <3>1, <3>2
  <2>3. (N + 1) - n \in S
    BY <2>1, <2>2
  <2> QED
    BY <2>3
<1>2. ASSUME NEW n \in 1 .. N PROVE n \in S
  <2>1. (N + 1) - n \in 1 .. N /\ (N + 1) - ((N + 1) - n) = n
    OBVIOUS
  <2> QED
    BY <1>1, <2>1
<1> QED
  BY <1>2

\* f is what the recursion from c by D computes up to N.
Iterates(f, c, D, N) ==
    /\ f = [i \in 0 .. N |-> f[i]]
    /\ f[0] = c
    /\ \A i \in 1 .. N : f[i] = D[i][f[i - 1]]

\* A recursion that goes from W[i - 1] to W[i] exists and stays there.
LEMMA RecursionStays ==
    ASSUME NEW N \in Nat, NEW W, NEW f, f[0] \in W[0],
           \A i \in 1 .. N : f[i - 1] \in W[i - 1] => f[i] \in W[i]
    PROVE  \A i \in 0 .. N : f[i] \in W[i]
<1> DEFINE T == {n \in 0 .. N : f[n] \in W[n]}
<1>1. 0 \in T
  OBVIOUS
<1>2. ASSUME NEW n \in 0 .. N, n < N, n \in T PROVE n + 1 \in T
  <2>1. n + 1 \in 1 .. N /\ (n + 1) - 1 = n
    BY <1>2
  <2> QED
    BY <1>2, <2>1
<1> HIDE DEF T
<1>3. 0 .. N \subseteq T
  BY <1>1, <1>2, UpTo
<1> QED
  BY <1>3 DEF T

\* A recursion that computes each value from the one before has a solution.
LEMMA RecursionExists ==
    ASSUME NEW N \in Nat, NEW c, NEW D
    PROVE  \E f : Iterates(f, c, D, N)
<1> DEFINE Is(f, n) == /\ f = [i \in 0 .. N |-> f[i]]
                       /\ f[0] = c
                       /\ \A i \in 1 .. n : f[i] = D[i][f[i - 1]]
           T == {n \in 0 .. N : \E f : Is(f, n)}
<1>1. 0 \in T
  <2>1. Is([i \in 0 .. N |-> c], 0)
    OBVIOUS
  <2> HIDE DEF Is
  <2> QED
    BY <2>1
<1>2. ASSUME NEW n \in 0 .. N, n < N, n \in T PROVE n + 1 \in T
  <2>1. PICK f : Is(f, n)
    BY <1>2
  <2> DEFINE g == [i \in 0 .. N |-> IF i = n + 1 THEN D[n + 1][f[n]] ELSE f[i]]
  <2>2. n + 1 \in 1 .. N /\ n + 1 \in 0 .. N
    BY <1>2
  <2>3. g = [i \in 0 .. N |-> g[i]] /\ g[0] = c
    BY <2>1, <2>2
  <2>4. ASSUME NEW i \in 1 .. n + 1 PROVE g[i] = D[i][g[i - 1]]
    <3>1. CASE i = n + 1
      BY <2>1, <2>2, <3>1
    <3>2. CASE i # n + 1
      <4>1. i \in 1 .. n /\ g[i] = f[i] /\ g[i - 1] = f[i - 1]
        BY <1>2, <2>1, <3>2
      <4> QED
        BY <2>1, <4>1
    <3> QED
      BY <3>1, <3>2
  <2>5. Is(g, n + 1)
    BY <2>3, <2>4
  <2> HIDE DEF Is
  <2> QED
    BY <2>2, <2>5
<1> HIDE DEF T
<1>3. 0 .. N \subseteq T
  BY <1>1, <1>2, UpTo
<1>4. N \in T
  BY <1>3
<1> QED
  BY <1>4 DEF T, Iterates

-----------------------------------------------------------------------------
\* A prefix of a prefix is a prefix.
LEMMA PrefixTransitive ==
    ASSUME NEW S, NEW s \in Seq(S), NEW t \in Seq(S), NEW u \in Seq(S),
           IsPrefix(s, t), IsPrefix(t, u)
    PROVE  IsPrefix(s, u)
BY DEF IsPrefix

\* A sequence is a prefix of itself.
LEMMA PrefixReflexive ==
    ASSUME NEW S, NEW s \in Seq(S)
    PROVE  IsPrefix(s, s)
BY DEF IsPrefix

\* A prefix has no members of its own.
LEMMA PrefixRange ==
    ASSUME NEW S, NEW s \in Seq(S), NEW t \in Seq(S), IsPrefix(s, t)
    PROVE  Range(s) \subseteq Range(t)
<1> SUFFICES ASSUME NEW i \in 1 .. Len(s) PROVE s[i] \in Range(t)
  BY DEF Range
<1>1. i \in 1 .. Len(t) /\ s[i] = SubSeq(s, 1, Len(s))[i] /\ t[i] = SubSeq(t, 1, Len(s))[i]
  BY DEF IsPrefix
<1> QED
  BY <1>1 DEF IsPrefix, Range

\* Sequences agree with their longest common prefix, as far as it goes.
LEMMA CommonIsPrefix ==
    ASSUME NEW S, NEW s \in Seq(S), NEW t \in Seq(S)
    PROVE  /\ Common(s, t) \in Seq(S)
           /\ IsPrefix(Common(s, t), s)
           /\ IsPrefix(Common(s, t), t)
<1> DEFINE C == CommonPrefixes({s, t})
           L == {Len(s) - Len(p) : p \in C}
<1>1. \A p \in C : p \in Seq(S) /\ IsPrefix(p, s) /\ IsPrefix(p, t)
  <2> SUFFICES ASSUME NEW p \in C PROVE p \in Seq(S)
    BY DEF CommonPrefixes
  <2>1. PICK u \in {s, t} : \E l \in 0 .. Len(u) : p = SubSeq(u, 1, l)
    BY DEF CommonPrefixes, Prefixes
  <2>2. PICK l \in 0 .. Len(u) : p = SubSeq(u, 1, l)
    BY <2>1
  <2> QED
    BY <2>1, <2>2
<1>2. SubSeq(s, 1, 0) \in C
  <2>1. SubSeq(s, 1, 0) \in Prefixes(s)
    BY DEF Prefixes
  <2>2. IsPrefix(SubSeq(s, 1, 0), s) /\ IsPrefix(SubSeq(s, 1, 0), t)
    BY DEF IsPrefix
  <2> QED
    BY <2>1, <2>2 DEF CommonPrefixes
<1> HIDE DEF C
<1>3. L \in SUBSET Nat /\ L # {}
  <2>1. \A p \in C : Len(s) - Len(p) \in Nat
    BY <1>1 DEF IsPrefix
  <2> QED
    BY <1>2, <2>1
<1>4. PICK m \in L : \A l \in L : m <= l
  BY <1>3, LeastNatural
<1>5. PICK p \in C : m = Len(s) - Len(p)
  BY <1>4
<1>6. ASSUME NEW q \in C PROVE Len(q) <= Len(p)
  <2>1. m <= Len(s) - Len(q)
    BY <1>4
  <2>2. Len(q) \in Nat /\ Len(p) \in Nat
    BY <1>1
  <2> QED
    BY <1>5, <2>1, <2>2
<1>7. Common(s, t) \in C
  BY <1>6, <1>5 DEF Common, LongestCommonPrefix, C
<1> QED
  BY <1>1, <1>7

\* A sequence has nothing but itself in common with itself.
LEMMA CommonOfOne ==
    ASSUME NEW S, NEW s \in Seq(S)
    PROVE  Common(s, s) = s
<1>1. \A p \in CommonPrefixes({s}) : p \in Seq(S) /\ IsPrefix(p, s)
  <2> SUFFICES ASSUME NEW p \in CommonPrefixes({s}) PROVE p \in Seq(S)
    BY DEF CommonPrefixes
  <2>1. PICK l \in 0 .. Len(s) : p = SubSeq(s, 1, l)
    BY DEF CommonPrefixes, Prefixes
  <2> QED
    BY <2>1
<1>2. s \in CommonPrefixes({s})
  <2>1. s = SubSeq(s, 1, Len(s)) /\ Len(s) \in 0 .. Len(s)
    OBVIOUS
  <2>2. s \in Prefixes(s)
    BY <2>1 DEF Prefixes
  <2> QED
    BY <2>2, PrefixReflexive DEF CommonPrefixes
<1>3. \A p \in CommonPrefixes({s}) : Len(p) <= Len(s)
  <2> TAKE p \in CommonPrefixes({s})
  <2> QED
    BY <1>1 DEF IsPrefix
<1>4. PICK p \in CommonPrefixes({s}) :
         p = Common(s, s) /\ \A q \in CommonPrefixes({s}) : Len(q) <= Len(p)
  BY <1>2, <1>3 DEF Common, LongestCommonPrefix
<1>5. p \in Seq(S) /\ IsPrefix(p, s)
  BY <1>1
<1>6. Len(s) <= Len(p) /\ Len(p) <= Len(s)
  BY <1>2, <1>3, <1>4
<1>7. Len(s) = Len(p)
  BY <1>5, <1>6
<1>8. SubSeq(p, 1, Len(p)) = SubSeq(s, 1, Len(p))
  BY <1>5 DEF IsPrefix
<1>9. p = SubSeq(p, 1, Len(p)) /\ s = SubSeq(s, 1, Len(s))
  BY <1>5
<1> QED
  BY <1>4, <1>7, <1>8, <1>9

\* Appending adds one member.
LEMMA RangeAppend ==
    ASSUME NEW S, NEW s \in Seq(S), NEW x
    PROVE  Range(Append(s, x)) = Range(s) \cup {x}
BY DEF Range

\* What is still to be walked when the first call has left c in its place.
LEMMA RangeReplaceHead ==
    ASSUME NEW S, NEW s \in Seq(S), s # <<>>, NEW c \in Seq(S)
    PROVE  /\ Range(s) = {Head(s)} \cup Range(Tail(s))
           /\ Range(c \o Tail(s)) = Range(c) \cup Range(Tail(s))
           /\ Tail(s) \in Seq(S)
           /\ c \o Tail(s) \in Seq(S)
           /\ Head(s) \in S
<1>1. Range(s) = {Head(s)} \cup Range(Tail(s))
  <2>1. Tail(s) \in Seq(S) /\ Head(s) = s[1] /\ 1 \in 1 .. Len(s)
    OBVIOUS
  <2>2. ASSUME NEW i \in 1 .. Len(s) PROVE s[i] \in {Head(s)} \cup Range(Tail(s))
    <3>1. CASE i = 1
      BY <2>1, <3>1
    <3>2. CASE i # 1
      <4>1. i - 1 \in 1 .. Len(Tail(s)) /\ Tail(s)[i - 1] = s[i]
        BY <3>2
      <4>2. DOMAIN Tail(s) = 1 .. Len(Tail(s))
        BY <2>1
      <4>3. Tail(s)[i - 1] \in Range(Tail(s))
        BY <4>1, <4>2 DEF Range
      <4> QED
        BY <4>1, <4>3
    <3> QED
      BY <3>1, <3>2
  <2>3. ASSUME NEW i \in 1 .. Len(Tail(s)) PROVE Tail(s)[i] \in Range(s)
    <3>1. i + 1 \in 1 .. Len(s) /\ Tail(s)[i] = s[i + 1]
      OBVIOUS
    <3> QED
      BY <3>1 DEF Range
  <2>4. DOMAIN s = 1 .. Len(s) /\ DOMAIN Tail(s) = 1 .. Len(Tail(s))
    BY <2>1
  <2>5. Range(s) \subseteq {Head(s)} \cup Range(Tail(s))
    BY <2>2, <2>4 DEF Range
  <2>6. Range(Tail(s)) \subseteq Range(s)
    BY <2>3, <2>4 DEF Range
  <2>7. Head(s) \in Range(s)
    BY <2>1, <2>4 DEF Range
  <2> QED
    BY <2>5, <2>6, <2>7
<1>2. ASSUME NEW t \in Seq(S) PROVE Range(c \o t) = Range(c) \cup Range(t)
  <2>1. /\ c \o t \in Seq(S)
        /\ Len(c \o t) = Len(c) + Len(t)
        /\ \A i \in 1 .. Len(c) + Len(t) : (c \o t)[i] = IF i <= Len(c) THEN c[i] ELSE t[i - Len(c)]
    OBVIOUS
  <2>2. \A i \in 1 .. Len(c \o t) : (c \o t)[i] \in Range(c) \cup Range(t)
    <3> SUFFICES ASSUME NEW i \in 1 .. Len(c) + Len(t)
                 PROVE (c \o t)[i] \in Range(c) \cup Range(t)
      BY <2>1
    <3>1. CASE i <= Len(c)
      BY <3>1, <2>1 DEF Range
    <3>2. CASE ~ (i <= Len(c))
      <4>1. i - Len(c) \in 1 .. Len(t)
        BY <3>2
      <4> QED
        BY <3>2, <4>1, <2>1 DEF Range
    <3> QED
      BY <3>1, <3>2
  <2>3. \A i \in 1 .. Len(c) : c[i] \in Range(c \o t)
    <3> TAKE i \in 1 .. Len(c)
    <3>1. i \in 1 .. Len(c) + Len(t) /\ i <= Len(c)
      OBVIOUS
    <3> QED
      BY <2>1, <3>1 DEF Range
  <2>4. \A i \in 1 .. Len(t) : t[i] \in Range(c \o t)
    <3> TAKE i \in 1 .. Len(t)
    <3>1. i + Len(c) \in 1 .. Len(c) + Len(t) /\ ~ (i + Len(c) <= Len(c)) /\ (i + Len(c)) - Len(c) = i
      OBVIOUS
    <3>2. (c \o t)[i + Len(c)] = t[i]
      BY <2>1, <3>1
    <3> QED
      BY <2>1, <3>1, <3>2 DEF Range
  <2>5. DOMAIN (c \o t) = 1 .. Len(c \o t) /\ DOMAIN c = 1 .. Len(c) /\ DOMAIN t = 1 .. Len(t)
    BY <2>1
  <2>6. Range(c \o t) \subseteq Range(c) \cup Range(t)
    BY <2>2, <2>5 DEF Range
  <2>7. Range(c) \subseteq Range(c \o t)
    BY <2>3, <2>5 DEF Range
  <2>8. Range(t) \subseteq Range(c \o t)
    BY <2>4, <2>5 DEF Range
  <2> QED
    BY <2>6, <2>7, <2>8
<1>3. Tail(s) \in Seq(S) /\ Head(s) \in S
  OBVIOUS
<1>4. c \o Tail(s) \in Seq(S)
  BY <1>3
<1> QED
  BY <1>1, <1>2, <1>3, <1>4

-----------------------------------------------------------------------------
\* The steps of a path.
Steps == [owner : 0 .. Len(op.nodes), index : Nat]

\* The calls of walk.
Calls == [node : Nodes, path : Seq(Steps)]

\* Walk has been, or will be, at n, and leaves a branch on it that path is in.
Reached(n, path) ==
    \/ [node |-> n, path |-> path] \in Range(todo)
    \/ counts[n] > 0 /\ IsPrefix(guards[n], path)

\* The types of the variables.
Types ==
    /\ op \in Expressions
    /\ taken \subseteq Columns
    /\ known \in BOOLEAN
    /\ todo \in Seq(Calls)
    /\ counts \in [Nodes -> Nat]
    /\ guards \in [Nodes -> Seq(Steps)]
    /\ plan \in Seq(Nodes)
    /\ slots \in Seq([node : Nodes, guard : Seq(Steps)])

\* Without a schema there is nothing to walk or to plan.
UnknownInv == ~known => todo = <<>> /\ plan = <<>> /\ slots = <<>>

\* Every expression, and every argument of a node that was walked, has been or
\* will be walked along the path it is read by.
ReadersInv ==
    /\ known => \A n \in Range(op.exprs) : Reached(n, <<>>)
    /\ \A n \in Nodes : \A i \in DOMAIN Args(n) :
          counts[n] > 0 => Reached(Args(n)[i], Below(guards[n], n, i))

\* A slot is planned after the walk, behind the branch the walk left on its node.
SlotInv ==
    \A i \in DOMAIN slots :
        LET s == slots[i]
        IN  /\ todo = <<>>
            /\ Opaque \notin Range(s.guard)
            /\ IF Kind(s.node) = "toscalar" THEN s.guard = <<>>
               ELSE counts[s.node] > 0 /\ s.guard = guards[s.node]

\* P[n] is the set of paths down to n.
ArePaths(P) ==
    \A n \in Nodes :
        /\ P[n] \subseteq Seq(Steps)
        /\ \A path :
              path \in P[n] <=>
                  \/ path = <<>> /\ n \in Range(op.exprs)
                  \/ \E p \in Nodes : \E i \in DOMAIN Args(p) :
                        Args(p)[i] = n /\ \E q \in P[p] : path = Below(q, p, i)

\* path leads to n, and is the only one if there is only one.
LeadsTo(path, n, P) == P[n] # {} /\ \A only : P[n] = {only} => path = only

\* Every call and every guard leads to its node.
PathInv ==
    \A P : ArePaths(P) =>
        /\ \A c \in Range(todo) : LeadsTo(c.path, c.node, P)
        /\ \A n \in Nodes : counts[n] > 0 => LeadsTo(guards[n], n, P)

\* The inductive invariant.
IInv == Types /\ UnknownInv /\ ReadersInv /\ SlotInv /\ PathInv

\* The shape of an operator.
LEMMA Shape ==
    ASSUME op \in Expressions
    PROVE  /\ Len(op.nodes) \in Nat
           /\ Nodes = 1 .. Len(op.nodes)
           /\ op.exprs \in Seq(Nodes)
           /\ \A n \in Nodes : /\ Kind(n) \in Kinds
                               /\ Args(n) \in Seq(Nat \ {0})
                               /\ DOMAIN Args(n) = 1 .. Len(Args(n))
                               /\ Len(Args(n)) \in Nat
                               /\ \A i \in DOMAIN Args(n) : Args(n)[i] \in Nodes /\ Args(n)[i] < n
                               /\ Kind(n) = "case" => Len(Args(n)) % 2 = 1
<1>1. op.nodes \in Seq([kind : Kinds, args : Seq(Nat \ {0})])
  BY ExpressionsAssumption
<1>2. Nodes = 1 .. Len(op.nodes) /\ Len(op.nodes) \in Nat
  BY <1>1 DEF Nodes
<1>3. op.exprs \in Seq(Nodes)
  BY ExpressionsAssumption DEF Nodes
<1>4. ASSUME NEW n \in Nodes
      PROVE  /\ Kind(n) \in Kinds
             /\ Args(n) \in Seq(Nat \ {0})
             /\ DOMAIN Args(n) = 1 .. Len(Args(n))
             /\ Len(Args(n)) \in Nat
  <2>1. op.nodes[n] \in [kind : Kinds, args : Seq(Nat \ {0})]
    <3>1. \A S : \A s \in Seq(S) : \A j \in 1 .. Len(s) : s[j] \in S
      OBVIOUS
    <3> QED
      BY <1>1, <1>2, <3>1
  <2>2. Kind(n) \in Kinds /\ Args(n) \in Seq(Nat \ {0})
    BY <2>1 DEF Kind, Args
  <2> QED
    BY <2>2
<1>5. ASSUME NEW n \in Nodes, NEW i \in DOMAIN Args(n)
      PROVE  Args(n)[i] \in Nodes /\ Args(n)[i] < n
  <2>1. Args(n)[i] \in Nat \ {0}
    BY <1>4
  <2>2. Args(n)[i] < n
    BY ExpressionsAssumption DEF Nodes, Args, Range
  <2>3. n \in 1 .. Len(op.nodes)
    BY <1>2
  <2> QED
    BY <1>2, <2>1, <2>2, <2>3
<1>6. ASSUME NEW n \in Nodes, Kind(n) = "case" PROVE Len(Args(n)) % 2 = 1
  BY <1>6, CasesAssumption DEF Nodes, Kind, Args
<1> QED
  BY <1>2, <1>3, <1>4, <1>5, <1>6

\* Below an argument a path is the same or one step longer, so it is known
\* from what is below it.
LEMMA BelowIsPath ==
    ASSUME op \in Expressions, NEW n \in Nodes, NEW i \in DOMAIN Args(n), NEW path \in Seq(Steps)
    PROVE  Below(path, n, i) \in Seq(Steps)
<1>1. i \in Nat /\ n \in 0 .. Len(op.nodes)
  BY Shape
<1>2. [owner |-> n, index |-> i] \in Steps /\ Opaque \in Steps
  BY <1>1, Shape DEF Steps, Opaque
<1> QED
  BY <1>2 DEF Below

\* The paths into one argument differ where the paths to its reader do.
LEMMA BelowIsInjective ==
    ASSUME op \in Expressions, NEW n \in Nodes, NEW i \in DOMAIN Args(n),
           NEW left \in Seq(Steps), NEW right \in Seq(Steps), Below(left, n, i) = Below(right, n, i)
    PROVE  left = right
<1>1. i \in Nat /\ n \in 0 .. Len(op.nodes)
  BY Shape
<1>2. [owner |-> n, index |-> i] \in Steps /\ Opaque \in Steps
  BY <1>1, Shape DEF Steps, Opaque
<1>3. ASSUME NEW x \in Steps, Append(left, x) = Append(right, x) PROVE left = right
  <2>1. Len(left) = Len(right)
    BY <1>3
  <2>2. \A j \in 1 .. Len(left) : left[j] = Append(left, x)[j] /\ right[j] = Append(right, x)[j]
    BY <2>1
  <2> QED
    BY <1>3, <2>1, <2>2
<1> QED
  BY <1>2, <1>3 DEF Below

\* The steps of a path below an argument are those of the path and one.
LEMMA BelowRange ==
    ASSUME op \in Expressions, NEW n \in Nodes, NEW i \in DOMAIN Args(n), NEW path \in Seq(Steps)
    PROVE  Range(Below(path, n, i)) =
              Range(path) \cup
                 (IF i > 1 /\ Kind(n) = "case" THEN {[owner |-> n, index |-> i]}
                  ELSE IF i > 1 /\ Kind(n) = "coalesce" THEN {Opaque} ELSE {})
BY RangeAppend DEF Below

\* The calls below a node are one for each argument.
LEMMA ChildrenAreCalls ==
    ASSUME op \in Expressions, NEW n \in Nodes, NEW path \in Seq(Steps)
    PROVE  /\ Children(n, path) \in Seq(Calls)
           /\ \A i \in DOMAIN Args(n) :
                 [node |-> Args(n)[i], path |-> Below(path, n, i)] \in Range(Children(n, path))
           /\ \A c \in Range(Children(n, path)) : \E i \in DOMAIN Args(n) :
                 c = [node |-> Args(n)[i], path |-> Below(path, n, i)]
<1>1. DOMAIN Args(n) = 1 .. Len(Args(n)) /\ Len(Args(n)) \in Nat
  BY Shape
<1>2. \A i \in DOMAIN Args(n) : [node |-> Args(n)[i], path |-> Below(path, n, i)] \in Calls
  BY Shape, BelowIsPath DEF Calls
<1> QED
  BY <1>1, <1>2 DEF Children, Range

-----------------------------------------------------------------------------
\* What Walk leaves on the node it takes.
Merged(n, path) == IF counts[n] = 0 THEN path ELSE Common(guards[n], path)

\* What one call of walk finds and leaves.
LEMMA WalkFacts ==
    ASSUME Types, todo # <<>>, Walk
    PROVE  LET n == Head(todo).node
               path == Head(todo).path
               merged == Merged(n, path)
           IN  /\ Head(todo) \in Calls
               /\ n \in Nodes
               /\ path \in Seq(Steps)
               /\ merged \in Seq(Steps)
               /\ IsPrefix(merged, path)
               /\ counts[n] > 0 => IsPrefix(merged, guards[n])
               /\ todo' \in Seq(Calls)
               /\ Range(todo) = {Head(todo)} \cup Range(Tail(todo))
               /\ IF counts[n] > 0 /\ merged = guards[n] THEN Range(todo') = Range(Tail(todo))
                  ELSE Range(todo') = Range(Children(n, merged)) \cup Range(Tail(todo))
               /\ counts' = [counts EXCEPT ![n] = @ + 1]
               /\ guards' = [guards EXCEPT ![n] = merged]
               /\ counts'[n] > 0 /\ guards'[n] = merged
               /\ \A m \in Nodes : m # n => counts'[m] = counts[m] /\ guards'[m] = guards[m]
<1> DEFINE n == Head(todo).node
           path == Head(todo).path
           merged == Merged(n, path)
<1>1. Head(todo) \in Calls /\ Tail(todo) \in Seq(Calls)
  BY DEF Types
<1>2. n \in Nodes /\ path \in Seq(Steps)
  BY <1>1 DEF Calls
<1>3. guards[n] \in Seq(Steps) /\ counts[n] \in Nat
  BY <1>2 DEF Types
<1>4. /\ merged \in Seq(Steps)
      /\ IsPrefix(merged, path)
      /\ counts[n] > 0 => IsPrefix(merged, guards[n])
  BY <1>2, <1>3, CommonIsPrefix, PrefixReflexive DEF Merged
<1>5. /\ counts' = [counts EXCEPT ![n] = @ + 1]
      /\ guards' = [guards EXCEPT ![n] = merged]
      /\ todo' = IF counts[n] > 0 /\ merged = guards[n] THEN Tail(todo)
                 ELSE Children(n, merged) \o Tail(todo)
  BY DEF Walk, Merged
<1>6. Children(n, merged) \in Seq(Calls)
  BY <1>2, <1>4, ChildrenAreCalls DEF Types
<1>7. /\ Range(todo) = {Head(todo)} \cup Range(Tail(todo))
      /\ Range(Children(n, merged) \o Tail(todo)) = Range(Children(n, merged)) \cup Range(Tail(todo))
      /\ Children(n, merged) \o Tail(todo) \in Seq(Calls)
  BY <1>6, RangeReplaceHead DEF Types
<1>8. /\ counts'[n] > 0 /\ guards'[n] = merged
      /\ \A m \in Nodes : m # n => counts'[m] = counts[m] /\ guards'[m] = guards[m]
  BY <1>2, <1>3, <1>5 DEF Types
<1> HIDE DEF n, path, merged
<1>9. /\ todo' \in Seq(Calls)
      /\ IF counts[n] > 0 /\ merged = guards[n] THEN Range(todo') = Range(Tail(todo))
         ELSE Range(todo') = Range(Children(n, merged)) \cup Range(Tail(todo))
  BY <1>1, <1>5, <1>7
<1> QED
  BY <1>1, <1>2, <1>4, <1>5, <1>7, <1>8, <1>9 DEF n, path, merged

\* Walk does not lose sight of a reader.
LEMMA ReachedStays ==
    ASSUME Types, todo # <<>>, Walk, NEW m \in Nodes, NEW path \in Seq(Steps), Reached(m, path)
    PROVE  Reached(m, path)'
<1> DEFINE n == Head(todo).node
           merged == Merged(n, Head(todo).path)
<1>1. CASE [node |-> m, path |-> path] = Head(todo)
  <2>1. m = n /\ path = Head(todo).path
    BY <1>1
  <2>2. counts'[m] > 0 /\ guards'[m] = merged /\ IsPrefix(merged, path)
    BY <2>1, WalkFacts
  <2> QED
    BY <2>2 DEF Reached
<1>2. CASE [node |-> m, path |-> path] \in Range(Tail(todo))
  <2>1. [node |-> m, path |-> path] \in Range(todo')
    BY <1>2, WalkFacts
  <2> QED
    BY <2>1 DEF Reached
<1>3. CASE counts[m] > 0 /\ IsPrefix(guards[m], path)
  <2>1. CASE m = n
    <3>1. IsPrefix(merged, guards[m]) /\ merged \in Seq(Steps) /\ guards[m] \in Seq(Steps)
      BY <1>3, <2>1, WalkFacts DEF Types
    <3>2. IsPrefix(merged, path)
      BY <1>3, <3>1, PrefixTransitive
    <3>3. counts'[m] > 0 /\ guards'[m] = merged
      BY <2>1, WalkFacts
    <3> QED
      BY <3>2, <3>3 DEF Reached
  <2>2. CASE m # n
    <3>1. counts'[m] = counts[m] /\ guards'[m] = guards[m]
      BY <2>2, WalkFacts
    <3> QED
      BY <1>3, <3>1 DEF Reached
  <2> QED
    BY <2>1, <2>2
<1> QED
  BY <1>1, <1>2, <1>3, WalkFacts DEF Reached

\* The steps of the specification leave the operator alone.
LEMMA SameOperator ==
    ASSUME op' = op
    PROVE  /\ Nodes' = Nodes
           /\ Steps' = Steps
           /\ Calls' = Calls
           /\ \A n : Args(n)' = Args(n) /\ Kind(n)' = Kind(n)
           /\ \A path, n, i : Below(path, n, i)' = Below(path, n, i)
           /\ \A P : ArePaths(P)' <=> ArePaths(P)
<1>1. /\ Nodes' = Nodes
      /\ Steps' = Steps
      /\ \A n : Args(n)' = Args(n) /\ Kind(n)' = Kind(n)
  BY DEF Nodes, Steps, Args, Kind
<1>2. Calls' = Calls
  BY <1>1 DEF Calls
<1>3. \A path, n, i : Below(path, n, i)' = Below(path, n, i)
  BY <1>1 DEF Below
<1>4. \A P : ArePaths(P)' <=> ArePaths(P)
  BY <1>1, <1>3 DEF ArePaths
<1> QED
  BY <1>1, <1>2, <1>3, <1>4

\* A call of walk keeps every variable in its type.
LEMMA WalkKeepsTypes ==
    ASSUME Types, Walk
    PROVE  Types'
<1> DEFINE n == Head(todo).node
           merged == Merged(n, Head(todo).path)
<1>1. todo # <<>> /\ UNCHANGED <<op, taken, known, plan, slots>>
  BY DEF Walk
<1>2. /\ n \in Nodes
      /\ merged \in Seq(Steps)
      /\ counts' = [counts EXCEPT ![n] = @ + 1]
      /\ guards' = [guards EXCEPT ![n] = merged]
      /\ todo' \in Seq(Calls)
  BY <1>1, WalkFacts
<1>3. counts' \in [Nodes -> Nat] /\ guards' \in [Nodes -> Seq(Steps)]
  BY <1>2 DEF Types
<1> QED
  BY <1>1, <1>2, <1>3, SameOperator DEF Types

\* A call of walk leaves every reader served: the argument it reads is
\* behind the branch it is read behind, or the call that will see to it is next.
LEMMA WalkKeepsReaders ==
    ASSUME Types, Walk, ReadersInv
    PROVE  ReadersInv'
<1> DEFINE n == Head(todo).node
           merged == Merged(n, Head(todo).path)
<1>1. todo # <<>> /\ op' = op /\ known' = known
  BY DEF Walk
<1>2. op \in Expressions /\ n \in Nodes /\ merged \in Seq(Steps)
  BY <1>1, WalkFacts DEF Types
<1>3. ASSUME known', NEW m \in Range(op.exprs)' PROVE Reached(m, <<>>)'
  <2>1. m \in Range(op.exprs) /\ m \in Nodes /\ <<>> \in Seq(Steps)
    BY <1>1, <1>2, <1>3, Shape DEF Range
  <2>2. Reached(m, <<>>)
    BY <1>1, <1>3, <2>1 DEF ReadersInv
  <2> QED
    BY <1>1, <2>1, <2>2, ReachedStays
<1>4. ASSUME NEW p \in Nodes, NEW i \in DOMAIN Args(p), counts'[p] > 0,
             NEW child, child = Args(p)[i], NEW path, path = Below(guards'[p], p, i)
      PROVE  Reached(child, path)'
  <2>1. child \in Nodes
    BY <1>2, <1>4, Shape
  <2>2. CASE p = n /\ ~ (counts[n] > 0 /\ merged = guards[n])
    <3>1. guards'[p] = merged /\ Range(Children(n, merged)) \subseteq Range(todo')
      BY <1>1, <2>2, WalkFacts
    <3>2. [node |-> child, path |-> path] \in Range(todo')
      BY <1>2, <1>4, <2>2, <3>1, ChildrenAreCalls
    <3> QED
      BY <3>2 DEF Reached
  <2>3. CASE ~ (p = n /\ ~ (counts[n] > 0 /\ merged = guards[n]))
    <3>1. guards'[p] = guards[p] /\ counts[p] > 0
      BY <1>1, <1>2, <1>4, <2>3, WalkFacts
    <3>2. path \in Seq(Steps)
      BY <1>2, <1>4, <3>1, BelowIsPath DEF Types
    <3>3. Reached(child, path)
      BY <1>4, <3>1 DEF ReadersInv
    <3> QED
      BY <1>1, <2>1, <3>2, <3>3, ReachedStays
  <2> QED
    BY <2>2, <2>3
<1>5. ASSUME NEW p \in Nodes, NEW i \in DOMAIN Args(p), counts'[p] > 0
      PROVE  Reached(Args(p)[i], Below(guards[p], p, i))'
  <2>1. Args(p)' = Args(p) /\ Below(guards[p], p, i)' = Below(guards'[p], p, i)
    BY <1>1, SameOperator DEF Below
  <2> QED
    BY <1>4, <1>5, <2>1 DEF Reached
<1> QED
  BY <1>1, <1>3, <1>5, SameOperator DEF ReadersInv

\* A call of walk makes up no branch: what it leaves on a node is the path to
\* it when there is one path only.
LEMMA WalkKeepsPaths ==
    ASSUME Types, Walk, PathInv
    PROVE  PathInv'
<1> DEFINE n == Head(todo).node
           path == Head(todo).path
           merged == Merged(n, path)
<1>1. todo # <<>> /\ op' = op
  BY DEF Walk
<1>2. op \in Expressions /\ n \in Nodes /\ merged \in Seq(Steps) /\ path \in Seq(Steps)
  BY <1>1, WalkFacts DEF Types
<1> SUFFICES ASSUME NEW P, ArePaths(P)
             PROVE  /\ \A c \in Range(todo') : LeadsTo(c.path, c.node, P)
                    /\ \A m \in Nodes : counts'[m] > 0 => LeadsTo(guards'[m], m, P)
  BY <1>1, SameOperator DEF PathInv, LeadsTo
<1>3. /\ \A c \in Range(todo) : LeadsTo(c.path, c.node, P)
      /\ \A m \in Nodes : counts[m] > 0 => LeadsTo(guards[m], m, P)
  BY DEF PathInv
<1>4. LeadsTo(path, n, P)
  BY <1>1, <1>3, WalkFacts
<1>5. LeadsTo(merged, n, P)
  <2>1. CASE counts[n] = 0
    BY <1>4, <2>1 DEF Merged
  <2>2. CASE counts[n] # 0
    <3>1. LeadsTo(guards[n], n, P)
      BY <1>2, <1>3, <2>2 DEF Types
    <3>2. ASSUME NEW only, P[n] = {only} PROVE merged = only
      <4>1. path = only /\ guards[n] = path
        BY <1>4, <3>1, <3>2 DEF LeadsTo
      <4> QED
        BY <1>2, <2>2, <4>1, CommonOfOne DEF Merged
    <3> QED
      BY <1>4, <3>2 DEF LeadsTo
  <2> QED
    BY <2>1, <2>2
<1>6. ASSUME NEW i \in DOMAIN Args(n) PROVE LeadsTo(Below(merged, n, i), Args(n)[i], P)
  <2> DEFINE child == Args(n)[i]
  <2>1. child \in Nodes
    BY <1>2, Shape
  <2>2. \A q \in P[n] : Below(q, n, i) \in P[child] /\ q \in Seq(Steps)
    BY <1>2, <2>1 DEF ArePaths
  <2>3. PICK q \in P[n] : TRUE
    BY <1>5 DEF LeadsTo
  <2>4. ASSUME NEW only, P[child] = {only} PROVE Below(merged, n, i) = only
    <3>1. \A r \in P[n] : r = q
      BY <1>2, <2>2, <2>3, <2>4, BelowIsInjective
    <3>2. P[n] = {q}
      BY <2>3, <3>1
    <3>3. merged = q
      BY <1>5, <3>2 DEF LeadsTo
    <3> QED
      BY <2>2, <2>3, <2>4, <3>3
  <2>5. P[child] # {}
    BY <2>2, <2>3
  <2> HIDE DEF child
  <2> QED
    BY <2>4, <2>5 DEF LeadsTo, child
<1>7. ASSUME NEW c \in Range(todo') PROVE LeadsTo(c.path, c.node, P)
  <2>1. CASE c \in Range(Tail(todo))
    BY <1>1, <1>3, <2>1, WalkFacts
  <2>2. CASE c \in Range(Children(n, merged))
    <3>1. PICK i \in DOMAIN Args(n) : c = [node |-> Args(n)[i], path |-> Below(merged, n, i)]
      BY <1>2, <2>2, ChildrenAreCalls
    <3> QED
      BY <1>6, <3>1
  <2> QED
    BY <1>1, <2>1, <2>2, WalkFacts
<1>8. ASSUME NEW m \in Nodes, counts'[m] > 0 PROVE LeadsTo(guards'[m], m, P)
  <2>1. CASE m = n
    BY <1>1, <1>5, <2>1, WalkFacts
  <2>2. CASE m # n
    BY <1>1, <1>3, <1>8, <2>2, WalkFacts
  <2> QED
    BY <2>1, <2>2
<1> QED
  BY <1>7, <1>8

-----------------------------------------------------------------------------
\* AddNew makes a sequence of what it is given.
LEMMA AddNewType ==
    ASSUME NEW S, NEW seen \in Seq(S), NEW s \in Seq(S)
    PROVE  AddNew(seen, s) \in Seq(S)
<1> DEFINE N == Len(s)
           Step(x, i) == IF Contains(x, s[i]) THEN x ELSE Append(x, s[i])
           Is(f) == f = [i \in 0 .. N |-> IF i = 0 THEN seen ELSE Step(f[i - 1], i)]
           W == [i \in 0 .. N |-> Seq(S)]
           D == [i \in 1 .. N |-> [x \in W[i - 1] |-> Step(x, i)]]
<1>1. N \in Nat /\ \A i \in 1 .. N : \A x \in Seq(S) : Step(x, i) \in Seq(S)
  OBVIOUS
<1>2. AddNew(seen, s) = (CHOOSE f : Is(f))[N]
  BY DEF AddNew
<1> HIDE DEF Step, N
<1>3. /\ 0 \in 0 .. N /\ N \in 0 .. N
      /\ \A i \in 1 .. N : i \in 0 .. N /\ i - 1 \in 0 .. N
  BY <1>1
<1>4. PICK f : Iterates(f, seen, D, N)
  <2> HIDE DEF D
  <2> QED
    BY <1>1, RecursionExists
<1>5. /\ f[0] \in W[0]
      /\ \A i \in 1 .. N : f[i - 1] \in W[i - 1] => f[i] = Step(f[i - 1], i) /\ f[i] \in W[i]
  BY <1>1, <1>3, <1>4 DEF Iterates
<1>6. \A i \in 0 .. N : f[i] \in W[i]
  <2> HIDE DEF W
  <2> QED
    BY <1>1, <1>5, RecursionStays
<1>7. Is(f)
  <2>1. f = [i \in 0 .. N |-> f[i]]
    BY <1>4 DEF Iterates
  <2>2. ASSUME NEW i \in 0 .. N PROVE f[i] = IF i = 0 THEN seen ELSE Step(f[i - 1], i)
    <3>1. i = 0 \/ i \in 1 .. N
      BY <1>1
    <3> QED
      BY <1>3, <1>4, <1>5, <1>6, <3>1 DEF Iterates
  <2> QED
    BY <2>1, <2>2
<1>8. PICK g : Is(g) /\ AddNew(seen, s) = g[N]
  BY <1>2, <1>7
<1>9. g[0] \in W[0] /\ \A i \in 1 .. N : g[i - 1] \in W[i - 1] => g[i] \in W[i]
  BY <1>1, <1>3, <1>8
<1>10. g[N] \in W[N]
  <2> HIDE DEF W, Is
  <2> QED
    BY <1>1, <1>3, <1>9, RecursionStays
<1> QED
  BY <1>3, <1>8, <1>10

\* Joined makes a sequence of the arguments and of what is below them.
LEMMA JoinedType ==
    ASSUME NEW S, NEW below, NEW args, Len(args) \in Nat,
           \A i \in 1 .. Len(args) : args[i] \in S /\ below[args[i]] \in Seq(S)
    PROVE  Joined(below, args) \in Seq(S)
<1> DEFINE N == Len(args)
           Step(x, i) == AddNew(x, Append(below[args[i]], args[i]))
           Is(f) == f = [i \in 0 .. N |-> IF i = 0 THEN <<>> ELSE Step(f[i - 1], i)]
           W == [i \in 0 .. N |-> Seq(S)]
           D == [i \in 1 .. N |-> [x \in W[i - 1] |-> Step(x, i)]]
<1>1. N \in Nat /\ <<>> \in Seq(S) /\ \A i \in 1 .. N : \A x \in Seq(S) : Step(x, i) \in Seq(S)
  <2>1. \A i \in 1 .. N : Append(below[args[i]], args[i]) \in Seq(S)
    OBVIOUS
  <2>2. N \in Nat /\ <<>> \in Seq(S)
    OBVIOUS
  <2> QED
    BY <2>1, <2>2, AddNewType
<1>2. Joined(below, args) = (CHOOSE f : Is(f))[N]
  BY DEF Joined
<1> HIDE DEF Step, N
<1>3. /\ 0 \in 0 .. N /\ N \in 0 .. N
      /\ \A i \in 1 .. N : i \in 0 .. N /\ i - 1 \in 0 .. N
  BY <1>1
<1>4. PICK f : Iterates(f, <<>>, D, N)
  <2> HIDE DEF D
  <2> QED
    BY <1>1, RecursionExists
<1>5. /\ f[0] \in W[0]
      /\ \A i \in 1 .. N : f[i - 1] \in W[i - 1] => f[i] = Step(f[i - 1], i) /\ f[i] \in W[i]
  BY <1>1, <1>3, <1>4 DEF Iterates
<1>6. \A i \in 0 .. N : f[i] \in W[i]
  <2> HIDE DEF W
  <2> QED
    BY <1>1, <1>5, RecursionStays
<1>7. Is(f)
  <2>1. f = [i \in 0 .. N |-> f[i]]
    BY <1>4 DEF Iterates
  <2>2. ASSUME NEW i \in 0 .. N PROVE f[i] = IF i = 0 THEN <<>> ELSE Step(f[i - 1], i)
    <3>1. i = 0 \/ i \in 1 .. N
      BY <1>1
    <3> QED
      BY <1>3, <1>4, <1>5, <1>6, <3>1 DEF Iterates
  <2> QED
    BY <2>1, <2>2
<1>8. PICK g : Is(g) /\ Joined(below, args) = g[N]
  BY <1>2, <1>7
<1>9. g[0] \in W[0] /\ \A i \in 1 .. N : g[i - 1] \in W[i - 1] => g[i] \in W[i]
  BY <1>1, <1>3, <1>8
<1>10. g[N] \in W[N]
  <2> HIDE DEF W, Is
  <2> QED
    BY <1>1, <1>3, <1>9, RecursionStays
<1> QED
  BY <1>3, <1>8, <1>10

\* The plan is a sequence of nodes.
LEMMA PostorderIsOfNodes ==
    ASSUME op \in Expressions
    PROVE  Postorder(op) \in Seq(Nodes)
<1> DEFINE N == Len(op.nodes)
           Step(x, n) == Append(x, Joined(x, op.nodes[n].args))
           Is(f) == f = [n \in 0 .. N |-> IF n = 0 THEN <<>> ELSE Step(f[n - 1], n)]
           W == [n \in 0 .. N |-> [1 .. n -> Seq(Nodes)]]
           D == [n \in 1 .. N |-> [x \in W[n - 1] |-> Step(x, n)]]
<1>1. N \in Nat /\ <<>> \in [1 .. 0 -> Seq(Nodes)]
  BY Shape
<1>2. ASSUME NEW n \in 1 .. N, NEW x \in [1 .. n - 1 -> Seq(Nodes)] PROVE Step(x, n) \in [1 .. n -> Seq(Nodes)]
  <2>1. n \in Nodes /\ op.nodes[n].args = Args(n) /\ Nodes = 1 .. N
    BY Shape DEF Args
  <2>2. /\ Len(Args(n)) \in Nat
        /\ \A i \in 1 .. Len(Args(n)) : Args(n)[i] \in Nodes /\ Args(n)[i] < n
    BY <2>1, Shape
  <2>3. \A i \in 1 .. Len(Args(n)) : x[Args(n)[i]] \in Seq(Nodes)
    BY <2>1, <2>2
  <2>4. Joined(x, Args(n)) \in Seq(Nodes)
    BY <2>2, <2>3, JoinedType
  <2>5. ASSUME NEW S, NEW y \in [1 .. n - 1 -> S], NEW e \in S PROVE Append(y, e) \in [1 .. n -> S]
    <3>1. y \in Seq(S) /\ Len(y) = n - 1
      OBVIOUS
    <3>2. Append(y, e) \in Seq(S) /\ Len(Append(y, e)) = n
      BY <3>1
    <3>3. \A q \in Seq(S) : q \in [1 .. Len(q) -> S]
      OBVIOUS
    <3> QED
      BY <3>2, <3>3
  <2> QED
    BY <2>1, <2>4, <2>5
<1>3. Postorder(op) = Joined((CHOOSE f : Is(f))[N], op.exprs)
  BY DEF Postorder
<1> HIDE DEF Step, N
<1>4. /\ 0 \in 0 .. N /\ N \in 0 .. N
      /\ \A n \in 1 .. N : n \in 0 .. N /\ n - 1 \in 0 .. N
  BY <1>1
<1>5. PICK f : Iterates(f, <<>>, D, N)
  <2> HIDE DEF D
  <2> QED
    BY <1>1, RecursionExists
<1>6. /\ f[0] \in W[0]
      /\ \A n \in 1 .. N : f[n - 1] \in W[n - 1] => f[n] = Step(f[n - 1], n) /\ f[n] \in W[n]
  BY <1>1, <1>2, <1>4, <1>5 DEF Iterates
<1>7. \A n \in 0 .. N : f[n] \in W[n]
  <2> HIDE DEF W
  <2> QED
    BY <1>1, <1>6, RecursionStays
<1>8. Is(f)
  <2>1. f = [n \in 0 .. N |-> f[n]]
    BY <1>5 DEF Iterates
  <2>2. ASSUME NEW n \in 0 .. N PROVE f[n] = IF n = 0 THEN <<>> ELSE Step(f[n - 1], n)
    <3>1. n = 0 \/ n \in 1 .. N
      BY <1>1
    <3> QED
      BY <1>4, <1>5, <1>6, <1>7, <3>1 DEF Iterates
  <2> QED
    BY <2>1, <2>2
<1>9. PICK g : Is(g) /\ Postorder(op) = Joined(g[N], op.exprs)
  BY <1>3, <1>8
<1>10. g[0] \in W[0] /\ \A n \in 1 .. N : g[n - 1] \in W[n - 1] => g[n] \in W[n]
  BY <1>1, <1>2, <1>4, <1>9
<1>11. g[N] \in [1 .. N -> Seq(Nodes)]
  <2>1. g[N] \in W[N]
    <3> HIDE DEF W, Is
    <3> QED
      BY <1>1, <1>4, <1>10, RecursionStays
  <2> QED
    BY <1>4, <2>1
<1>12. /\ Nodes = 1 .. N
       /\ Len(op.exprs) \in Nat
       /\ \A i \in 1 .. Len(op.exprs) : op.exprs[i] \in Nodes /\ g[N][op.exprs[i]] \in Seq(Nodes)
  BY <1>11, Shape DEF N
<1> QED
  <2> DEFINE below == g[N]
             exprs == op.exprs
  <2>1. /\ Len(exprs) \in Nat
        /\ \A i \in 1 .. Len(exprs) : exprs[i] \in Nodes /\ below[exprs[i]] \in Seq(Nodes)
    BY <1>12
  <2> HIDE DEF below, exprs
  <2>2. Joined(below, exprs) \in Seq(Nodes)
    BY <2>1, JoinedType
  <2> QED
    BY <1>9, <2>2 DEF below, exprs

-----------------------------------------------------------------------------
\* The invariant holds of every operator before it is walked.
LEMMA InitIInv ==
    ASSUME Init
    PROVE  IInv
<1>1. op \in Expressions /\ known \in BOOLEAN
  BY DEF Init
<1>2. Types
  <2>1. <<>> \in Seq(Steps) /\ counts \in [Nodes -> Nat] /\ guards \in [Nodes -> Seq(Steps)]
    BY DEF Init
  <2>2. todo \in Seq(Calls)
    <3>1. \A i \in DOMAIN op.exprs : [node |-> op.exprs[i], path |-> <<>>] \in Calls
      BY <1>1, <2>1, Shape DEF Calls
    <3>2. DOMAIN op.exprs = 1 .. Len(op.exprs) /\ Len(op.exprs) \in Nat
      BY <1>1, Shape
    <3>3. [i \in DOMAIN op.exprs |-> [node |-> op.exprs[i], path |-> <<>>]] \in Seq(Calls)
      BY <3>1, <3>2
    <3>4. <<>> \in Seq(Calls)
      OBVIOUS
    <3> QED
      BY <3>3, <3>4 DEF Init
  <2>3. plan \in Seq(Nodes) /\ slots \in Seq([node : Nodes, guard : Seq(Steps)])
    <3>1. <<>> \in Seq(Nodes) /\ <<>> \in Seq([node : Nodes, guard : Seq(Steps)])
      OBVIOUS
    <3> QED
      BY <1>1, <3>1, PostorderIsOfNodes DEF Init
  <2> QED
    BY <2>1, <2>2, <2>3 DEF Init, Types
<1>3. UnknownInv
  BY DEF Init, UnknownInv
<1>4. ASSUME known, NEW n \in Range(op.exprs) PROVE Reached(n, <<>>)
  BY <1>4 DEF Init, Reached, Range
<1>5. \A n \in Nodes : counts[n] = 0
  BY DEF Init
<1>6. ReadersInv
  BY <1>4, <1>5 DEF ReadersInv
<1>7. SlotInv
  BY DEF Init, SlotInv
<1>8. PathInv
  <2> SUFFICES ASSUME NEW P, ArePaths(P), NEW c \in Range(todo) PROVE LeadsTo(c.path, c.node, P)
    BY <1>5 DEF PathInv
  <2>1. c.path = <<>> /\ c.node \in Range(op.exprs) /\ c.node \in Nodes
    <3>1. known /\ todo = [i \in DOMAIN op.exprs |-> [node |-> op.exprs[i], path |-> <<>>]]
      BY DEF Init, Range
    <3>2. PICK i \in DOMAIN op.exprs : c = [node |-> op.exprs[i], path |-> <<>>]
      BY <3>1 DEF Range
    <3> QED
      BY <1>1, <3>2, Shape DEF Range
  <2> QED
    BY <2>1 DEF ArePaths, LeadsTo
<1> QED
  BY <1>2, <1>3, <1>6, <1>7, <1>8 DEF IInv

\* What the steps that plan a node leave alone.
LEMMA PlanKeepsWalk ==
    ASSUME Types, ReadersInv, PathInv, UNCHANGED <<op, known, todo, counts, guards>>
    PROVE  ReadersInv' /\ PathInv'
<1>1. ReadersInv'
  BY SameOperator DEF ReadersInv, Reached
<1>2. PathInv'
  BY SameOperator DEF PathInv, LeadsTo
<1> QED
  BY <1>1, <1>2

\* A slot for a node that was walked, behind the branch walk left on it, keeps
\* the invariant; so does one for a scalar, behind none.
LEMMA SlotKeepsIInv ==
    ASSUME IInv, NEW n \in Nodes, NEW guard \in Seq(Steps), Slot(n, guard), Opaque \notin Range(guard),
           IF Kind(n) = "toscalar" THEN guard = <<>> ELSE counts[n] > 0 /\ guard = guards[n]
    PROVE  IInv'
<1> DEFINE s == [node |-> n, guard |-> guard]
<1>1. /\ todo = <<>> /\ plan # <<>>
      /\ slots' = Append(slots, s)
      /\ plan' = Tail(plan)
      /\ UNCHANGED <<op, taken, known, todo, counts, guards>>
  BY DEF Slot
<1>2. Types'
  <2>1. s \in [node : Nodes, guard : Seq(Steps)]
    OBVIOUS
  <2>2. slots' \in Seq([node : Nodes, guard : Seq(Steps)]) /\ plan' \in Seq(Nodes)
    BY <1>1, <2>1 DEF IInv, Types
  <2> QED
    BY <1>1, <2>2, SameOperator DEF IInv, Types
<1>3. UnknownInv'
  BY <1>1 DEF IInv, UnknownInv
<1>4. SlotInv'
  <2>1. \A i \in DOMAIN slots' : slots'[i] = s \/ (i \in DOMAIN slots /\ slots'[i] = slots[i])
    <3>1. slots \in Seq([node : Nodes, guard : Seq(Steps)])
      BY DEF IInv, Types
    <3> QED
      BY <1>1, <3>1
  <2>2. ASSUME NEW i \in DOMAIN slots'
        PROVE  /\ Opaque \notin Range(slots'[i].guard)
               /\ IF Kind(slots'[i].node) = "toscalar" THEN slots'[i].guard = <<>>
                  ELSE counts[slots'[i].node] > 0 /\ slots'[i].guard = guards[slots'[i].node]
    BY <2>1 DEF IInv, SlotInv
  <2> QED
    BY <1>1, <2>2, SameOperator DEF SlotInv, Opaque
<1> QED
  BY <1>1, <1>2, <1>3, <1>4, PlanKeepsWalk DEF IInv

\* Every step keeps the invariant.
LEMMA NextIInv ==
    ASSUME IInv, [Next]_vars
    PROVE  IInv'
<1>1. CASE Walk
  <2>1. todo # <<>> /\ slots' = slots /\ known' = known /\ plan' = plan
    BY <1>1 DEF Walk
  <2>2. slots = <<>>
    <3>1. slots \in Seq([node : Nodes, guard : Seq(Steps)])
      BY DEF IInv, Types
    <3>2. slots # <<>> => 1 \in DOMAIN slots
      BY <3>1
    <3> QED
      BY <2>1, <3>2 DEF IInv, SlotInv
  <2>3. UnknownInv' /\ SlotInv'
    BY <2>1, <2>2 DEF IInv, UnknownInv, SlotInv
  <2> QED
    BY <1>1, <2>3, WalkKeepsTypes, WalkKeepsReaders, WalkKeepsPaths DEF IInv
<1>2. ASSUME NEW n \in Nodes, BindScalar(n) PROVE IInv'
  <2>1. <<>> \in Seq(Steps) /\ Opaque \notin Range(<<>>)
    BY DEF Range
  <2> QED
    BY <1>2, <2>1, SlotKeepsIInv DEF BindScalar
<1>3. ASSUME NEW n \in Nodes, BindRepeat(n) PROVE IInv'
  <2>1. guards[n] \in Seq(Steps) /\ counts[n] > 0
    BY <1>3 DEF BindRepeat, IInv, Types
  <2>2. Opaque \notin Range(guards[n])
    BY <1>3 DEF BindRepeat, Rebuildable
  <2> QED
    BY <1>3, <2>1, <2>2, SlotKeepsIInv DEF BindRepeat
<1>4. ASSUME NEW n \in Nodes, LeaveInline(n) PROVE IInv'
  <2>1. todo = <<>> /\ plan # <<>> /\ plan' = Tail(plan)
        /\ UNCHANGED <<op, taken, known, todo, counts, guards, slots>>
    BY <1>4 DEF LeaveInline
  <2>2. Types' /\ UnknownInv'
    BY <2>1, SameOperator DEF IInv, Types, UnknownInv
  <2>3. SlotInv'
    BY <2>1, SameOperator DEF IInv, SlotInv, Opaque
  <2> QED
    BY <2>1, <2>2, <2>3, PlanKeepsWalk DEF IInv
<1>5. CASE UNCHANGED vars
  <2>1. UNCHANGED <<op, taken, known, todo, counts, guards, plan, slots>>
    BY <1>5 DEF vars
  <2>2. Types' /\ UnknownInv'
    BY <2>1, SameOperator DEF IInv, Types, UnknownInv
  <2>3. SlotInv'
    BY <2>1, SameOperator DEF IInv, SlotInv, Opaque
  <2> QED
    BY <2>1, <2>2, <2>3, PlanKeepsWalk DEF IInv
<1> QED
  BY <1>1, <1>2, <1>3, <1>4, <1>5 DEF Next

\* bind_repeats keeps the inductive invariant.
THEOREM Invariance == Spec => []IInv
<1> QED
  BY InitIInv, NextIInv, PTL DEF Spec

\* Counts, guards, plan and slots are about nodes of the operator throughout.
THEOREM TypeCorrect == Spec => []TypeOK
<1>1. IInv => TypeOK
  <2> SUFFICES ASSUME IInv PROVE TypeOK
    OBVIOUS
  <2>1. \A i \in DOMAIN todo : todo[i].node \in Nodes
    <3>1. todo \in Seq(Calls)
      BY DEF IInv, Types
    <3>2. \A i \in DOMAIN todo : todo[i] \in Calls
      BY <3>1
    <3> QED
      BY <3>2 DEF Calls
  <2>2. \A n \in Nodes : guards[n] \in Seq([owner : 0 .. Len(op.nodes), index : Nat])
    BY DEF IInv, Types, Steps
  <2>3. Range(plan) \subseteq Nodes
    BY DEF IInv, Types, Range
  <2>4. \A i \in DOMAIN slots : slots[i].node \in Nodes
    <3>1. slots \in Seq([node : Nodes, guard : Seq(Steps)])
      BY DEF IInv, Types
    <3>2. \A S : \A s \in Seq(S) : \A i \in DOMAIN s : s[i] \in S
      OBVIOUS
    <3>3. \A i \in DOMAIN slots : slots[i] \in [node : Nodes, guard : Seq(Steps)]
      BY <3>1, <3>2
    <3> QED
      BY <3>3
  <2> QED
    BY <2>1, <2>2, <2>3, <2>4 DEF IInv, Types, TypeOK
<1> QED
  BY <1>1, Invariance, PTL

\* When the walk of _reach is over, the branch it left on a node is one that
\* every reader of the node is behind, whatever the order of the paths.
THEOREM ReadersAreBehindTheGuard == Spec => []EveryReaderIsBehindTheGuard
<1>1. IInv => EveryReaderIsBehindTheGuard
  <2> SUFFICES ASSUME IInv, todo = <<>>, NEW n \in Nodes, NEW i \in DOMAIN Args(n), counts[n] > 0
               PROVE  IsPrefix(guards[Args(n)[i]], Below(guards[n], n, i))
    BY DEF EveryReaderIsBehindTheGuard
  <2>1. Reached(Args(n)[i], Below(guards[n], n, i))
    BY DEF IInv, ReadersInv
  <2>2. Range(todo) = {}
    BY DEF Range
  <2> QED
    BY <2>1, <2>2 DEF Reached
<1> QED
  BY <1>1, Invariance, PTL

-----------------------------------------------------------------------------
\* The arm a CASE takes is the first whose predicate holds, else the last.
LEMMA BranchFacts ==
    ASSUME NEW args, NEW value, Len(args) \in Nat, Len(args) % 2 = 1
    PROVE  LET b == Branch(args, value)
           IN  /\ b \in 1 .. Len(args)
               /\ \A j \in 1 .. b - 1 : j % 2 = 1 /\ value[args[j]] = "true" => j = b - 1
               /\ b % 2 = 1 => b = Len(args)
               /\ b % 2 = 0 => value[args[b - 1]] = "true"
<1> DEFINE N == Len(args)
           holds == {j \in 1 .. N - 1 : j % 2 = 1 /\ value[args[j]] = "true"}
<1>1. Branch(args, value) = IF holds = {} THEN N ELSE 1 + CHOOSE j \in holds : \A h \in holds : j <= h
  BY DEF Branch
<1>2. CASE holds = {}
  <2>1. \A j \in 1 .. N - 1 : ~ (j % 2 = 1 /\ value[args[j]] = "true")
    BY <1>2
  <2> QED
    BY <1>1, <1>2, <2>1
<1>3. CASE holds # {}
  <2>1. holds \in SUBSET Nat
    OBVIOUS
  <2>2. PICK j \in holds : (\A h \in holds : j <= h) /\ Branch(args, value) = 1 + j
    <3> HIDE DEF holds
    <3>1. \E j \in holds : \A h \in holds : j <= h
      BY <1>3, <2>1, LeastNatural
    <3> QED
      BY <1>1, <1>3, <3>1
  <2>3. /\ j \in 1 .. N - 1 /\ j % 2 = 1 /\ value[args[j]] = "true"
        /\ (1 + j) % 2 = 0 /\ (1 + j) - 1 = j
    OBVIOUS
  <2>4. ASSUME NEW h \in 1 .. j, h % 2 = 1, value[args[h]] = "true" PROVE h = j
    <3>1. h \in holds
      BY <2>3, <2>4
    <3> QED
      BY <2>2, <2>3, <3>1
  <2> QED
    BY <2>2, <2>3, <2>4
<1> QED
  BY <1>2, <1>3

\* Only arguments are evaluated.
LEMMA EvaluatedAreArgs ==
    ASSUME op \in Expressions, NEW n \in Nodes, NEW value
    PROVE  Evaluated(n, value) \subseteq DOMAIN Args(n)
<1>1. CASE Kind(n) = "case"
  <2>1. Branch(Args(n), value) \in 1 .. Len(Args(n))
    BY <1>1, Shape, BranchFacts
  <2> QED
    BY <1>1, <2>1, Shape DEF Evaluated
<1>2. CASE Kind(n) # "case"
  BY <1>2 DEF Evaluated
<1> QED
  BY <1>1, <1>2

\* What a node evaluates to rests only on the arguments that it evaluates.
LEMMA EvaluatedAgree ==
    ASSUME op \in Expressions, NEW n \in Nodes, NEW left, NEW right,
           \A j \in Evaluated(n, left) : right[Args(n)[j]] = left[Args(n)[j]]
    PROVE  /\ Evaluated(n, right) = Evaluated(n, left)
           /\ Kind(n) = "case" => Branch(Args(n), right) = Branch(Args(n), left)
<1> DEFINE args == Args(n)
           N == Len(args)
<1>1. N \in Nat /\ DOMAIN args = 1 .. N
  BY Shape
<1>2. CASE Kind(n) = "case"
  <2> DEFINE b == Branch(args, left)
             c == Branch(args, right)
  <2>1. N % 2 = 1
    BY <1>2, Shape
  <2>2. /\ b \in 1 .. N
        /\ \A j \in 1 .. b - 1 : j % 2 = 1 /\ left[args[j]] = "true" => j = b - 1
        /\ b % 2 = 1 => b = N
        /\ b % 2 = 0 => left[args[b - 1]] = "true"
    BY <1>1, <2>1, BranchFacts
  <2>3. /\ c \in 1 .. N
        /\ \A j \in 1 .. c - 1 : j % 2 = 1 /\ right[args[j]] = "true" => j = c - 1
        /\ c % 2 = 1 => c = N
        /\ c % 2 = 0 => right[args[c - 1]] = "true"
    BY <1>1, <2>1, BranchFacts
  <2>4. /\ Evaluated(n, left) = {b} \cup {j \in 1 .. b : j % 2 = 1}
        /\ Evaluated(n, right) = {c} \cup {j \in 1 .. c : j % 2 = 1}
    BY <1>2 DEF Evaluated
  <2> HIDE DEF b, c, args, N
  <2>5. \A j \in 1 .. b : j % 2 = 1 => right[args[j]] = left[args[j]]
    BY <2>4 DEF args
  <2>6. ~ (c < b)
    <3> SUFFICES ASSUME c < b PROVE FALSE
      OBVIOUS
    <3>1. c % 2 = 0
      BY <2>2, <2>3
    <3>2. c - 1 \in 1 .. b - 1 /\ c - 1 \in 1 .. b /\ (c - 1) % 2 = 1 /\ c - 1 # b - 1
      BY <2>2, <2>3, <3>1
    <3>3. left[args[c - 1]] = "true"
      BY <2>3, <2>5, <3>1, <3>2
    <3> QED
      BY <2>2, <3>2, <3>3
  <2>7. ~ (b < c)
    <3> SUFFICES ASSUME b < c PROVE FALSE
      OBVIOUS
    <3>1. b % 2 = 0
      BY <2>2, <2>3
    <3>2. b - 1 \in 1 .. c - 1 /\ b - 1 \in 1 .. b /\ (b - 1) % 2 = 1 /\ c - 1 # b - 1
      BY <2>2, <2>3, <3>1
    <3>3. right[args[b - 1]] = "true"
      BY <2>2, <2>5, <3>1, <3>2
    <3> QED
      BY <2>3, <3>2, <3>3
  <2>8. b = c
    BY <2>2, <2>3, <2>6, <2>7
  <2> QED
    BY <2>4, <2>8 DEF b, c, args
<1>3. CASE Kind(n) = "coalesce"
  <2>1. \A value : Evaluated(n, value) = {j \in 1 .. N : \A i \in 1 .. j - 1 : value[args[i]] = "null"}
    BY <1>1, <1>3 DEF Evaluated
  <2>2. \A j \in Evaluated(n, left) : \A i \in 1 .. j - 1 : i \in Evaluated(n, left)
    BY <1>1, <2>1
  <2>3. ASSUME NEW j \in Evaluated(n, left) PROVE j \in Evaluated(n, right)
    <3>1. j \in 1 .. N /\ \A i \in 1 .. j - 1 : left[args[i]] = "null"
      BY <2>1
    <3>2. \A i \in 1 .. j - 1 : right[args[i]] = "null"
      BY <2>2, <3>1
    <3> QED
      BY <2>1, <3>1, <3>2
  <2>4. ASSUME NEW j \in Evaluated(n, right), j \notin Evaluated(n, left) PROVE FALSE
    <3> DEFINE bad == {i \in 1 .. j - 1 : left[args[i]] # "null"}
    <3>1. j \in 1 .. N /\ \A i \in 1 .. j - 1 : right[args[i]] = "null"
      BY <2>1
    <3>2. bad \in SUBSET Nat /\ bad # {}
      BY <2>1, <2>4, <3>1
    <3>3. PICK i \in bad : \A h \in bad : i <= h
      <4> HIDE DEF bad
      <4> QED
        BY <3>2, LeastNatural
    <3>4. \A h \in 1 .. i - 1 : left[args[h]] = "null"
      BY <3>1, <3>3
    <3>5. i \in Evaluated(n, left)
      BY <1>1, <2>1, <3>1, <3>3, <3>4
    <3> QED
      BY <3>1, <3>3, <3>5
  <2> QED
    BY <1>3, <2>3, <2>4
<1>4. CASE Kind(n) \notin {"case", "coalesce"}
  BY <1>4 DEF Evaluated
<1> QED
  BY <1>2, <1>3, <1>4

\* A node's value depends on the arguments it evaluates only.
LEMMA CombineAgrees ==
    ASSUME op \in Expressions, NEW n \in Nodes, NEW row, NEW left, NEW right,
           \A j \in Evaluated(n, left) : right[Args(n)[j]] = left[Args(n)[j]]
    PROVE  Combine(row, n, right) = Combine(row, n, left)
<1>1. /\ Evaluated(n, right) = Evaluated(n, left)
      /\ Kind(n) = "case" => Branch(Args(n), right) = Branch(Args(n), left)
  BY EvaluatedAgree
<1>2. {right[Args(n)[j]] : j \in Evaluated(n, right)} = {left[Args(n)[j]] : j \in Evaluated(n, left)}
  BY <1>1
<1>3. Kind(n) = "case" => Branch(Args(n), left) \in Evaluated(n, left)
  BY DEF Evaluated
<1> DEFINE Result(value, seen) ==
             IF Unset \in seen THEN Unset
             ELSE CASE Kind(n) = "case" -> value[Args(n)[Branch(Args(n), value)]]
                    [] Kind(n) = "coalesce" ->
                         IF seen = {"null"} THEN "null" ELSE CHOOSE v \in seen : v # "null"
                    [] OTHER -> row[n]
           seen == {left[Args(n)[j]] : j \in Evaluated(n, left)}
<1>4. Combine(row, n, left) = Result(left, seen) /\ Combine(row, n, right) = Result(right, seen)
  <2>1. Combine(row, n, right) = Result(right, {right[Args(n)[j]] : j \in Evaluated(n, right)})
    BY Zenon DEF Combine
  <2>2. Combine(row, n, left) = Result(left, seen)
    BY Zenon DEF Combine
  <2> HIDE DEF Result
  <2> QED
    BY <1>2, <2>1, <2>2
<1> HIDE DEF seen
<1>5. CASE Unset \in seen
  BY <1>4, <1>5
<1>6. CASE Unset \notin seen /\ Kind(n) = "case"
  BY <1>1, <1>3, <1>4, <1>6
<1>7. CASE Unset \notin seen /\ Kind(n) # "case"
  BY <1>4, <1>7
<1> QED
  BY <1>5, <1>6, <1>7

\* What a row's node is, given the nodes before it.
ValueOf(row, columns, value, n) ==
    IF n \in DOMAIN columns THEN columns[n] ELSE Combine(row, n, value)

\* Values is the end of a recursion over the nodes.
LEMMA ValuesRecursion ==
    ASSUME op \in Expressions, NEW row, NEW columns
    PROVE  \E f : /\ f[0] = <<>>
                  /\ \A n \in Nodes : f[n] = With(f[n - 1], n, ValueOf(row, columns, f[n - 1], n))
                  /\ Values(row, columns) = f[Len(op.nodes)]
<1> DEFINE N == Len(op.nodes)
           Step(x, n) == With(x, n, ValueOf(row, columns, x, n))
           Is(f, m) == f = [n \in 0 .. m |-> IF n = 0 THEN <<>> ELSE Step(f[n - 1], n)]
           T == {m \in 0 .. N : \E f : Is(f, m)}
<1>1. N \in Nat /\ Nodes = 1 .. N
  BY Shape
<1>2. Values(row, columns) = (CHOOSE f : Is(f, N))[N]
  BY DEF Values, ValueOf
<1> HIDE DEF Step, N
<1>3. 0 \in T
  <2>1. Is([n \in 0 .. 0 |-> <<>>], 0)
    OBVIOUS
  <2> HIDE DEF Is
  <2> QED
    BY <1>1, <2>1
<1>4. ASSUME NEW m \in 0 .. N, m < N, m \in T PROVE m + 1 \in T
  <2>1. PICK f : Is(f, m)
    BY <1>4
  <2> DEFINE g == [n \in 0 .. m + 1 |-> IF n <= m THEN f[n] ELSE Step(f[m], m + 1)]
  <2>2. ASSUME NEW n \in 0 .. m + 1 PROVE g[n] = IF n = 0 THEN <<>> ELSE Step(g[n - 1], n)
    <3>1. CASE n <= m
      BY <2>1, <3>1
    <3>2. CASE n = m + 1
      BY <2>1, <3>2
    <3> QED
      BY <3>1, <3>2
  <2>3. Is(g, m + 1)
    BY <2>2
  <2>4. m + 1 \in 0 .. N
    BY <1>1, <1>4
  <2> HIDE DEF Is
  <2> QED
    BY <2>3, <2>4
<1> HIDE DEF T
<1>5. N \in T
  <2>1. 0 .. N \subseteq T
    BY <1>1, <1>3, <1>4, UpTo
  <2> QED
    BY <1>1, <2>1
<1>6. PICK f : Is(f, N) /\ Values(row, columns) = f[N]
  BY <1>2, <1>5 DEF T
<1>7. f[0] = <<>> /\ \A n \in Nodes : f[n] = Step(f[n - 1], n)
  BY <1>1, <1>6
<1> QED
  BY <1>6, <1>7 DEF Step, N

\* A bound node is its column, any other is combined from its arguments.
LEMMA ValuesEquation ==
    ASSUME op \in Expressions, NEW row, NEW columns, NEW n \in Nodes
    PROVE  Values(row, columns)[n] = ValueOf(row, columns, Values(row, columns), n)
<1> DEFINE N == Len(op.nodes)
<1>1. N \in Nat /\ Nodes = 1 .. N
  BY Shape
<1>2. PICK f : /\ f[0] = <<>>
               /\ \A m \in Nodes : f[m] = With(f[m - 1], m, ValueOf(row, columns, f[m - 1], m))
               /\ Values(row, columns) = f[N]
  BY ValuesRecursion
<1> DEFINE T == {m \in 0 .. N : /\ DOMAIN f[m] = 1 .. m
                                /\ \A k \in 1 .. m : f[m][k] = ValueOf(row, columns, f[k - 1], k)}
<1> HIDE DEF N
<1>3. 0 \in T
  BY <1>1, <1>2
<1>4. ASSUME NEW m \in 0 .. N, m < N, m \in T PROVE m + 1 \in T
  <2> DEFINE v == ValueOf(row, columns, f[m], m + 1)
  <2>1. f[m + 1] = With(f[m], m + 1, v)
    <3>1. m + 1 \in Nodes /\ (m + 1) - 1 = m
      BY <1>1, <1>4
    <3> QED
      BY <1>2, <3>1
  <2>2. /\ DOMAIN f[m] = 1 .. m
        /\ \A k \in 1 .. m : f[m][k] = ValueOf(row, columns, f[k - 1], k)
    BY <1>4
  <2> HIDE DEF v
  <2>3. /\ DOMAIN f[m + 1] = 1 .. m + 1
        /\ f[m + 1][m + 1] = v
        /\ \A k \in 1 .. m : f[m + 1][k] = f[m][k]
    BY <1>1, <2>1, <2>2 DEF With
  <2>4. \A k \in 1 .. m + 1 : f[m + 1][k] = ValueOf(row, columns, f[k - 1], k)
    <3> TAKE k \in 1 .. m + 1
    <3>1. CASE k \in 1 .. m
      BY <2>2, <2>3, <3>1
    <3>2. CASE k = m + 1
      <4>1. k - 1 = m
        BY <1>1, <3>2
      <4> QED
        BY <2>3, <3>2, <4>1 DEF v
    <3> QED
      BY <3>1, <3>2
  <2> QED
    BY <1>1, <1>4, <2>3, <2>4
<1> HIDE DEF T
<1>5. 0 .. N \subseteq T
  BY <1>1, <1>3, <1>4, UpTo
<1>6. n - 1 \in T /\ N \in T /\ n \in 1 .. N
  BY <1>1, <1>5
<1>7. f[N][n] = ValueOf(row, columns, f[n - 1], n)
  BY <1>6 DEF T
<1>8. \A k \in 1 .. n - 1 : f[N][k] = f[n - 1][k]
  <2> TAKE k \in 1 .. n - 1
  <2>1. k \in 1 .. N
    BY <1>1
  <2> QED
    BY <1>6, <2>1 DEF T
<1>9. Combine(row, n, f[N]) = Combine(row, n, f[n - 1])
  <2>1. \A j \in Evaluated(n, f[n - 1]) : f[N][Args(n)[j]] = f[n - 1][Args(n)[j]]
    <3> TAKE j \in Evaluated(n, f[n - 1])
    <3>1. Args(n)[j] \in 1 .. n - 1
      BY EvaluatedAreArgs, Shape
    <3> QED
      BY <1>8, <3>1
  <2> QED
    BY <2>1, CombineAgrees
<1> QED
  BY <1>2, <1>7, <1>9 DEF ValueOf

\* The columns of the first i slots.
ColumnsAfter(row, columns, i) ==
    LET value == Values(row, columns)
        s == slots[i]
        computed == Reaches(s.guard, value) /\ ~Shadowed(i)
    IN  With(columns, s.node, IF computed THEN value[s.node] ELSE Unset)

\* SlotColumns is the end of a recursion over the slots.
LEMMA SlotColumnsRecursion ==
    ASSUME Len(slots) \in Nat, NEW row
    PROVE  \E f : /\ f[0] = <<>>
                  /\ \A i \in 1 .. Len(slots) : f[i] = ColumnsAfter(row, f[i - 1], i)
                  /\ SlotColumns(row) = f[Len(slots)]
<1> DEFINE N == Len(slots)
           Step(x, i) == ColumnsAfter(row, x, i)
           Is(f, m) == f = [n \in 0 .. m |-> IF n = 0 THEN <<>> ELSE Step(f[n - 1], n)]
           T == {m \in 0 .. N : \E f : Is(f, m)}
<1>1. N \in Nat
  OBVIOUS
<1>2. SlotColumns(row) = (CHOOSE f : Is(f, N))[N]
  BY DEF SlotColumns, ColumnsAfter
<1> HIDE DEF Step, N
<1>3. 0 \in T
  <2>1. Is([n \in 0 .. 0 |-> <<>>], 0)
    OBVIOUS
  <2> HIDE DEF Is
  <2> QED
    BY <1>1, <2>1
<1>4. ASSUME NEW m \in 0 .. N, m < N, m \in T PROVE m + 1 \in T
  <2>1. PICK f : Is(f, m)
    BY <1>4
  <2> DEFINE g == [n \in 0 .. m + 1 |-> IF n <= m THEN f[n] ELSE Step(f[m], m + 1)]
  <2>2. ASSUME NEW n \in 0 .. m + 1 PROVE g[n] = IF n = 0 THEN <<>> ELSE Step(g[n - 1], n)
    <3>1. CASE n <= m
      BY <2>1, <3>1
    <3>2. CASE n = m + 1
      BY <2>1, <3>2
    <3> QED
      BY <3>1, <3>2
  <2>3. Is(g, m + 1)
    BY <2>2
  <2>4. m + 1 \in 0 .. N
    BY <1>1, <1>4
  <2> HIDE DEF Is
  <2> QED
    BY <2>3, <2>4
<1> HIDE DEF T
<1>5. N \in T
  <2>1. 0 .. N \subseteq T
    BY <1>1, <1>3, <1>4, UpTo
  <2> QED
    BY <1>1, <2>1
<1>6. PICK f : Is(f, N) /\ SlotColumns(row) = f[N]
  BY <1>2, <1>5 DEF T
<1>7. f[0] = <<>> /\ \A n \in 1 .. N : f[n] = Step(f[n - 1], n)
  BY <1>1, <1>6
<1> QED
  BY <1>6, <1>7 DEF Step, N

\* Exactly what a row evaluates, from the expressions down.
LEMMA InlinedEquation ==
    ASSUME op \in Expressions, NEW row
    PROVE  \A n \in Nodes :
              n \in Inlined(row) <=>
                  \/ n \in Range(op.exprs)
                  \/ \E m \in Nodes : m \in Inlined(row)
                        /\ \E j \in Evaluated(m, Values(row, <<>>)) : Args(m)[j] = n
<1> DEFINE N == Len(op.nodes)
           value == Values(row, <<>>)
           Reads(m, n) == \E j \in Evaluated(m, value) : Args(m)[j] = n
           Body(f, n) == n \in Range(op.exprs) \/ \E m \in n + 1 .. N : f[m] /\ Reads(m, n)
           Is(f) == f = [n \in Nodes |-> Body(f, n)]
           T == {n \in 1 .. N : \E f : \A k \in n .. N : f[k] = Body(f, k)}
<1>1. N \in Nat /\ Nodes = 1 .. N
  BY Shape
<1>2. Inlined(row) = {n \in Nodes : (CHOOSE f : Is(f))[n]}
  BY DEF Inlined
<1>3. \A m \in Nodes, n \in Nodes : Reads(m, n) => n < m
  BY EvaluatedAreArgs, Shape
<1> HIDE DEF N, Reads
<1>4. ASSUME NEW f, NEW g, NEW n \in 1 .. N, \A m \in n + 1 .. N : f[m] = g[m]
      PROVE  Body(f, n) = Body(g, n)
  BY <1>4
<1> HIDE DEF Body
<1>5. ASSUME NEW n \in 1 .. N, \A m \in n + 1 .. N : m \in T PROVE n \in T
  <2>1. PICK g : \A k \in n + 1 .. N : g[k] = Body(g, k)
    <3>1. CASE n = N
      BY <1>1, <3>1
    <3>2. CASE n # N
      <4>1. n + 1 \in n + 1 .. N
        BY <1>1, <3>2
      <4> QED
        BY <1>5, <4>1
    <3> QED
      BY <3>1, <3>2
  <2> DEFINE h == [k \in 1 .. N |-> IF k = n THEN Body(g, n) ELSE g[k]]
  <2>2. \A k \in n .. N : \A m \in k + 1 .. N : h[m] = g[m]
    BY <1>1
  <2>3. ASSUME NEW k \in n .. N PROVE h[k] = Body(h, k)
    <3>1. k \in 1 .. N
      BY <1>1
    <3>2. Body(h, k) = Body(g, k)
      BY <1>4, <2>2, <3>1
    <3>3. k = n \/ k \in n + 1 .. N
      BY <1>1
    <3> QED
      BY <2>1, <3>1, <3>2, <3>3
  <2> HIDE DEF h
  <2> QED
    BY <2>3
<1> HIDE DEF T
<1>6. 1 .. N \subseteq T
  BY <1>1, <1>5, FromAbove
<1>7. \E f : Is(f)
  <2>1. PICK g : \A k \in 1 .. N : g[k] = Body(g, k)
    <3>1. CASE N = 0
      BY <3>1
    <3>2. CASE N # 0
      <4>1. 1 \in T
        BY <1>1, <1>6, <3>2
      <4> QED
        BY <4>1 DEF T
    <3> QED
      BY <3>1, <3>2
  <2> DEFINE f == [n \in Nodes |-> g[n]]
  <2>2. \A n \in 1 .. N : \A m \in n + 1 .. N : f[m] = g[m]
    BY <1>1
  <2>3. \A n \in Nodes : f[n] = Body(f, n)
    BY <1>1, <1>4, <2>1, <2>2
  <2>4. f = [n \in Nodes |-> f[n]]
    OBVIOUS
  <2> HIDE DEF f
  <2>5. f = [n \in Nodes |-> Body(f, n)]
    BY <2>3, <2>4
  <2> QED
    BY <2>5
<1>8. PICK f : Is(f) /\ Inlined(row) = {n \in Nodes : f[n]}
  BY <1>2, <1>7
<1>9. \A n \in Nodes : f[n] = Body(f, n)
  BY <1>8
<1>10. \A n \in Nodes : n \in Inlined(row) <=> Body(f, n)
  BY <1>8, <1>9
<1>11. \A n \in Nodes : Body(f, n) <=>
          n \in Range(op.exprs) \/ \E m \in Nodes : m \in Inlined(row) /\ Reads(m, n)
  <2> TAKE n \in Nodes
  <2>1. \A m \in Nodes : m \in Inlined(row) <=> f[m]
    BY <1>8
  <2>2. \A m \in n + 1 .. N : m \in Nodes
    BY <1>1
  <2>3. \A m \in Nodes : Reads(m, n) => m \in n + 1 .. N
    BY <1>1, <1>3
  <2> QED
    BY <2>1, <2>2, <2>3 DEF Body
<1> QED
  BY <1>10, <1>11 DEF Reads

\* Paths computes the paths: one through each reader, and the empty one of an
\* expression.
LEMMA PathsAreThePaths ==
    ASSUME op \in Expressions
    PROVE  ArePaths([n \in Nodes |-> Paths(n)])
<1> DEFINE N == Len(op.nodes)
           To(n, p) == {j \in DOMAIN Args(p) : Args(p)[j] = n}
           Body(f, n) == {path \in {<<>>} : n \in Range(op.exprs)}
                         \cup UNION {{Below(path, p, i) : path \in f[p], i \in To(n, p)} : p \in n + 1 .. N}
           Is(f) == f = [n \in Nodes |-> Body(f, n)]
           T == {n \in 1 .. N : \E f : \A k \in n .. N : f[k] = Body(f, k)}
<1>1. N \in Nat /\ Nodes = 1 .. N
  BY Shape
<1>2. \A n \in Nodes : Paths(n) = (CHOOSE f : Is(f))[n]
  BY DEF Paths
<1>3. ASSUME NEW f, NEW n \in Nodes, NEW path
      PROVE  path \in Body(f, n) <=>
                \/ path = <<>> /\ n \in Range(op.exprs)
                \/ \E p \in n + 1 .. N : \E i \in To(n, p) : \E q \in f[p] : path = Below(q, p, i)
  OBVIOUS
<1>4. \A n \in Nodes, p \in Nodes : \A i \in To(n, p) : n < p
  BY Shape
<1> HIDE DEF N, Body
<1>5. ASSUME NEW f, NEW g, NEW n \in 1 .. N, \A m \in n + 1 .. N : f[m] = g[m]
      PROVE  Body(f, n) = Body(g, n)
  BY <1>5 DEF Body
<1>6. ASSUME NEW n \in 1 .. N, \A m \in n + 1 .. N : m \in T PROVE n \in T
  <2>1. PICK g : \A k \in n + 1 .. N : g[k] = Body(g, k)
    <3>1. CASE n = N
      BY <1>1, <3>1
    <3>2. CASE n # N
      <4>1. n + 1 \in n + 1 .. N
        BY <1>1, <3>2
      <4> QED
        BY <1>6, <4>1
    <3> QED
      BY <3>1, <3>2
  <2> DEFINE h == [k \in 1 .. N |-> IF k = n THEN Body(g, n) ELSE g[k]]
  <2>2. \A k \in n .. N : \A m \in k + 1 .. N : h[m] = g[m]
    BY <1>1
  <2>3. ASSUME NEW k \in n .. N PROVE h[k] = Body(h, k)
    <3>1. k \in 1 .. N
      BY <1>1
    <3>2. Body(h, k) = Body(g, k)
      BY <1>5, <2>2, <3>1
    <3>3. k = n \/ k \in n + 1 .. N
      BY <1>1
    <3> QED
      BY <2>1, <3>1, <3>2, <3>3
  <2> HIDE DEF h
  <2> QED
    BY <2>3
<1> HIDE DEF T
<1>7. 1 .. N \subseteq T
  BY <1>1, <1>6, FromAbove
<1>8. \E f : Is(f)
  <2>1. PICK g : \A k \in 1 .. N : g[k] = Body(g, k)
    <3>1. CASE N = 0
      BY <3>1
    <3>2. CASE N # 0
      <4>1. 1 \in T
        BY <1>1, <1>7, <3>2
      <4> QED
        BY <4>1 DEF T
    <3> QED
      BY <3>1, <3>2
  <2> DEFINE f == [n \in Nodes |-> g[n]]
  <2>2. \A n \in 1 .. N : \A m \in n + 1 .. N : f[m] = g[m]
    BY <1>1
  <2>3. \A n \in Nodes : f[n] = Body(f, n)
    BY <1>1, <1>5, <2>1, <2>2
  <2>4. f = [n \in Nodes |-> f[n]]
    OBVIOUS
  <2> HIDE DEF f
  <2>5. f = [n \in Nodes |-> Body(f, n)]
    BY <2>3, <2>4
  <2> QED
    BY <2>5
<1>9. PICK f : Is(f) /\ \A n \in Nodes : Paths(n) = f[n]
  BY <1>2, <1>8
<1>10. \A n \in Nodes : f[n] = Body(f, n) /\ Paths(n) = f[n]
  BY <1>9
<1> HIDE DEF Is
<1>11. ASSUME NEW n \in Nodes, NEW path
       PROVE  path \in Paths(n) <=>
                  \/ path = <<>> /\ n \in Range(op.exprs)
                  \/ \E p \in Nodes : \E i \in DOMAIN Args(p) :
                        Args(p)[i] = n /\ \E q \in Paths(p) : path = Below(q, p, i)
  <2>1. path \in Paths(n) <=>
           \/ path = <<>> /\ n \in Range(op.exprs)
           \/ \E p \in n + 1 .. N : \E i \in To(n, p) : \E q \in f[p] : path = Below(q, p, i)
    BY <1>3, <1>10
  <2>2. \A p \in n + 1 .. N : p \in Nodes
    BY <1>1
  <2>3. \A p \in Nodes : \A i \in To(n, p) : p \in n + 1 .. N
    BY <1>1, <1>4
  <2> QED
    BY <1>10, <2>1, <2>2, <2>3
<1> DEFINE U == {n \in Nodes : Paths(n) \subseteq Seq(Steps)}
<1>12. ASSUME NEW n \in 1 .. N, \A p \in n + 1 .. N : p \in U PROVE n \in U
  <2> SUFFICES ASSUME NEW path \in Paths(n) PROVE path \in Seq(Steps)
    BY <1>1
  <2>1. CASE path = <<>>
    BY <2>1
  <2>2. CASE path # <<>>
    <3>1. PICK p \in Nodes : \E i \in DOMAIN Args(p) :
             Args(p)[i] = n /\ \E q \in Paths(p) : path = Below(q, p, i)
      BY <1>1, <1>11, <2>2
    <3>2. p \in n + 1 .. N
      BY <1>1, <1>4, <3>1
    <3> QED
      BY <1>12, <3>1, <3>2, BelowIsPath
  <2> QED
    BY <2>1, <2>2
<1>13. 1 .. N \subseteq U
  <2> HIDE DEF U
  <2> QED
    BY <1>1, <1>12, FromAbove
<1>14. \A n \in Nodes : Paths(n) \subseteq Seq(Steps)
  BY <1>1, <1>13
<1> QED
  BY <1>11, <1>14 DEF ArePaths

\* The rebuilt CASE takes the step s.
Takes(s, value) ==
    LET cs == ConditionsBefore(s)
        fellThrough == IF SelectsOnMatch(s) THEN Front(cs) ELSE cs
    IN  /\ \A c \in Range(fellThrough) : value[c] # "true"
        /\ SelectsOnMatch(s) => value[Last(cs)] = "true"

\* A step of a path that is rebuilt: an arm of a case.
IsArm(s) ==
    /\ s.owner \in Nodes
    /\ Kind(s.owner) = "case"
    /\ s.index \in DOMAIN Args(s.owner)
    /\ s.index > 1

\* The conditions before an argument of a CASE are its odd ones, in order.
LEMMA ConditionsAre ==
    ASSUME op \in Expressions, NEW s, IsArm(s)
    PROVE  LET args == Args(s.owner)
               cs == ConditionsBefore(s)
               i == s.index
           IN  /\ \A j \in 1 .. i - 1 : j % 2 = 1 =>
                     \E k \in 1 .. i \div 2 : cs[k] = args[j] /\ j = 2 * k - 1
               /\ \A k \in 1 .. i \div 2 :
                     cs[k] = args[2 * k - 1] /\ 2 * k - 1 \in 1 .. i - 1 /\ (2 * k - 1) % 2 = 1
               /\ cs = [k \in 1 .. i \div 2 |-> args[2 * k - 1]]
               /\ i \div 2 \in Nat /\ i \div 2 >= 1 /\ i \in Nat
               /\ i % 2 = 0 => 2 * (i \div 2) = i
               /\ i % 2 = 1 => 2 * (i \div 2) + 1 = i
               /\ Len(cs) = i \div 2
               /\ i % 2 = 0 => Last(cs) = args[i - 1]
<1> DEFINE args == Args(s.owner)
           cs == ConditionsBefore(s)
           i == s.index
<1>1. i \in Nat /\ i > 1
  BY Shape DEF IsArm
<1>2. cs = [k \in 1 .. i \div 2 |-> args[2 * k - 1]]
  BY DEF ConditionsBefore
<1> HIDE DEF args, cs, i
<1>3. /\ i \div 2 \in Nat /\ i \div 2 >= 1
      /\ i % 2 = 0 => 2 * (i \div 2) = i
      /\ i % 2 = 1 => 2 * (i \div 2) + 1 = i
      /\ i % 2 = 0 \/ i % 2 = 1
  BY <1>1
<1>4. ASSUME NEW j \in 1 .. i - 1, j % 2 = 1
      PROVE  \E k \in 1 .. i \div 2 : cs[k] = args[j] /\ j = 2 * k - 1
  <2>1. (j + 1) \div 2 \in 1 .. i \div 2 /\ j = 2 * ((j + 1) \div 2) - 1
    BY <1>1, <1>3, <1>4
  <2> QED
    BY <1>2, <2>1
<1>5. ASSUME NEW k \in 1 .. i \div 2
      PROVE  cs[k] = args[2 * k - 1] /\ 2 * k - 1 \in 1 .. i - 1 /\ (2 * k - 1) % 2 = 1
  BY <1>1, <1>2, <1>3
<1>6. Len(cs) = i \div 2
  BY <1>2, <1>3
<1>7. i % 2 = 0 => Last(cs) = args[i - 1]
  <2>1. i % 2 = 0 => 2 * (i \div 2) - 1 = i - 1
    BY <1>3
  <2>2. i \div 2 \in 1 .. i \div 2
    BY <1>3
  <2> QED
    BY <1>2, <1>6, <2>1, <2>2 DEF Last
<1> QED
  BY <1>1, <1>2, <1>3, <1>4, <1>5, <1>6, <1>7 DEF args, cs, i

\* A row takes an arm when no predicate before it holds but its own.
LEMMA TakesFacts ==
    ASSUME op \in Expressions, NEW s, IsArm(s), NEW value
    PROVE  LET args == Args(s.owner)
               i == s.index
           IN  Takes(s, value) <=>
                  /\ \A j \in 1 .. i - 1 : j % 2 = 1 /\ (i % 2 = 1 \/ j # i - 1) => value[args[j]] # "true"
                  /\ i % 2 = 0 => value[args[i - 1]] = "true"
<1> DEFINE args == Args(s.owner)
           cs == ConditionsBefore(s)
           i == s.index
           h == i \div 2
<1>1. /\ \A j \in 1 .. i - 1 : j % 2 = 1 => \E k \in 1 .. h : cs[k] = args[j] /\ j = 2 * k - 1
      /\ \A k \in 1 .. h : cs[k] = args[2 * k - 1] /\ 2 * k - 1 \in 1 .. i - 1 /\ (2 * k - 1) % 2 = 1
      /\ cs = [k \in 1 .. h |-> args[2 * k - 1]]
      /\ h \in Nat /\ h >= 1 /\ i \in Nat
      /\ i % 2 = 0 => 2 * h = i
      /\ i % 2 = 1 => 2 * h + 1 = i
      /\ Len(cs) = h
      /\ i % 2 = 0 => Last(cs) = args[i - 1]
  BY ConditionsAre
<1>2. i % 2 = 0 \/ i % 2 = 1
  BY <1>1
<1>3. SelectsOnMatch(s) <=> i % 2 = 0
  BY DEF SelectsOnMatch
<1> HIDE DEF args, cs, i, h
<1>4. CASE i % 2 = 1
  <2>1. Takes(s, value) <=> \A c \in Range(cs) : value[c] # "true"
    BY <1>3, <1>4 DEF Takes, cs
  <2>2. \A c : c \in Range(cs) <=> \E k \in 1 .. h : c = cs[k]
    BY <1>1 DEF Range
  <2>3. (\A c \in Range(cs) : value[c] # "true")
          <=> \A j \in 1 .. i - 1 : j % 2 = 1 => value[args[j]] # "true"
    <3>1. ASSUME NEW j \in 1 .. i - 1, j % 2 = 1 PROVE args[j] \in Range(cs)
      <4>1. PICK k \in 1 .. h : cs[k] = args[j] /\ j = 2 * k - 1
        BY <1>1, <3>1
      <4> QED
        BY <2>2, <4>1
    <3>2. ASSUME NEW c \in Range(cs) PROVE \E j \in 1 .. i - 1 : j % 2 = 1 /\ c = args[j]
      <4>1. PICK k \in 1 .. h : c = cs[k]
        BY <2>2
      <4> QED
        BY <1>1, <4>1
    <3> QED
      BY <3>1, <3>2
  <2> QED
    BY <1>4, <2>1, <2>3 DEF args, i
<1>5. CASE i % 2 = 0
  <2>1. Takes(s, value) <=> (\A c \in Range(Front(cs)) : value[c] # "true") /\ value[args[i - 1]] = "true"
    BY <1>1, <1>3, <1>5 DEF Takes, cs
  <2>2. \A c : c \in Range(Front(cs)) <=> \E k \in 1 .. h - 1 : c = cs[k]
    <3>1. cs \in Seq({args[2 * k - 1] : k \in 1 .. h})
      <4> DEFINE S == {args[2 * k - 1] : k \in 1 .. h}
      <4>1. cs \in [1 .. h -> S]
        BY <1>1
      <4> HIDE DEF S
      <4>2. cs \in Seq(S)
        BY <1>1, <4>1
      <4> QED
        BY <4>2 DEF S
    <3>2. DOMAIN Front(cs) = 1 .. h - 1 /\ \A k \in 1 .. h - 1 : Front(cs)[k] = cs[k]
      BY <1>1, <3>1 DEF Front
    <3> QED
      BY <3>2 DEF Range
  <2>3. \A j \in 1 .. i - 1 : j % 2 = 1 /\ j # i - 1 => \E k \in 1 .. h - 1 : cs[k] = args[j]
    <3> SUFFICES ASSUME NEW j \in 1 .. i - 1, j % 2 = 1, j # i - 1
                 PROVE  \E k \in 1 .. h - 1 : cs[k] = args[j]
      OBVIOUS
    <3>1. PICK k \in 1 .. h : cs[k] = args[j] /\ j = 2 * k - 1
      BY <1>1
    <3>2. k # h
      BY <1>1, <1>5, <3>1
    <3>3. k \in 1 .. h - 1
      BY <1>1, <3>2
    <3> QED
      BY <3>1, <3>3
  <2>4. \A k \in 1 .. h - 1 : /\ cs[k] = args[2 * k - 1]
                              /\ 2 * k - 1 \in 1 .. i - 1 /\ (2 * k - 1) % 2 = 1 /\ 2 * k - 1 # i - 1
    BY <1>1, <1>5
  <2>5. (\A c \in Range(Front(cs)) : value[c] # "true")
          <=> \A j \in 1 .. i - 1 : j % 2 = 1 /\ j # i - 1 => value[args[j]] # "true"
    BY <2>2, <2>3, <2>4
  <2> QED
    BY <1>5, <2>1, <2>5 DEF args, i
<1> QED
  BY <1>2, <1>4, <1>5

\* The CASE takes an arm when the case evaluates it, and the predicates before
\* the arm are evaluated too.
LEMMA TakesIsEvaluated ==
    ASSUME op \in Expressions, NEW s, IsArm(s), NEW value
    PROVE  /\ Takes(s, value) <=> s.index \in Evaluated(s.owner, value)
           /\ s.index \in Evaluated(s.owner, value) =>
                 \A c \in Range(ConditionsBefore(s)) :
                    \E j \in Evaluated(s.owner, value) : c = Args(s.owner)[j]
<1> DEFINE args == Args(s.owner)
           i == s.index
           b == Branch(args, value)
           N == Len(args)
<1>1. /\ N \in Nat /\ i \in 1 .. N /\ i > 1
      /\ b \in 1 .. N
      /\ \A j \in 1 .. b - 1 : j % 2 = 1 /\ value[args[j]] = "true" => j = b - 1
      /\ b % 2 = 1 => b = N
      /\ b % 2 = 0 => value[args[b - 1]] = "true"
  BY Shape, BranchFacts DEF IsArm
<1>2. Evaluated(s.owner, value) = {b} \cup {j \in 1 .. b : j % 2 = 1}
  BY DEF Evaluated, IsArm
<1>3. Takes(s, value) <=>
         /\ \A j \in 1 .. i - 1 : j % 2 = 1 /\ (i % 2 = 1 \/ j # i - 1) => value[args[j]] # "true"
         /\ i % 2 = 0 => value[args[i - 1]] = "true"
  BY TakesFacts
<1>4. \A c \in Range(ConditionsBefore(s)) : \E j \in 1 .. i - 1 : j % 2 = 1 /\ c = args[j]
  <2> DEFINE cs == ConditionsBefore(s)
  <2>1. /\ \A k \in 1 .. i \div 2 : cs[k] = args[2 * k - 1] /\ 2 * k - 1 \in 1 .. i - 1 /\ (2 * k - 1) % 2 = 1
        /\ cs = [k \in 1 .. i \div 2 |-> args[2 * k - 1]]
    BY ConditionsAre
  <2>2. DOMAIN cs = 1 .. i \div 2
    BY <2>1
  <2> QED
    BY <2>1, <2>2 DEF Range
<1> HIDE DEF args, i, b, N
<1>5. ASSUME i \in {b} \cup {j \in 1 .. b : j % 2 = 1} PROVE Takes(s, value)
  <2>1. ASSUME NEW j \in 1 .. i - 1, j % 2 = 1, i % 2 = 1 \/ j # i - 1, value[args[j]] = "true" PROVE FALSE
    <3>1. j \in 1 .. b - 1
      BY <1>1, <1>5
    <3>2. j = b - 1
      BY <1>1, <2>1, <3>1
    <3> QED
      BY <1>1, <1>5, <2>1, <3>2
  <2>2. i % 2 = 0 => i = b
    BY <1>1, <1>5
  <2> QED
    BY <1>1, <1>3, <2>1, <2>2
<1>6. ASSUME Takes(s, value) PROVE i \in {b} \cup {j \in 1 .. b : j % 2 = 1}
  <2>1. CASE b < i
    <3>1. b % 2 = 0
      BY <1>1, <2>1
    <3>2. b - 1 \in 1 .. i - 1 /\ (b - 1) % 2 = 1 /\ b - 1 # i - 1 /\ value[args[b - 1]] = "true"
      BY <1>1, <2>1, <3>1
    <3> QED
      BY <1>3, <1>6, <3>2
  <2>2. CASE i <= b /\ i % 2 = 0
    <3>1. value[args[i - 1]] = "true" /\ i - 1 \in 1 .. b - 1 /\ (i - 1) % 2 = 1
      BY <1>1, <1>3, <1>6, <2>2
    <3> QED
      BY <1>1, <3>1
  <2>3. CASE i <= b /\ i % 2 = 1
    BY <1>1, <2>3
  <2> QED
    BY <1>1, <2>1, <2>2, <2>3
<1>7. ASSUME i \in {b} \cup {j \in 1 .. b : j % 2 = 1}, NEW c \in Range(ConditionsBefore(s))
      PROVE  \E j \in {b} \cup {k \in 1 .. b : k % 2 = 1} : c = args[j]
  <2>1. PICK j \in 1 .. i - 1 : j % 2 = 1 /\ c = args[j]
    BY <1>4
  <2>2. j \in 1 .. b
    BY <1>1, <1>7
  <2> QED
    BY <2>1, <2>2
<1> QED
  BY <1>2, <1>5, <1>6, <1>7 DEF i, args

\* Whether an arm is taken depends on its conditions only.
LEMMA TakesAgree ==
    ASSUME op \in Expressions, NEW s, IsArm(s), NEW left, NEW right,
           \A c \in Range(ConditionsBefore(s)) : right[c] = left[c]
    PROVE  Takes(s, right) <=> Takes(s, left)
<1> DEFINE args == Args(s.owner)
           i == s.index
<1>1. \A j \in 1 .. i - 1 : j % 2 = 1 => args[j] \in Range(ConditionsBefore(s))
  BY ConditionsAre DEF Range
<1>2. i \in Nat /\ i > 1
  BY Shape DEF IsArm
<1>3. i % 2 = 0 => i - 1 \in 1 .. i - 1 /\ (i - 1) % 2 = 1
  BY <1>2
<1>4. \A j \in 1 .. i - 1 : j % 2 = 1 => right[args[j]] = left[args[j]]
  BY <1>1
<1> HIDE DEF args, i
<1>5. /\ \A j \in 1 .. i - 1 : j % 2 = 1 /\ (i % 2 = 1 \/ j # i - 1) =>
            (right[args[j]] # "true" <=> left[args[j]] # "true")
      /\ i % 2 = 0 => (right[args[i - 1]] = "true" <=> left[args[i - 1]] = "true")
  BY <1>3, <1>4
<1> QED
  BY <1>5, TakesFacts DEF args, i

\* Everywhere a row goes it is behind the guard, and the guard is taken.
Behind(n, row) ==
    /\ counts[n] > 0
    /\ \A s \in Range(guards[n]) :
          s # Opaque =>
             /\ IsArm(s)
             /\ Takes(s, Values(row, <<>>))
             /\ Range(ConditionsBefore(s)) \subseteq Inlined(row)

\* What a node evaluates inline is evaluated inline.
LEMMA EvaluatedAreInlined ==
    ASSUME op \in Expressions, NEW row, NEW n \in Nodes, n \in Inlined(row),
           NEW j \in Evaluated(n, Values(row, <<>>))
    PROVE  j \in DOMAIN Args(n) /\ Args(n)[j] \in Inlined(row)
<1>1. j \in DOMAIN Args(n) /\ Args(n)[j] \in Nodes
  BY EvaluatedAreArgs, Shape
<1> QED
  BY <1>1, InlinedEquation

\* A node the query evaluates on a row is behind its guard: the row takes every
\* branch in it.
LEMMA InlinedAreBehind ==
    ASSUME IInv, known, todo = <<>>, NEW row
    PROVE  \A n \in Nodes : n \in Inlined(row) => Behind(n, row)
<1> DEFINE N == Len(op.nodes)
           T == {n \in Nodes : n \in Inlined(row) => Behind(n, row)}
<1>1. op \in Expressions /\ N \in Nat /\ Nodes = 1 .. N
  BY Shape DEF IInv, Types
<1>2. ASSUME NEW n, NEW path, Reached(n, path) PROVE counts[n] > 0 /\ IsPrefix(guards[n], path)
  <2>1. Range(todo) = {}
    BY DEF Range
  <2> QED
    BY <1>2, <2>1 DEF Reached
<1>3. ASSUME NEW n \in 1 .. N, \A m \in n + 1 .. N : m \in T PROVE n \in T
  <2> SUFFICES ASSUME n \in Inlined(row) PROVE Behind(n, row)
    BY <1>1
  <2>1. guards[n] \in Seq(Steps) /\ n \in Nodes
    BY <1>1 DEF IInv, Types
  <2>2. CASE n \in Range(op.exprs)
    <3>1. counts[n] > 0 /\ IsPrefix(guards[n], <<>>)
      BY <1>2, <2>2 DEF IInv, ReadersInv
    <3>2. Range(guards[n]) \subseteq Range(<<>>)
      <4>1. <<>> \in Seq(Steps)
        OBVIOUS
      <4> QED
        BY <2>1, <3>1, <4>1, PrefixRange
    <3>3. Range(<<>>) = {}
      BY DEF Range
    <3> QED
      BY <3>1, <3>2, <3>3 DEF Behind
  <2>3. CASE n \notin Range(op.exprs)
    <3>1. PICK m \in Nodes : m \in Inlined(row) /\ \E j \in Evaluated(m, Values(row, <<>>)) : Args(m)[j] = n
      BY <1>1, <2>1, <2>3, InlinedEquation
    <3>2. PICK j \in Evaluated(m, Values(row, <<>>)) : Args(m)[j] = n
      BY <3>1
    <3>3. j \in DOMAIN Args(m)
      BY <1>1, EvaluatedAreArgs
    <3>4. m \in n + 1 .. N
      BY <1>1, <3>2, <3>3, Shape
    <3>5. Behind(m, row)
      BY <1>3, <3>1, <3>4
    <3>6. guards[m] \in Seq(Steps)
      BY DEF IInv, Types
    <3>7. counts[n] > 0 /\ IsPrefix(guards[n], Below(guards[m], m, j))
      BY <1>2, <3>2, <3>3, <3>5 DEF IInv, ReadersInv, Behind
    <3>8. Range(guards[n]) \subseteq Range(Below(guards[m], m, j))
      BY <1>1, <2>1, <3>3, <3>6, <3>7, BelowIsPath, PrefixRange
    <3>9. ASSUME NEW s \in Range(guards[n]), s # Opaque
          PROVE  /\ IsArm(s)
                 /\ Takes(s, Values(row, <<>>))
                 /\ Range(ConditionsBefore(s)) \subseteq Inlined(row)
      <4>1. CASE s \in Range(guards[m])
        BY <3>5, <3>9, <4>1 DEF Behind
      <4>2. CASE s \notin Range(guards[m])
        <5>1. j > 1 /\ Kind(m) = "case" /\ s = [owner |-> m, index |-> j]
          BY <1>1, <3>3, <3>6, <3>8, <3>9, <4>2, BelowRange
        <5>2. IsArm(s)
          BY <3>3, <5>1 DEF IsArm
        <5>3. /\ Takes(s, Values(row, <<>>))
              /\ \A c \in Range(ConditionsBefore(s)) :
                    \E i \in Evaluated(m, Values(row, <<>>)) : c = Args(m)[i]
          BY <1>1, <5>1, <5>2, TakesIsEvaluated
        <5> QED
          BY <1>1, <3>1, <5>2, <5>3, EvaluatedAreInlined
      <4> QED
        BY <4>1, <4>2
    <3> QED
      BY <3>7, <3>9 DEF Behind
  <2> QED
    BY <2>2, <2>3
<1> HIDE DEF T, N
<1>4. 1 .. N \subseteq T
  BY <1>1, <1>3, FromAbove
<1> QED
  BY <1>1, <1>4 DEF T

\* A slot's CASE answers on the rows that evaluate the node inline.
LEMMA SlotIsReached ==
    ASSUME IInv, known, todo = <<>>, NEW row, NEW i \in DOMAIN slots, slots[i].node \in Inlined(row),
           NEW value, \A m \in Inlined(row) : value[m] = Values(row, <<>>)[m]
    PROVE  Reaches(slots[i].guard, value)
<1> DEFINE s == slots[i]
<1>1. op \in Expressions /\ s.node \in Nodes
  <2>1. slots \in Seq([node : Nodes, guard : Seq(Steps)])
    BY DEF IInv, Types
  <2>2. \A S : \A q \in Seq(S) : \A k \in DOMAIN q : q[k] \in S
    OBVIOUS
  <2>3. slots[i] \in [node : Nodes, guard : Seq(Steps)]
    BY <2>1, <2>2
  <2> QED
    BY <2>3 DEF IInv, Types
<1>2. Behind(s.node, row)
  BY <1>1, InlinedAreBehind
<1>3. s.guard = <<>> \/ (s.guard = guards[s.node] /\ Opaque \notin Range(s.guard))
  BY DEF IInv, SlotInv
<1>4. ASSUME NEW t \in Range(s.guard) PROVE Takes(t, value)
  <2>1. s.guard = guards[s.node] /\ t # Opaque
    BY <1>3, <1>4 DEF Range
  <2>2. IsArm(t) /\ Takes(t, Values(row, <<>>)) /\ Range(ConditionsBefore(t)) \subseteq Inlined(row)
    BY <1>2, <1>4, <2>1 DEF Behind
  <2> QED
    BY <1>1, <2>2, TakesAgree
<1> QED
  BY <1>4 DEF Reaches, Takes

\* A slot's name is no column's, unless the case differs.
LEMMA NoColumnShadows ==
    ASSUME IInv, NoTwin, NEW i
    PROVE  ~ Shadowed(i)
<1>1. taken \subseteq SlotLike
  BY ColumnsAssumption DEF IInv, Types
<1> DEFINE Free(u) == /\ [underscores |-> u, sameCase |-> TRUE] \notin taken
                      /\ \A v \in 1 .. u - 1 : [underscores |-> v, sameCase |-> TRUE] \in taken
           free == {u \in 1 .. 4 : [underscores |-> u, sameCase |-> TRUE] \notin taken}
<1>2. free \in SUBSET Nat /\ 4 \in free
  BY <1>1 DEF SlotLike
<1>3. PICK u \in free : \A v \in free : u <= v
  <2> HIDE DEF free
  <2> QED
    BY <1>2, LeastNatural
<1>4. u \in 1 .. 4 /\ Free(u)
  BY <1>3
<1>5. Free(Prefix)
  BY <1>4 DEF Prefix
<1>6. ASSUME NEW c \in taken, c.underscores = Prefix PROVE FALSE
  <2>1. c.sameCase
    BY <1>6 DEF NoTwin
  <2>2. c = [underscores |-> Prefix, sameCase |-> TRUE]
    BY <1>1, <1>6, <2>1 DEF SlotLike
  <2> QED
    BY <1>5, <2>2
<1> QED
  BY <1>6 DEF Shadowed

\* One more slot leaves every node that a row evaluates its value.
LEMMA OneSlotMore ==
    ASSUME IInv, known, todo = <<>>, NoTwin, NEW row, NEW i \in DOMAIN slots, NEW columns,
           \A n \in Inlined(row) : Values(row, columns)[n] = Values(row, <<>>)[n]
    PROVE  \A n \in Inlined(row) : Values(row, ColumnsAfter(row, columns, i))[n] = Values(row, <<>>)[n]
<1> DEFINE N == Len(op.nodes)
           s == slots[i]
           before == Values(row, columns)
           after == Values(row, ColumnsAfter(row, columns, i))
           inline == Values(row, <<>>)
           new == ColumnsAfter(row, columns, i)
           T == {n \in Nodes : n \in Inlined(row) => after[n] = inline[n]}
<1>1. op \in Expressions /\ N \in Nat /\ Nodes = 1 .. N
  BY Shape DEF IInv, Types
<1>2. /\ DOMAIN new = DOMAIN columns \cup {s.node}
      /\ \A n \in DOMAIN columns : new[n] = columns[n]
      /\ s.node \notin DOMAIN columns => new[s.node] = IF Reaches(s.guard, before) /\ ~Shadowed(i)
                                                       THEN before[s.node] ELSE Unset
  BY DEF ColumnsAfter, With
<1>3. \A n \in Nodes : /\ before[n] = ValueOf(row, columns, before, n)
                       /\ after[n] = ValueOf(row, new, after, n)
                       /\ inline[n] = ValueOf(row, <<>>, inline, n)
  BY <1>1, ValuesEquation
<1>4. \A n \in Inlined(row) : n \in Nodes
  BY DEF Inlined
<1> HIDE DEF N, before, after, inline, new
<1>5. ASSUME NEW n \in 1 .. N, \A m \in 1 .. n - 1 : m \in T PROVE n \in T
  <2> SUFFICES ASSUME n \in Inlined(row) PROVE after[n] = inline[n]
    BY <1>1
  <2>1. before[n] = inline[n]
    BY DEF before, inline
  <2>2. CASE n \in DOMAIN columns
    BY <1>1, <1>2, <1>3, <2>1, <2>2 DEF ValueOf
  <2>3. CASE n \notin DOMAIN columns /\ n = s.node
    <3>1. \A m \in Inlined(row) : before[m] = inline[m]
      BY DEF before, inline
    <3>2. Reaches(s.guard, before)
      BY <2>3, <3>1, SlotIsReached DEF inline
    <3>3. ~Shadowed(i)
      BY NoColumnShadows
    <3> QED
      BY <1>1, <1>2, <1>3, <2>1, <2>3, <3>2, <3>3 DEF ValueOf
  <2>4. CASE n \notin DOMAIN columns /\ n # s.node
    <3>1. after[n] = Combine(row, n, after) /\ inline[n] = Combine(row, n, inline)
      BY <1>1, <1>2, <1>3, <2>4 DEF ValueOf
    <3>2. ASSUME NEW j \in Evaluated(n, inline) PROVE after[Args(n)[j]] = inline[Args(n)[j]]
      <4>1. j \in DOMAIN Args(n) /\ Args(n)[j] \in Inlined(row)
        BY <1>1, EvaluatedAreInlined DEF inline
      <4>2. Args(n)[j] \in 1 .. n - 1
        BY <1>1, <4>1, Shape
      <4> QED
        BY <1>5, <4>1, <4>2
    <3>3. Combine(row, n, after) = Combine(row, n, inline)
      BY <1>1, <3>2, CombineAgrees
    <3> QED
      BY <3>1, <3>3
  <2> QED
    BY <2>2, <2>3, <2>4
<1> HIDE DEF T
<1>6. 1 .. N \subseteq T
  BY <1>1, <1>5, FromBelow
<1> QED
  BY <1>1, <1>4, <1>6 DEF T, after, inline, new

\* What the query evaluates on a row has the same value once bound.
LEMMA BoundIsInline ==
    ASSUME IInv, known, todo = <<>>, NoTwin, NEW row
    PROVE  \A n \in Inlined(row) : Values(row, SlotColumns(row))[n] = Values(row, <<>>)[n]
<1> DEFINE N == Len(slots)
<1>1. N \in Nat /\ DOMAIN slots = 1 .. N
  <2>1. slots \in Seq([node : Nodes, guard : Seq(Steps)])
    BY DEF IInv, Types
  <2> QED
    BY <2>1
<1>2. PICK f : /\ f[0] = <<>>
               /\ \A i \in 1 .. N : f[i] = ColumnsAfter(row, f[i - 1], i)
               /\ SlotColumns(row) = f[N]
  BY <1>1, SlotColumnsRecursion
<1> DEFINE T == {i \in 0 .. N : \A n \in Inlined(row) : Values(row, f[i])[n] = Values(row, <<>>)[n]}
<1>3. 0 \in T
  BY <1>1, <1>2
<1>4. ASSUME NEW i \in 0 .. N, i < N, i \in T PROVE i + 1 \in T
  <2>1. i + 1 \in DOMAIN slots /\ i + 1 \in 1 .. N /\ i + 1 \in 0 .. N /\ f[i + 1] = ColumnsAfter(row, f[i], i + 1)
    BY <1>1, <1>2, <1>4
  <2>2. \A n \in Inlined(row) : Values(row, f[i])[n] = Values(row, <<>>)[n]
    BY <1>4
  <2>3. \A n \in Inlined(row) : Values(row, ColumnsAfter(row, f[i], i + 1))[n] = Values(row, <<>>)[n]
    BY <2>1, <2>2, OneSlotMore
  <2> QED
    BY <2>1, <2>3
<1> HIDE DEF T
<1>5. N \in T
  <2>1. 0 .. N \subseteq T
    BY <1>1, <1>3, <1>4, UpTo
  <2> QED
    BY <1>1, <2>1
<1> QED
  BY <1>2, <1>5 DEF T

\* Whatever is bound, in whatever way the walk met the nodes, every expression
\* keeps on every row the value it has inline (bind_repeats, _under_guard).
THEOREM AnswersAreKept == Spec => []SameAnswer
<1>1. IInv => SameAnswer
  <2> SUFFICES ASSUME IInv, Rendered, slots # <<>>, NoTwin, NEW row \in Rows, NEW n \in Range(op.exprs)
               PROVE  Values(row, SlotColumns(row))[n] = Values(row, <<>>)[n]
    BY DEF SameAnswer
  <2>1. todo = <<>> /\ known
    BY DEF Rendered, IInv, UnknownInv, Types
  <2>2. op \in Expressions /\ n \in Nodes
    <3>1. op \in Expressions
      BY DEF IInv, Types
    <3>2. op.exprs \in Seq(Nodes)
      BY <3>1, Shape
    <3> QED
      BY <3>1, <3>2 DEF Range
  <2>3. n \in Inlined(row)
    BY <2>2, InlinedEquation
  <2> QED
    BY <2>1, <2>3, BoundIsInline
<1> QED
  BY <1>1, Invariance, PTL

\* A row that takes every step of a path to a node evaluates the node.
LEMMA TakenPathsAreInlined ==
    ASSUME op \in Expressions, NEW row, NEW value,
           \A n \in Inlined(row) : value[n] = Values(row, <<>>)[n]
    PROVE  \A n \in Nodes : \A path \in Paths(n) :
              Opaque \notin Range(path) /\ (\A s \in Range(path) : Takes(s, value)) => n \in Inlined(row)
<1> DEFINE N == Len(op.nodes)
           inline == Values(row, <<>>)
           P == [n \in Nodes |-> Paths(n)]
           Taken(path) == Opaque \notin Range(path) /\ \A s \in Range(path) : Takes(s, value)
           T == {n \in Nodes : \A path \in Paths(n) : Taken(path) => n \in Inlined(row)}
<1>1. N \in Nat /\ Nodes = 1 .. N
  BY Shape
<1>2. ArePaths(P) /\ \A n \in Nodes : P[n] = Paths(n)
  BY PathsAreThePaths
<1> HIDE DEF N, P, Taken
<1>3. ASSUME NEW n \in 1 .. N, \A m \in n + 1 .. N : m \in T PROVE n \in T
  <2> SUFFICES ASSUME NEW path \in Paths(n), Taken(path) PROVE n \in Inlined(row)
    BY <1>1
  <2>0. n \in Nodes /\ path \in P[n]
    BY <1>1, <1>2
  <2>1. CASE path = <<>> /\ n \in Range(op.exprs)
    BY <2>0, <2>1, InlinedEquation
  <2>2. CASE ~ (path = <<>> /\ n \in Range(op.exprs))
    <3>1. PICK p \in Nodes : \E i \in DOMAIN Args(p) : Args(p)[i] = n /\ \E q \in P[p] : path = Below(q, p, i)
      BY <1>2, <2>0, <2>2 DEF ArePaths
    <3>2. PICK i \in DOMAIN Args(p) : Args(p)[i] = n /\ \E q \in P[p] : path = Below(q, p, i)
      BY <3>1
    <3>3. PICK q \in P[p] : path = Below(q, p, i)
      BY <3>2
    <3>4. q \in Seq(Steps) /\ q \in Paths(p) /\ p \in n + 1 .. N
      BY <1>1, <1>2, <3>2, Shape DEF ArePaths
    <3>5. Range(path) = Range(q) \cup
                 (IF i > 1 /\ Kind(p) = "case" THEN {[owner |-> p, index |-> i]}
                  ELSE IF i > 1 /\ Kind(p) = "coalesce" THEN {Opaque} ELSE {})
      BY <3>3, <3>4, BelowRange
    <3>6. p \in Inlined(row)
      <4>1. Taken(q)
        BY <3>5 DEF Taken
      <4> QED
        BY <1>3, <3>4, <4>1
    <3>7. Evaluated(p, value) = Evaluated(p, inline)
      <4>1. \A j \in Evaluated(p, inline) : value[Args(p)[j]] = inline[Args(p)[j]]
        BY <3>6, EvaluatedAreInlined
      <4> QED
        BY <4>1, EvaluatedAgree
    <3>8. i \in Evaluated(p, value)
      <4>0. i \in 1 .. Len(Args(p)) /\ Len(Args(p)) \in Nat
        BY Shape
      <4>1. CASE Kind(p) = "case" /\ i > 1
        <5> DEFINE s == [owner |-> p, index |-> i]
        <5>1. s \in Range(path) /\ IsArm(s)
          BY <3>5, <4>1 DEF IsArm
        <5>2. Takes(s, value)
          BY <5>1 DEF Taken
        <5> QED
          BY <5>1, <5>2, TakesIsEvaluated
      <4>2. CASE Kind(p) = "case" /\ i = 1
        <5>1. Branch(Args(p), value) \in 1 .. Len(Args(p))
          BY <4>0, <4>2, Shape, BranchFacts
        <5> QED
          BY <4>2, <5>1 DEF Evaluated
      <4>3. CASE Kind(p) = "coalesce"
        <5>1. ~ (i > 1)
          BY <3>5, <4>3 DEF Taken
        <5>2. i = 1
          BY <4>0, <5>1
        <5> QED
          BY <4>3, <5>2 DEF Evaluated
      <4>4. CASE Kind(p) \notin {"case", "coalesce"}
        BY <4>4 DEF Evaluated
      <4> QED
        BY <4>0, <4>1, <4>2, <4>3, <4>4
    <3> QED
      BY <2>0, <3>2, <3>6, <3>7, <3>8, InlinedEquation
  <2> QED
    BY <2>1, <2>2
<1> HIDE DEF T
<1>4. 1 .. N \subseteq T
  BY <1>1, <1>3, FromAbove
<1> QED
  BY <1>1, <1>4 DEF T, Taken

\* A repeat behind one branch is computed on exactly the rows that the query
\* computed it on (_reach, _under_guard).
THEOREM OneBranchRuns == Spec => []OneBranchRunsWhereItRan
<1>1. IInv => OneBranchRunsWhereItRan
  <2> SUFFICES ASSUME IInv, Rendered, slots # <<>>, NoTwin, NEW row \in Rows, NEW i \in DOMAIN slots,
                      NEW path \in Paths(slots[i].node), Paths(slots[i].node) = {path},
                      Kind(slots[i].node) # "toscalar"
               PROVE  Reaches(slots[i].guard, Values(row, SlotColumns(row))) <=> slots[i].node \in Inlined(row)
    BY DEF OneBranchRunsWhereItRan
  <2> DEFINE n == slots[i].node
             value == Values(row, SlotColumns(row))
             P == [m \in Nodes |-> Paths(m)]
  <2>1. todo = <<>> /\ known /\ op \in Expressions
    BY DEF Rendered, IInv, UnknownInv, Types
  <2>2. n \in Nodes
    <3>1. slots \in Seq([node : Nodes, guard : Seq(Steps)])
      BY DEF IInv, Types
    <3>2. \A S : \A q \in Seq(S) : \A k \in DOMAIN q : q[k] \in S
      OBVIOUS
    <3>3. slots[i] \in [node : Nodes, guard : Seq(Steps)]
      BY <3>1, <3>2
    <3> QED
      BY <3>3
  <2>3. slots[i].guard = guards[n] /\ counts[n] > 0 /\ Opaque \notin Range(slots[i].guard)
    BY DEF IInv, SlotInv
  <2>4. slots[i].guard = path
    <3>1. ArePaths(P) /\ P[n] = {path}
      BY <2>1, <2>2, PathsAreThePaths
    <3>2. LeadsTo(guards[n], n, P)
      BY <2>2, <2>3, <3>1 DEF IInv, PathInv
    <3> QED
      BY <2>3, <3>1, <3>2 DEF LeadsTo
  <2>5. \A m \in Inlined(row) : value[m] = Values(row, <<>>)[m]
    BY <2>1, BoundIsInline
  <2>6. n \in Inlined(row) => Reaches(slots[i].guard, value)
    BY <2>1, <2>5, SlotIsReached
  <2>7. Reaches(slots[i].guard, value) => n \in Inlined(row)
    <3>1. Reaches(slots[i].guard, value) => \A s \in Range(path) : Takes(s, value)
      BY <2>4 DEF Reaches, Takes
    <3> QED
      BY <2>1, <2>2, <2>3, <2>4, <2>5, <3>1, TakenPathsAreInlined
  <2> QED
    BY <2>6, <2>7
<1> QED
  BY <1>1, Invariance, PTL

=============================================================================
