--------------------------- MODULE PipelineProofs ---------------------------
(***************************************************************************)
(* The properties of Pipeline, for all tables, names and lengths of a       *)
(* pipeline and of its clauses.                                             *)
(*                                                                         *)
(* The inductive invariant is IInv.  Knows is the half of a translator that *)
(* is told the columns: the names it believes are Kusto's, and, unless a    *)
(* join has left names that differ in case only, DuckDB has what Kusto has  *)
(* and every name of it folds to another.  Agrees is the other half: the    *)
(* same columns in some order.  That names are told apart in any case       *)
(* (Told) is what neither property says and both need: DuckDB's look-up has *)
(* no case, so where two columns fold alike it may find the wrong one.      *)
(*                                                                         *)
(* Every operator is an instance of Operator; OperatorKeeps asks of each    *)
(* only that its meaning, its SQL and its predicted names are Sound, and    *)
(* there is a lemma for each operator that they are.  The names come from   *)
(* recursive functions over a clause (Namer, JoinColumns, Select, Stage,    *)
(* Only), of which the ...Recursion lemmas say what each step computes;     *)
(* UpTo and what follows from it give the induction.                        *)
(***************************************************************************)
EXTENDS Pipeline, WellFoundedInduction, FiniteSetTheorems, TLAPS

-----------------------------------------------------------------------------
(* Induction over numbers, and over functions defined by recursion.        *)

\* Every non-empty set of naturals has a least element.
LEMMA LeastNatural ==
    ASSUME NEW S \in SUBSET Nat, S # {}
    PROVE  \E m \in S : \A n \in S : m <= n
<1> DEFINE R == OpToRel(<, Nat)
<1>1. IsWellFoundedOn(R, Nat)
  BY NatLessThanWellFounded
<1>2. \A m, n \in Nat : <<n, m>> \in R <=> n < m
  BY DEF OpToRel
<1> HIDE DEF R
<1>3. PICK m \in S : \A n \in S : ~ (<<n, m>> \in R)
  BY <1>1, WFMin
<1>4. \A n \in S : ~ (n < m)
  BY <1>2, <1>3
<1> QED
  BY <1>4

\* Induction up to N.
LEMMA UpTo ==
    ASSUME NEW N \in Nat, NEW S, 0 \in S, \A n \in 0 .. N : n < N /\ n \in S => n + 1 \in S
    PROVE  0 .. N \subseteq S
<1> SUFFICES ASSUME (0 .. N) \ S # {} PROVE FALSE
  OBVIOUS
<1>1. PICK m \in (0 .. N) \ S : \A n \in (0 .. N) \ S : m <= n
  <2>1. (0 .. N) \ S \in SUBSET Nat
    OBVIOUS
  <2> QED
    BY <2>1, LeastNatural
<1>2. m # 0 /\ m - 1 \in 0 .. N /\ m - 1 < N /\ ~ (m <= m - 1)
  OBVIOUS
<1>3. m - 1 \in S
  BY <1>1, <1>2
<1>4. (m - 1) + 1 \in S
  BY <1>2, <1>3
<1> QED
  BY <1>4

\* f is what the recursion from c by D computes up to N.
Iterates(f, c, D, N) ==
    /\ f = [i \in 0 .. N |-> f[i]]
    /\ f[0] = c
    /\ \A i \in 1 .. N : f[i] = D[i][f[i - 1]]

\* A recursion that goes from W[i - 1] to W[i] exists and stays there.
LEMMA RecursionStays ==
    ASSUME NEW N \in Nat, NEW W, NEW f, f[0] \in W[0],
           \A i \in 1 .. N : f[i - 1] \in W[i - 1] => f[i] \in W[i]
    PROVE  \A i \in 0 .. N : f[i] \in W[i]
<1> DEFINE T == {n \in 0 .. N : f[n] \in W[n]}
<1>1. 0 \in T
  OBVIOUS
<1>2. ASSUME NEW n \in 0 .. N, n < N, n \in T PROVE n + 1 \in T
  <2>1. n + 1 \in 1 .. N /\ (n + 1) - 1 = n
    BY <1>2
  <2> QED
    BY <1>2, <2>1
<1> HIDE DEF T
<1>3. 0 .. N \subseteq T
  BY <1>1, <1>2, UpTo
<1> QED
  BY <1>3 DEF T

\* A recursion that computes each value from the one before has a solution.
LEMMA RecursionExists ==
    ASSUME NEW N \in Nat, NEW c, NEW D
    PROVE  \E f : Iterates(f, c, D, N)
<1> DEFINE Is(f, n) == /\ f = [i \in 0 .. N |-> f[i]]
                       /\ f[0] = c
                       /\ \A i \in 1 .. n : f[i] = D[i][f[i - 1]]
           T == {n \in 0 .. N : \E f : Is(f, n)}
<1>1. 0 \in T
  <2>1. Is([i \in 0 .. N |-> c], 0)
    OBVIOUS
  <2> HIDE DEF Is
  <2> QED
    BY <2>1
<1>2. ASSUME NEW n \in 0 .. N, n < N, n \in T PROVE n + 1 \in T
  <2>1. PICK f : Is(f, n)
    BY <1>2
  <2> DEFINE g == [i \in 0 .. N |-> IF i = n + 1 THEN D[n + 1][f[n]] ELSE f[i]]
  <2>2. n + 1 \in 1 .. N /\ n + 1 \in 0 .. N
    BY <1>2
  <2>3. g = [i \in 0 .. N |-> g[i]] /\ g[0] = c
    BY <2>1, <2>2
  <2>4. ASSUME NEW i \in 1 .. n + 1 PROVE g[i] = D[i][g[i - 1]]
    <3>1. CASE i = n + 1
      BY <2>1, <2>2, <3>1
    <3>2. CASE i # n + 1
      <4>1. i \in 1 .. n /\ g[i] = f[i] /\ g[i - 1] = f[i - 1]
        BY <1>2, <2>1, <3>2
      <4> QED
        BY <2>1, <4>1
    <3> QED
      BY <3>1, <3>2
  <2>5. Is(g, n + 1)
    BY <2>3, <2>4
  <2> HIDE DEF Is
  <2> QED
    BY <2>2, <2>5
<1> HIDE DEF T
<1>3. 0 .. N \subseteq T
  BY <1>1, <1>2, UpTo
<1>4. N \in T
  BY <1>3
<1> QED
  BY <1>4 DEF T, Iterates

\* A recursion that never leaves W is a function into W.
LEMMA RecursionInto ==
    ASSUME NEW N \in Nat, NEW W, NEW c \in W, NEW D, \A i \in 1 .. N : \A x \in W : D[i][x] \in W
    PROVE  \E f \in [0 .. N -> W] : Iterates(f, c, D, N)
<1>1. PICK f : Iterates(f, c, D, N)
  BY RecursionExists
<1> DEFINE V == [i \in 0 .. N |-> W]
<1>2. \A i \in 1 .. N : i \in 0 .. N /\ i - 1 \in 0 .. N
  OBVIOUS
<1>3. f[0] \in V[0] /\ \A i \in 1 .. N : f[i - 1] \in V[i - 1] => f[i] \in V[i]
  <2>1. V[0] = W /\ \A i \in 1 .. N : V[i] = W /\ V[i - 1] = W
    BY <1>2
  <2>2. f[0] \in W /\ \A i \in 1 .. N : f[i - 1] \in W => f[i] \in W
    BY <1>1 DEF Iterates
  <2> HIDE DEF V
  <2> QED
    BY <2>1, <2>2
<1>4. \A i \in 0 .. N : f[i] \in V[i]
  <2> HIDE DEF V
  <2> QED
    BY <1>3, RecursionStays
<1>5. f \in [0 .. N -> W]
  BY <1>1, <1>4 DEF Iterates
<1> QED
  BY <1>1, <1>5

\* What is so at 0 and, wherever it is so, at the next number, is so up to N.
LEMMA Induction ==
    ASSUME NEW N \in Nat, NEW P, P[0], \A i \in 1 .. N : P[i - 1] => P[i]
    PROVE  \A i \in 0 .. N : P[i]
<1> DEFINE S == {i \in 0 .. N : P[i]}
<1>1. 0 \in S
  OBVIOUS
<1>2. ASSUME NEW i \in 0 .. N, i < N, i \in S PROVE i + 1 \in S
  <2>1. i + 1 \in 1 .. N /\ (i + 1) - 1 = i
    BY <1>2
  <2> QED
    BY <1>2, <2>1
<1> HIDE DEF S
<1>3. 0 .. N \subseteq S
  BY <1>1, <1>2, UpTo
<1> QED
  BY <1>3 DEF S

-----------------------------------------------------------------------------
\* Names: numbers after them, ColumnN, what is free.

\* Names of the stems S.
Of(S) == [prefix : {"", "sum_"}, stem : S, tail : Seq(Nat)]

\* Sequences of names without a repeat.
Distinct == {s \in Seq(Name) : IsInjective(s)}

\* What values are made of (the provers do not know that a literal is a string).
Word == STRING \cup {"missing", "let", "null", "column", "same", "other", "sum", "where", "union",
                     "parse", "item", "index"}

Target == [name : Name \cup {NoName}, fn : Word, col : Name]

\* The members of a sequence are finitely many.
LEMMA RangeFinite ==
    ASSUME NEW S, NEW s \in Seq(S)
    PROVE  IsFiniteSet(Range(s)) /\ Range(s) \subseteq S
<1>1. Len(s) \in Nat /\ DOMAIN s = 1 .. Len(s)
  OBVIOUS
<1>2. s \in Surjection(1 .. Len(s), Range(s))
  BY <1>1 DEF Surjection, Range
<1>3. IsFiniteSet(1 .. Len(s))
  BY <1>1, FS_Interval
<1> QED
  BY <1>1, <1>2, <1>3, FS_Surjection DEF Range

\* A number makes another name of a name, and each number a different one.
LEMMA NumberedIs ==
    ASSUME NEW S, NEW name \in Of(S), NEW k \in Nat
    PROVE  /\ Numbered(name, k) \in Of(S)
           /\ \A j \in Nat : Numbered(name, j) = Numbered(name, k) => j = k
<1>1. name.tail \in Seq(Nat)
  BY DEF Of
<1>2. \A j \in Nat : /\ Append(name.tail, j) \in Seq(Nat)
                     /\ Append(name.tail, j)[Len(name.tail) + 1] = j
  BY <1>1
<1>3. ASSUME NEW j \in Nat
      PROVE  Numbered(name, j) \in Of(S) /\ Numbered(name, j).tail = Append(name.tail, j)
  <2>1. Append(name.tail, j) \in Seq(Nat)
    BY <1>2
  <2> QED
    BY <2>1 DEF Of, Numbered
<1>4. ASSUME NEW j \in Nat, Numbered(name, j) = Numbered(name, k) PROVE j = k
  <2>1. Append(name.tail, j) = Append(name.tail, k)
    BY <1>3, <1>4
  <2> QED
    BY <1>2, <2>1
<1> QED
  BY <1>3, <1>4

\* More numbers than names: one of them makes a name that is not among them.
LEMMA SomeIsFree ==
    ASSUME NEW S, NEW name \in Of(S), NEW used, IsFiniteSet(used), NEW p \in Nat, NEW N \in Nat, N > Cardinality(used)
    PROVE  \E k \in p + 1 .. p + N : /\ Numbered(name, k) \notin used
                                     /\ \A j \in p + 1 .. k - 1 : Numbered(name, j) \in used
<1> DEFINE free == {k \in p + 1 .. p + N : Numbered(name, k) \notin used}
<1>1. free # {}
  <2> SUFFICES ASSUME \A k \in p + 1 .. p + N : Numbered(name, k) \in used PROVE FALSE
    OBVIOUS
  <2> DEFINE f == [k \in p + 1 .. p + N |-> Numbered(name, k)]
  <2>1. f \in [p + 1 .. p + N -> used]
    OBVIOUS
  <2>2. IsFiniteSet(p + 1 .. p + N) /\ Cardinality(p + 1 .. p + N) = N
    <3>1. p + 1 \in Int /\ p + N \in Int /\ N = IF p + 1 > p + N THEN 0 ELSE (p + N) - (p + 1) + 1
      BY FS_CardinalityType
    <3> QED
      BY <3>1, FS_Interval
  <2>3. PICK x, y \in p + 1 .. p + N : x # y /\ f[x] = f[y]
    <3> HIDE DEF f
    <3> QED
      BY <2>1, <2>2, FS_PigeonHole
  <2>4. x \in Nat /\ y \in Nat /\ Numbered(name, x) = Numbered(name, y)
    BY <2>3
  <2> QED
    BY <2>3, <2>4, NumberedIs
<1>2. PICK k \in free : \A j \in free : k <= j
  <2>1. free \in SUBSET Nat
    OBVIOUS
  <2> HIDE DEF free
  <2> QED
    BY <1>1, <2>1, LeastNatural
<1>3. \A j \in p + 1 .. k - 1 : j \in p + 1 .. p + N /\ ~ (k <= j)
  BY <1>2
<1> QED
  BY <1>2, <1>3

\* There is a first free number, and the name it makes is free.
LEMMA FirstFreeIs ==
    ASSUME NEW S, NEW name \in Of(S), NEW used, IsFiniteSet(used)
    PROVE  /\ FirstFree(name, used) \in Nat
           /\ Numbered(name, FirstFree(name, used)) \in Of(S) \ used
<1>1. Cardinality(used) \in Nat
  BY FS_CardinalityType
<1>2. \E k \in 1 .. Cardinality(used) + 1 :
         /\ Numbered(name, k) \notin used
         /\ \A j \in 1 .. k - 1 : Numbered(name, j) \in used
  <2> DEFINE N == Cardinality(used) + 1
  <2>1. N \in Nat /\ N > Cardinality(used) /\ 0 + 1 = 1 /\ 0 + N = N
    BY <1>1
  <2> HIDE DEF N
  <2>2. \E k \in 0 + 1 .. 0 + N : /\ Numbered(name, k) \notin used
                                  /\ \A j \in 0 + 1 .. k - 1 : Numbered(name, j) \in used
    BY <2>1, SomeIsFree
  <2> QED
    BY <2>1, <2>2 DEF N
<1>3. /\ FirstFree(name, used) \in 1 .. Cardinality(used) + 1
      /\ Numbered(name, FirstFree(name, used)) \notin used
  BY <1>2 DEF FirstFree
<1>4. FirstFree(name, used) \in Nat
  BY <1>1, <1>3
<1> QED
  BY <1>3, <1>4, NumberedIs

\* There is a next ColumnN.
LEMMA PositionalIs ==
    ASSUME NEW p \in Nat, NEW skip, IsFiniteSet(skip)
    PROVE  Positional(p, skip) \in Nat
<1> DEFINE N == Cardinality(skip) + 1
           name == Plain("Column")
           free == {q \in p + 1 .. p + 1 + Cardinality(skip) : Numbered(name, q) \notin skip}
<1>1. Cardinality(skip) \in Nat
  BY FS_CardinalityType
<1>2. N \in Nat /\ N > Cardinality(skip) /\ p + N = p + 1 + Cardinality(skip)
  BY <1>1
<1>3. name \in Of(Stems)
  <2>1. <<>> \in Seq(Nat)
    OBVIOUS
  <2> QED
    BY <2>1, StemsAssumption DEF Of, Plain
<1>4. free # {} /\ free \in SUBSET Nat
  <2> HIDE DEF N, name
  <2>1. \E k \in p + 1 .. p + N : /\ Numbered(name, k) \notin skip
                                  /\ \A j \in p + 1 .. k - 1 : Numbered(name, j) \in skip
    BY <1>2, <1>3, SomeIsFree
  <2> QED
    BY <1>2, <2>1
<1> HIDE DEF free
<1>5. \E q \in free : \A r \in free : q <= r
  BY <1>4, LeastNatural
<1>6. Positional(p, skip) = CHOOSE q \in free : \A r \in free : q <= r
  BY DEF Positional, free
<1> QED
  BY <1>4, <1>5, <1>6

\* A name that is free is taken, one that is not is moved to a number.
LEMMA TakeIs ==
    ASSUME NEW base \in Name, NEW taken, IsFiniteSet(taken), NEW reserved, IsFiniteSet(reserved)
    PROVE  /\ Take(base, taken, reserved) \in Name \ taken
           /\ Disambiguate(base, taken) \in Name \ taken
<1>1. IsFiniteSet(taken \cup reserved)
  BY FS_Union
<1>2. /\ Numbered(base, FirstFree(base, taken \cup reserved)) \in Name \ (taken \cup reserved)
      /\ Numbered(base, FirstFree(base, taken)) \in Name \ taken
  <2>1. base \in Of(Stems) /\ Of(Stems) = Name
    BY DEF Of, Name
  <2> QED
    BY <1>1, <2>1, FirstFreeIs
<1> QED
  BY <1>2 DEF Take, Disambiguate

\* A new name makes no repeat.
LEMMA AppendDistinct ==
    ASSUME NEW s \in Distinct, NEW name \in Name \ Range(s)
    PROVE  Append(s, name) \in Distinct
<1>1. s \in Seq(Name) /\ Append(s, name) \in Seq(Name)
  BY DEF Distinct
<1>2. \A i \in DOMAIN s : s[i] # name
  BY DEF Range
<1>3. ASSUME NEW i \in DOMAIN Append(s, name), NEW j \in DOMAIN Append(s, name),
             Append(s, name)[i] = Append(s, name)[j]
      PROVE  i = j
  <2>1. \A k \in DOMAIN Append(s, name) :
           \/ k \in DOMAIN s /\ Append(s, name)[k] = s[k]
           \/ k = Len(s) + 1 /\ Append(s, name)[k] = name
    BY <1>1
  <2> QED
    BY <1>2, <1>3, <2>1 DEF Distinct, IsInjective
<1> QED
  BY <1>1, <1>3 DEF Distinct, IsInjective

-----------------------------------------------------------------------------
\* Only, and concatenation.

\* f is the recursion of Only.
Filters(f, s, S) ==
    /\ f[0] = <<>>
    /\ \A i \in 1 .. Len(s) : f[i] = IF s[i] \in S THEN Append(f[i - 1], s[i]) ELSE f[i - 1]
    /\ Only(s, S) = f[Len(s)]

\* Only is a recursion.
LEMMA OnlyRecursion ==
    ASSUME NEW T, NEW s \in Seq(T), NEW S
    PROVE  \E f : Filters(f, s, S)
<1> DEFINE N == Len(s)
           Step(x, i) == IF s[i] \in S THEN Append(x, s[i]) ELSE x
           Is(f) == f = [i \in 0 .. N |-> IF i = 0 THEN <<>> ELSE Step(f[i - 1], i)]
           D == [i \in 1 .. N |-> [x \in Seq(T) |-> Step(x, i)]]
<1>1. Only(s, S) = (CHOOSE f : Is(f))[N]
  BY DEF Only
<1>2. N \in Nat /\ <<>> \in Seq(T) /\ \A i \in 1 .. N : \A x \in Seq(T) : Step(x, i) \in Seq(T)
  OBVIOUS
<1>3. \A i \in 1 .. N : \A x \in Seq(T) : D[i][x] = Step(x, i)
  OBVIOUS
<1> HIDE DEF Step, N, D
<1>4. PICK f \in [0 .. N -> Seq(T)] : Iterates(f, <<>>, D, N)
  <2>1. \A i \in 1 .. N : \A x \in Seq(T) : D[i][x] \in Seq(T)
    BY <1>2, <1>3
  <2> QED
    BY <1>2, <2>1, RecursionInto
<1>5. \A i \in 0 .. N : f[i] = IF i = 0 THEN <<>> ELSE Step(f[i - 1], i)
  <2> TAKE i \in 0 .. N
  <2>1. i # 0 => i \in 1 .. N /\ i - 1 \in 0 .. N
    BY <1>2
  <2> QED
    BY <1>3, <1>4, <2>1 DEF Iterates
<1>6. Is(f)
  BY <1>4, <1>5
<1>7. PICK g : Is(g) /\ Only(s, S) = g[N]
  BY <1>1, <1>6
<1>8. g[0] = <<>> /\ \A i \in 1 .. N : g[i] = Step(g[i - 1], i)
  <2>1. 0 \in 0 .. N /\ \A i \in 1 .. N : i \in 0 .. N /\ i # 0
    BY <1>2
  <2> QED
    BY <1>7, <2>1
<1> QED
  BY <1>7, <1>8 DEF Filters, Step, N

\* g lists the positions up to i at which s is in S, and x what s has there.
Picks(g, x, s, S, i) ==
    /\ g \in Seq(1 .. i)
    /\ IsInjective(g)
    /\ \A j \in 1 .. i : s[j] \in S <=> \E k \in 1 .. Len(g) : g[k] = j
    /\ x = [k \in 1 .. Len(g) |-> s[g[k]]]

\* Nothing is picked from no positions.
LEMMA PickNone ==
    ASSUME NEW s, NEW S
    PROVE  Picks(<<>>, <<>>, s, S, 0)
BY DEF Picks, IsInjective

\* One position more is picked where s is in S, and no other.
LEMMA PickOneMore ==
    ASSUME NEW i \in Nat \ {0}, NEW g, NEW x, NEW s, NEW S, Picks(g, x, s, S, i - 1)
    PROVE  /\ s[i] \in S => Picks(Append(g, i), Append(x, s[i]), s, S, i)
           /\ s[i] \notin S => Picks(g, x, s, S, i)
<1>1. g \in Seq(1 .. i - 1) /\ g \in Seq(1 .. i) /\ Append(g, i) \in Seq(1 .. i)
  <2>1. g \in Seq(1 .. i - 1)
    BY DEF Picks
  <2>2. \A k \in 1 .. Len(g) : g[k] \in 1 .. i - 1 /\ g[k] \in 1 .. i
    BY <2>1
  <2>3. g \in Seq(1 .. i)
    BY <2>1, <2>2
  <2> QED
    BY <2>1, <2>3
<1>2. ASSUME s[i] \in S PROVE Picks(Append(g, i), Append(x, s[i]), s, S, i)
  <2> DEFINE h == Append(g, i)
  <2>1. /\ Len(h) = Len(g) + 1 /\ h[Len(g) + 1] = i
        /\ \A k \in 1 .. Len(g) : h[k] = g[k] /\ g[k] \in 1 .. i - 1
        /\ DOMAIN h = 1 .. Len(h) /\ DOMAIN g = 1 .. Len(g)
    BY <1>1
  <2> HIDE DEF h
  <2>2. IsInjective(h)
    <3> SUFFICES ASSUME NEW a \in 1 .. Len(h), NEW b \in 1 .. Len(h), h[a] = h[b] PROVE a = b
      BY <2>1 DEF IsInjective
    <3>1. \A k \in 1 .. Len(h) : k \in 1 .. Len(g) \/ k = Len(g) + 1
      BY <1>1, <2>1
    <3>2. \A k \in 1 .. Len(g) : h[k] # i
      BY <1>1, <2>1
    <3>3. a \in 1 .. Len(g) /\ b \in 1 .. Len(g) => a = b
      BY <2>1 DEF Picks, IsInjective
    <3> QED
      BY <2>1, <3>1, <3>2, <3>3
  <2>3. ASSUME NEW j \in 1 .. i PROVE s[j] \in S <=> \E k \in 1 .. Len(h) : h[k] = j
    <3>1. CASE j = i
      BY <1>1, <1>2, <2>1, <3>1
    <3>2. CASE j # i
      <4>1. j \in 1 .. i - 1
        BY <3>2
      <4>2. s[j] \in S <=> \E k \in 1 .. Len(g) : g[k] = j
        BY <4>1 DEF Picks
      <4>3. \A k \in 1 .. Len(h) : h[k] = j => k \in 1 .. Len(g)
        BY <1>1, <2>1, <3>2
      <4>4. \A k \in 1 .. Len(g) : k \in 1 .. Len(h)
        BY <1>1, <2>1
      <4> QED
        BY <2>1, <4>2, <4>3, <4>4
    <3> QED
      BY <3>1, <3>2
  <2>4. Append(x, s[i]) = [k \in 1 .. Len(h) |-> s[h[k]]]
    <3> DEFINE T == {s[k] : k \in 1 .. i}
    <3>1. x = [k \in 1 .. Len(g) |-> s[g[k]]] /\ Len(g) \in Nat
      BY <1>1 DEF Picks
    <3>2. \A k \in 1 .. Len(g) : s[g[k]] \in T
      BY <1>1
    <3> HIDE DEF T
    <3>3. x \in Seq(T) /\ Len(x) = Len(g)
      BY <3>1, <3>2
    <3> QED
      BY <2>1, <3>1, <3>3
  <2> QED
    BY <1>1, <2>2, <2>3, <2>4 DEF Picks, h
<1>3. ASSUME s[i] \notin S PROVE Picks(g, x, s, S, i)
  <2>1. \A k \in 1 .. Len(g) : g[k] # i
    BY <1>1
  <2> QED
    BY <1>1, <1>3, <2>1 DEF Picks
<1> QED
  BY <1>2, <1>3

\* Two sequences that are in their sets at the same places are left with the
\* same places.
LEMMA OnlyTogether ==
    ASSUME NEW T, NEW s \in Seq(T), NEW S, NEW U, NEW t \in Seq(U), NEW V, Len(t) = Len(s),
           \A i \in 1 .. Len(s) : s[i] \in S <=> t[i] \in V
    PROVE  \E g : Picks(g, Only(s, S), s, S, Len(s)) /\ Picks(g, Only(t, V), t, V, Len(s))
<1>1. PICK e : Filters(e, s, S)
  BY OnlyRecursion
<1>2. PICK f : Filters(f, t, V)
  BY OnlyRecursion
<1> DEFINE N == Len(s)
           P == [i \in 0 .. N |-> \E g : Picks(g, e[i], s, S, i) /\ Picks(g, f[i], t, V, i)]
<1>3. N \in Nat
  OBVIOUS
<1>4. P[0]
  <2>1. e[0] = <<>> /\ f[0] = <<>>
    BY <1>1, <1>2 DEF Filters
  <2>2. Picks(<<>>, e[0], s, S, 0) /\ Picks(<<>>, f[0], t, V, 0)
    BY <2>1, PickNone
  <2> QED
    BY <1>3, <2>2
<1>5. ASSUME NEW i \in 1 .. N, P[i - 1] PROVE P[i]
  <2>1. i \in 0 .. N /\ i - 1 \in 0 .. N /\ i \in Nat \ {0}
    BY <1>3
  <2>2. PICK g : Picks(g, e[i - 1], s, S, i - 1) /\ Picks(g, f[i - 1], t, V, i - 1)
    BY <1>5, <2>1
  <2>3. CASE s[i] \in S
    <3>1. e[i] = Append(e[i - 1], s[i]) /\ f[i] = Append(f[i - 1], t[i]) /\ t[i] \in V
      BY <1>1, <1>2, <2>3 DEF Filters
    <3>2. Picks(Append(g, i), e[i], s, S, i)
      BY <2>1, <2>2, <2>3, <3>1, PickOneMore
    <3>3. Picks(Append(g, i), f[i], t, V, i)
      BY <2>1, <2>2, <3>1, PickOneMore
    <3> QED
      BY <2>1, <3>2, <3>3
  <2>4. CASE s[i] \notin S
    <3>1. e[i] = e[i - 1] /\ f[i] = f[i - 1] /\ t[i] \notin V
      BY <1>1, <1>2, <2>4 DEF Filters
    <3>2. Picks(g, e[i], s, S, i)
      BY <2>1, <2>2, <2>4, <3>1, PickOneMore
    <3>3. Picks(g, f[i], t, V, i)
      BY <2>1, <2>2, <3>1, PickOneMore
    <3> QED
      BY <2>1, <3>2, <3>3
  <2> QED
    BY <2>3, <2>4
<1>6. P[N]
  <2> HIDE DEF P, N
  <2>1. \A i \in 0 .. N : P[i]
    BY <1>3, <1>4, <1>5, Induction
  <2> QED
    BY <1>3, <2>1
<1>7. Only(s, S) = e[N] /\ Only(t, V) = f[N]
  BY <1>1, <1>2 DEF Filters
<1> QED
  BY <1>3, <1>6, <1>7

\* What Only keeps: the members in the set, no place twice.
LEMMA OnlyIs ==
    ASSUME NEW T, NEW s \in Seq(T), NEW S
    PROVE  /\ Only(s, S) \in Seq(T)
           /\ Range(Only(s, S)) = Range(s) \cap S
           /\ IsInjective(s) => IsInjective(Only(s, S))
<1> DEFINE x == Only(s, S)
<1>1. PICK g : Picks(g, x, s, S, Len(s))
  BY OnlyTogether
<1> HIDE DEF x
<1>2. /\ Len(s) \in Nat /\ DOMAIN s = 1 .. Len(s) /\ g \in Seq(1 .. Len(s))
      /\ \A k \in 1 .. Len(g) : g[k] \in 1 .. Len(s) /\ x[k] = s[g[k]] /\ s[g[k]] \in T /\ s[g[k]] \in S
      /\ DOMAIN x = 1 .. Len(g) /\ x = [k \in 1 .. Len(g) |-> s[g[k]]]
  BY <1>1 DEF Picks
<1>3. x \in Seq(T)
  BY <1>2
<1>4. Range(x) \subseteq Range(s) \cap S
  BY <1>2 DEF Range
<1>5. ASSUME NEW j \in 1 .. Len(s), s[j] \in S PROVE s[j] \in Range(x)
  <2>1. PICK k \in 1 .. Len(g) : g[k] = j
    BY <1>1, <1>5 DEF Picks
  <2> QED
    BY <1>2, <2>1 DEF Range
<1>6. Range(s) \cap S \subseteq Range(x)
  BY <1>2, <1>5 DEF Range
<1>7. IsInjective(s) => IsInjective(x)
  <2> SUFFICES ASSUME IsInjective(s), NEW a \in 1 .. Len(g), NEW b \in 1 .. Len(g), x[a] = x[b] PROVE a = b
    BY <1>2 DEF IsInjective
  <2>1. g[a] = g[b]
    BY <1>2 DEF IsInjective
  <2>2. DOMAIN g = 1 .. Len(g)
    BY <1>2
  <2> QED
    BY <1>1, <2>1, <2>2 DEF Picks, IsInjective
<1> QED
  BY <1>3, <1>4, <1>6, <1>7 DEF x

\* One sequence after another.
LEMMA Concat ==
    ASSUME NEW T, NEW s \in Seq(T), NEW t \in Seq(T)
    PROVE  /\ s \o t \in Seq(T)
           /\ Len(s \o t) = Len(s) + Len(t)
           /\ \A i \in 1 .. Len(s) : i \in DOMAIN (s \o t) /\ (s \o t)[i] = s[i]
           /\ \A i \in 1 .. Len(t) : Len(s) + i \in DOMAIN (s \o t) /\ (s \o t)[Len(s) + i] = t[i]
           /\ \A i \in DOMAIN (s \o t) : i \in 1 .. Len(s) \/ \E j \in 1 .. Len(t) : i = Len(s) + j
<1>1. /\ s \o t \in Seq(T) /\ Len(s) \in Nat /\ Len(t) \in Nat
      /\ Len(s \o t) = Len(s) + Len(t)
      /\ \A i \in 1 .. Len(s) + Len(t) : (s \o t)[i] = IF i <= Len(s) THEN s[i] ELSE t[i - Len(s)]
      /\ DOMAIN (s \o t) = 1 .. Len(s) + Len(t)
  OBVIOUS
<1>2. ASSUME NEW i \in 1 .. Len(s) PROVE i \in 1 .. Len(s) + Len(t) /\ i <= Len(s)
  BY <1>1
<1>3. ASSUME NEW i \in 1 .. Len(t)
      PROVE Len(s) + i \in 1 .. Len(s) + Len(t) /\ ~ (Len(s) + i <= Len(s)) /\ (Len(s) + i) - Len(s) = i
  BY <1>1
<1>4. ASSUME NEW i \in 1 .. Len(s) + Len(t), i \notin 1 .. Len(s)
      PROVE \E j \in 1 .. Len(t) : i = Len(s) + j
  <2>1. i - Len(s) \in 1 .. Len(t) /\ i = Len(s) + (i - Len(s))
    BY <1>1, <1>4
  <2> QED
    BY <2>1
<1>5. \A i \in 1 .. Len(t) : Len(s) + i \in DOMAIN (s \o t) /\ (s \o t)[Len(s) + i] = t[i]
  BY <1>1, <1>3
<1> QED
  BY <1>1, <1>2, <1>4, <1>5

\* The members of two sequences, one after the other.
LEMMA ConcatRange ==
    ASSUME NEW T, NEW s \in Seq(T), NEW t \in Seq(T)
    PROVE  Range(s \o t) = Range(s) \cup Range(t)
<1>1. DOMAIN s = 1 .. Len(s) /\ DOMAIN t = 1 .. Len(t)
  OBVIOUS
<1>2. Range(s \o t) \subseteq Range(s) \cup Range(t)
  <2> SUFFICES ASSUME NEW i \in DOMAIN (s \o t) PROVE (s \o t)[i] \in Range(s) \cup Range(t)
    BY DEF Range
  <2>1. CASE i \in 1 .. Len(s)
    BY <1>1, <2>1, Concat DEF Range
  <2>2. ASSUME NEW j \in 1 .. Len(t), i = Len(s) + j PROVE (s \o t)[i] \in Range(t)
    <3>1. (s \o t)[i] = t[j]
      BY <2>2, Concat
    <3> QED
      BY <1>1, <3>1 DEF Range
  <2> QED
    BY <2>1, <2>2, Concat
<1>3. Range(s) \subseteq Range(s \o t)
  BY <1>1, Concat DEF Range
<1>4. Range(t) \subseteq Range(s \o t)
  <2> SUFFICES ASSUME NEW i \in 1 .. Len(t) PROVE t[i] \in Range(s \o t)
    BY <1>1 DEF Range
  <2>1. Len(s) + i \in DOMAIN (s \o t) /\ (s \o t)[Len(s) + i] = t[i]
    BY Concat
  <2> QED
    BY <2>1 DEF Range
<1> QED
  BY <1>2, <1>3, <1>4

\* Two sequences without a repeat that share nothing have none together.
LEMMA ConcatInjective ==
    ASSUME NEW T, NEW s \in Seq(T), NEW t \in Seq(T), IsInjective(s), IsInjective(t),
           Range(s) \cap Range(t) = {}
    PROVE  IsInjective(s \o t)
<1>1. DOMAIN s = 1 .. Len(s) /\ DOMAIN t = 1 .. Len(t)
  OBVIOUS
<1> SUFFICES ASSUME NEW a \in DOMAIN (s \o t), NEW b \in DOMAIN (s \o t), (s \o t)[a] = (s \o t)[b]
             PROVE  a = b
  BY DEF IsInjective
<1>2. \A i \in 1 .. Len(s), j \in 1 .. Len(t) : s[i] # t[j]
  BY <1>1 DEF Range
<1>3. CASE a \in 1 .. Len(s) /\ b \in 1 .. Len(s)
  BY <1>1, <1>3, Concat DEF IsInjective
<1>4. ASSUME NEW i \in 1 .. Len(t), a = Len(s) + i, NEW j \in 1 .. Len(t), b = Len(s) + j PROVE a = b
  <2>1. (s \o t)[a] = t[i] /\ (s \o t)[b] = t[j]
    BY <1>4, Concat
  <2> QED
    BY <1>1, <1>4, <2>1 DEF IsInjective
<1>5. ASSUME a \in 1 .. Len(s), NEW j \in 1 .. Len(t), b = Len(s) + j PROVE FALSE
  BY <1>2, <1>5, Concat
<1>6. ASSUME b \in 1 .. Len(s), NEW j \in 1 .. Len(t), a = Len(s) + j PROVE FALSE
  BY <1>2, <1>6, Concat
<1> QED
  BY <1>3, <1>4, <1>5, <1>6, Concat

\* Names that are replaced where they stand, or added, are still without a repeat.
LEMMA ReplacingIs ==
    ASSUME NEW cols_ \in Seq(Name), NEW names \in Seq(Name)
    PROVE  /\ Replacing(cols_, names) \in Seq(Name)
           /\ cols_ \in Distinct /\ names \in Distinct => Replacing(cols_, names) \in Distinct
           /\ Range(Replacing(cols_, names)) = Range(cols_) \cup Range(names)
<1> DEFINE new == Only(names, Range(names) \ Range(cols_))
<1>1. /\ new \in Seq(Name)
      /\ Range(new) = Range(names) \ Range(cols_)
      /\ IsInjective(names) => IsInjective(new)
  BY OnlyIs
<1>2. Replacing(cols_, names) = cols_ \o new
  BY DEF Replacing
<1> HIDE DEF new
<1>3. cols_ \o new \in Seq(Name) /\ Range(cols_ \o new) = Range(cols_) \cup Range(new)
  BY <1>1, Concat, ConcatRange
<1>4. IsInjective(cols_) /\ IsInjective(names) => IsInjective(cols_ \o new)
  BY <1>1, ConcatInjective
<1> QED
  BY <1>1, <1>2, <1>3, <1>4 DEF Distinct

-----------------------------------------------------------------------------
\* The names of a clause's and of an operator's output.

\* f is the recursion of JoinColumns.
Joins(f, l, r) ==
    /\ f[0] = l
    /\ \A i \in 1 .. Len(r) : f[i] = Append(f[i - 1], Disambiguate(r[i], Range(f[i - 1])))
    /\ JoinColumns(l, r) = f[Len(r)]

\* JoinColumns is a recursion.
LEMMA JoinRecursion ==
    ASSUME NEW l \in Distinct, NEW r \in Seq(Name)
    PROVE  \E f : Joins(f, l, r)
<1> DEFINE N == Len(r)
           Step(x, i) == Append(x, Disambiguate(r[i], Range(x)))
           Is(f) == f = [i \in 0 .. N |-> IF i = 0 THEN l ELSE Step(f[i - 1], i)]
           D == [i \in 1 .. N |-> [x \in Distinct |-> Step(x, i)]]
<1>1. JoinColumns(l, r) = (CHOOSE f : Is(f))[N]
  BY DEF JoinColumns
<1>2. N \in Nat /\ \A i \in 1 .. N : \A x \in Distinct : Step(x, i) \in Distinct
  <2>1. ASSUME NEW i \in 1 .. N, NEW x \in Distinct PROVE Step(x, i) \in Distinct
    <3>1. r[i] \in Name /\ x \in Seq(Name)
      BY DEF Distinct
    <3>2. IsFiniteSet(Range(x))
      BY <3>1, RangeFinite
    <3>3. Disambiguate(r[i], Range(x)) \in Name \ Range(x)
      BY <3>1, <3>2, TakeIs
    <3> QED
      BY <3>3, AppendDistinct
  <2> QED
    BY <2>1
<1>3. \A i \in 1 .. N : \A x \in Distinct : D[i][x] = Step(x, i)
  OBVIOUS
<1> HIDE DEF Step, N, D
<1>4. PICK f \in [0 .. N -> Distinct] : Iterates(f, l, D, N)
  <2>1. \A i \in 1 .. N : \A x \in Distinct : D[i][x] \in Distinct
    BY <1>2, <1>3
  <2> QED
    BY <1>2, <2>1, RecursionInto
<1>5. \A i \in 0 .. N : f[i] = IF i = 0 THEN l ELSE Step(f[i - 1], i)
  <2> TAKE i \in 0 .. N
  <2>1. i # 0 => i \in 1 .. N /\ i - 1 \in 0 .. N
    BY <1>2
  <2> QED
    BY <1>3, <1>4, <2>1 DEF Iterates
<1>6. Is(f)
  BY <1>4, <1>5
<1>7. PICK g : Is(g) /\ JoinColumns(l, r) = g[N]
  BY <1>1, <1>6
<1>8. g[0] = l /\ \A i \in 1 .. N : g[i] = Step(g[i - 1], i)
  <2>1. 0 \in 0 .. N /\ \A i \in 1 .. N : i \in 0 .. N /\ i # 0
    BY <1>2
  <2> QED
    BY <1>7, <2>1
<1> QED
  BY <1>7, <1>8 DEF Joins, Step, N

\* The left's names are kept, the right's are moved past those already there.
LEMMA JoinColumnsIs ==
    ASSUME NEW l \in Distinct, NEW r \in Seq(Name)
    PROVE  /\ JoinColumns(l, r) \in Distinct
           /\ Len(JoinColumns(l, r)) = Len(l) + Len(r)
           /\ \A k \in 1 .. Len(l) : JoinColumns(l, r)[k] = l[k]
<1>1. PICK f : Joins(f, l, r)
  BY JoinRecursion
<1> DEFINE N == Len(r)
           Good(x, i) == /\ x \in Distinct
                         /\ Len(x) = Len(l) + i
                         /\ \A k \in 1 .. Len(l) : x[k] = l[k]
           P == [i \in 0 .. N |-> Good(f[i], i)]
<1>2. N \in Nat /\ l \in Seq(Name) /\ Len(l) \in Nat
  BY DEF Distinct
<1>3. P[0]
  BY <1>1, <1>2 DEF Joins
<1>4. ASSUME NEW i \in 1 .. N, P[i - 1] PROVE P[i]
  <2>1. i \in 0 .. N /\ i - 1 \in 0 .. N /\ i \in Nat
    BY <1>2
  <2> DEFINE x == f[i - 1]
             name == Disambiguate(r[i], Range(x))
  <2>2. x \in Distinct /\ Len(x) = Len(l) + (i - 1) /\ \A k \in 1 .. Len(l) : x[k] = l[k]
    BY <1>4, <2>1
  <2>3. f[i] = Append(x, name)
    BY <1>1 DEF Joins
  <2> HIDE DEF x
  <2>4. name \in Name \ Range(x)
    <3>1. r[i] \in Name /\ x \in Seq(Name)
      BY <2>2 DEF Distinct
    <3> QED
      BY <3>1, RangeFinite, TakeIs
  <2>5. Append(x, name) \in Distinct
    BY <2>2, <2>4, AppendDistinct
  <2>6. /\ Len(Append(x, name)) = Len(l) + i
        /\ \A k \in 1 .. Len(l) : Append(x, name)[k] = l[k]
    <3>1. x \in Seq(Name)
      BY <2>2 DEF Distinct
    <3> HIDE DEF name
    <3> QED
      BY <1>2, <2>1, <2>2, <3>1
  <2> QED
    BY <2>1, <2>3, <2>5, <2>6
<1>5. P[N]
  <2> HIDE DEF P, N
  <2>1. \A i \in 0 .. N : P[i]
    BY <1>2, <1>3, <1>4, Induction
  <2> QED
    BY <1>2, <2>1
<1>6. JoinColumns(l, r) = f[N]
  BY <1>1 DEF Joins
<1> QED
  BY <1>2, <1>5, <1>6

\* What a target is called, if anything.
LEMMA TargetNames ==
    ASSUME NEW t \in Target
    PROVE  Base(t) \in Name \cup {NoName} /\ Spelled(t) \in Name \cup {NoName}
<1>1. t.col \in Name /\ t.name \in Name \cup {NoName}
  BY DEF Target
<1>2. [t.col EXCEPT !.prefix = "sum_"] \in Name
  BY <1>1 DEF Name
<1> QED
  BY <1>1, <1>2 DEF Base, ExpressionName, Spelled

\* ColumnN is a name.
LEMMA PositionalName ==
    ASSUME NEW p \in Nat
    PROVE  Numbered(Plain("Column"), p) \in Name
<1>1. Plain("Column") \in Of(Stems) /\ Of(Stems) = Name
  <2>1. <<>> \in Seq(Nat)
    OBVIOUS
  <2> QED
    BY <2>1, StemsAssumption DEF Of, Plain, Name
<1> QED
  BY <1>1, NumberedIs

\* Namer gives every target a name of its own.
LEMMA NamerIs ==
    ASSUME NEW targets \in Seq(Target), NEW reserved, IsFiniteSet(reserved), NEW skip, IsFiniteSet(skip)
    PROVE  Namer(targets, reserved, skip) \in Distinct /\ Len(Namer(targets, reserved, skip)) = Len(targets)
<1> DEFINE N == Len(targets)
           Number(x, i) == IF Base(targets[i]) = NoName THEN Positional(x.positional, skip) ELSE x.positional
           Wanted(x, i) == IF Base(targets[i]) = NoName THEN Numbered(Plain("Column"), Number(x, i))
                           ELSE Base(targets[i])
           Step(x, i) == [names |-> Append(x.names, Take(Wanted(x, i), Range(x.names), reserved)),
                          positional |-> Number(x, i)]
           None == [names |-> <<>>, positional |-> 0]
           Is(f) == f = [i \in 0 .. N |-> IF i = 0 THEN None ELSE Step(f[i - 1], i)]
           W == [names : Distinct, positional : Nat]
           D == [i \in 1 .. N |-> [x \in W |-> Step(x, i)]]
<1>1. Namer(targets, reserved, skip) = (CHOOSE f : Is(f))[N].names
  BY DEF Namer
<1>2. ASSUME NEW i \in 1 .. N, NEW x \in W
      PROVE  Step(x, i) \in W /\ Len(Step(x, i).names) = Len(x.names) + 1
  <2>1. x.names \in Distinct /\ x.positional \in Nat /\ targets[i] \in Target
    OBVIOUS
  <2>2. Number(x, i) \in Nat
    BY <2>1, PositionalIs
  <2>3. Wanted(x, i) \in Name
    <3> HIDE DEF Number
    <3> QED
      BY <2>1, <2>2, TargetNames, PositionalName
  <2> HIDE DEF Number, Wanted
  <2>4. x.names \in Seq(Name)
    BY <2>1 DEF Distinct
  <2>5. Take(Wanted(x, i), Range(x.names), reserved) \in Name \ Range(x.names)
    BY <2>3, <2>4, RangeFinite, TakeIs
  <2>6. Append(x.names, Take(Wanted(x, i), Range(x.names), reserved)) \in Distinct
    BY <2>1, <2>5, AppendDistinct
  <2> QED
    BY <2>2, <2>4, <2>6
<1>3. N \in Nat /\ N \in 0 .. N /\ 0 \in 0 .. N /\ None \in W /\ Len(None.names) = 0
  <2>1. <<>> \in Distinct
    <3>1. <<>> \in Seq(Name)
      OBVIOUS
    <3> QED
      BY <3>1 DEF Distinct, IsInjective
  <2> QED
    BY <2>1
<1>4. \A i \in 1 .. N : \A x \in W : D[i][x] = Step(x, i)
  OBVIOUS
<1> HIDE DEF Step, N, D, None
<1>5. PICK f \in [0 .. N -> W] : Iterates(f, None, D, N)
  <2>1. \A i \in 1 .. N : \A x \in W : D[i][x] \in W
    BY <1>2, <1>4
  <2> HIDE DEF W
  <2> QED
    BY <1>3, <2>1, RecursionInto
<1>6. \A i \in 0 .. N : f[i] = IF i = 0 THEN None ELSE Step(f[i - 1], i)
  <2> TAKE i \in 0 .. N
  <2>1. i # 0 => i \in 1 .. N /\ i - 1 \in 0 .. N
    BY <1>3
  <2> HIDE DEF W
  <2> QED
    BY <1>4, <1>5, <2>1 DEF Iterates
<1>7. Is(f)
  BY <1>5, <1>6
<1>8. PICK g : Is(g) /\ Namer(targets, reserved, skip) = g[N].names
  BY <1>1, <1>7
<1>9. g[0] = None /\ \A i \in 1 .. N : g[i] = Step(g[i - 1], i)
  <2>1. 0 \in 0 .. N /\ \A i \in 1 .. N : i \in 0 .. N /\ i # 0
    BY <1>3
  <2> QED
    BY <1>8, <2>1
<1> DEFINE P == [i \in 0 .. N |-> g[i] \in W /\ Len(g[i].names) = i]
<1>10. P[0]
  <2> HIDE DEF W
  <2> QED
    BY <1>3, <1>9
<1>11. ASSUME NEW i \in 1 .. N, P[i - 1] PROVE P[i]
  <2>1. i \in 0 .. N /\ i - 1 \in 0 .. N /\ i \in Nat /\ (i - 1) + 1 = i
    BY <1>3
  <2>2. g[i - 1] \in W /\ Len(g[i - 1].names) = i - 1
    BY <1>11, <2>1
  <2>3. g[i] \in W /\ Len(g[i].names) = i
    BY <1>2, <1>9, <2>1, <2>2
  <2> QED
    BY <2>1, <2>3
<1>12. P[N]
  <2> HIDE DEF P
  <2>1. \A i \in 0 .. N : P[i]
    BY <1>3, <1>10, <1>11, Induction
  <2> QED
    BY <1>3, <2>1
<1>13. g[N].names \in Distinct /\ Len(g[N].names) = N
  BY <1>3, <1>12
<1> QED
  BY <1>8, <1>13 DEF N

\* The names of project and of summarize are without a repeat, one for each target.
LEMMA ClauseNames ==
    ASSUME NEW targets \in Seq(Target), NEW aggregates \in Seq(Target), NEW names, IsFiniteSet(names)
    PROVE  /\ ProjectNames(targets) \in Distinct
           /\ Len(ProjectNames(targets)) = Len(targets)
           /\ SummarizeNames(targets, aggregates, names) \in Distinct
           /\ Len(SummarizeNames(targets, aggregates, names)) = Len(targets \o aggregates)
<1> DEFINE spelled == [i \in 1 .. Len(targets) |-> Spelled(targets[i])]
           given == [i \in 1 .. Len(aggregates) |-> aggregates[i].name]
<1>1. spelled \in Seq(Name \cup {NoName}) /\ given \in Seq(Name \cup {NoName})
  <2>1. ASSUME NEW i \in 1 .. Len(targets) PROVE Spelled(targets[i]) \in Name \cup {NoName}
    BY TargetNames
  <2>2. ASSUME NEW i \in 1 .. Len(aggregates) PROVE aggregates[i].name \in Name \cup {NoName}
    <3>1. aggregates[i] \in Target
      OBVIOUS
    <3> QED
      BY <3>1 DEF Target
  <2> QED
    BY <2>1, <2>2
<1>2. IsFiniteSet(Range(spelled)) /\ IsFiniteSet(Range(given))
  BY <1>1, RangeFinite
<1>3. IsFiniteSet(Declared(targets)) /\ IsFiniteSet({a.name : a \in Range(aggregates)} \ {NoName})
  <2>1. DOMAIN targets = 1 .. Len(targets) /\ DOMAIN aggregates = 1 .. Len(aggregates)
    OBVIOUS
  <2>2. Declared(targets) \in SUBSET Range(spelled)
    BY <2>1 DEF Declared, Range
  <2>3. {a.name : a \in Range(aggregates)} \ {NoName} \in SUBSET Range(given)
    BY <2>1 DEF Range
  <2> HIDE DEF spelled, given
  <2> QED
    BY <1>2, <2>2, <2>3, FS_Subset
<1>4. IsFiniteSet(Declared(targets) \cup ({a.name : a \in Range(aggregates)} \ {NoName}))
  BY <1>3, FS_Union
<1>5. IsFiniteSet({})
  BY FS_EmptySet
<1>6. targets \o aggregates \in Seq(Target)
  OBVIOUS
<1> QED
  BY <1>3, <1>4, <1>5, <1>6, NamerIs DEF ProjectNames, SummarizeNames

\* extend names every target.
LEMMA ExtendNamesAre ==
    ASSUME NEW targets \in Seq(Target), NEW names, IsFiniteSet(names)
    PROVE  ExtendNames(targets, names) \in Seq(Name) /\ Len(ExtendNames(targets, names)) = Len(targets)
<1> DEFINE N == Len(targets)
           Is(f) == f = [k \in 0 .. N |-> IF k = 0 THEN 0 ELSE Positional(f[k - 1], names)]
           D == [i \in 1 .. N |-> [p \in Nat |-> Positional(p, names)]]
           Generated(i) == {j \in 1 .. i : Base(targets[j]) = NoName}
<1>1. N \in Nat /\ DOMAIN targets = 1 .. N
  OBVIOUS
<1>2. \A i \in 1 .. N : \A p \in Nat : D[i][p] = Positional(p, names) /\ D[i][p] \in Nat
  BY PositionalIs
<1> HIDE DEF N, D
<1>3. PICK f \in [0 .. N -> Nat] : Iterates(f, 0, D, N)
  BY <1>1, <1>2, RecursionInto
<1>4. \A i \in 0 .. N : f[i] = IF i = 0 THEN 0 ELSE Positional(f[i - 1], names)
  <2> TAKE i \in 0 .. N
  <2>1. i # 0 => i \in 1 .. N /\ i - 1 \in 0 .. N
    BY <1>1
  <2> QED
    BY <1>2, <1>3, <2>1 DEF Iterates
<1>5. Is(f)
  BY <1>3, <1>4
<1>6. PICK g : /\ Is(g)
               /\ ExtendNames(targets, names) =
                    [i \in DOMAIN targets |->
                        IF Base(targets[i]) # NoName THEN Base(targets[i])
                        ELSE Numbered(Plain("Column"), g[Cardinality(Generated(i))])]
  <2>1. ExtendNames(targets, names) =
            [i \in DOMAIN targets |->
                IF Base(targets[i]) # NoName THEN Base(targets[i])
                ELSE Numbered(Plain("Column"), (CHOOSE h : Is(h))[Cardinality(Generated(i))])]
    BY DEF ExtendNames, N
  <2> HIDE DEF Is, Generated
  <2> QED
    BY <1>5, <2>1
<1>7. g[0] = 0 /\ \A i \in 1 .. N : g[i] = Positional(g[i - 1], names)
  <2>1. 0 \in 0 .. N /\ \A i \in 1 .. N : i \in 0 .. N /\ i # 0
    BY <1>1
  <2> QED
    BY <1>6, <2>1
<1>8. \A i \in 0 .. N : g[i] \in Nat
  <2> DEFINE W == [i \in 0 .. N |-> Nat]
  <2>1. g[0] \in W[0] /\ \A i \in 1 .. N : g[i - 1] \in W[i - 1] => g[i] \in W[i]
    <3>1. 0 \in 0 .. N /\ \A i \in 1 .. N : i \in 0 .. N /\ i - 1 \in 0 .. N
      BY <1>1
    <3> QED
      BY <1>7, <3>1, PositionalIs
  <2>2. \A i \in 0 .. N : g[i] \in W[i]
    <3> HIDE DEF W
    <3> QED
      BY <1>1, <2>1, RecursionStays
  <2> QED
    BY <2>2
<1>9. ASSUME NEW i \in 1 .. N PROVE Cardinality(Generated(i)) \in 0 .. N
  <2>1. i \in Int /\ 1 \in Int /\ Generated(i) \in SUBSET (1 .. i)
    BY <1>1
  <2>2. IsFiniteSet(1 .. i) /\ Cardinality(1 .. i) = i
    <3>1. i = IF 1 > i THEN 0 ELSE i - 1 + 1
      BY <1>1
    <3> QED
      BY <2>1, <3>1, FS_Interval
  <2> HIDE DEF Generated
  <2>3. IsFiniteSet(Generated(i)) /\ Cardinality(Generated(i)) <= i
    BY <2>1, <2>2, FS_Subset
  <2>4. Cardinality(Generated(i)) \in Nat
    BY <2>3, FS_CardinalityType
  <2> QED
    BY <1>1, <2>3, <2>4
<1>10. ASSUME NEW i \in 1 .. N
       PROVE  (IF Base(targets[i]) # NoName THEN Base(targets[i])
               ELSE Numbered(Plain("Column"), g[Cardinality(Generated(i))])) \in Name
  <2>1. targets[i] \in Target
    BY <1>1
  <2>2. g[Cardinality(Generated(i))] \in Nat
    BY <1>8, <1>9
  <2> HIDE DEF Generated
  <2> QED
    BY <2>1, <2>2, TargetNames, PositionalName
<1> HIDE DEF Generated
<1>11. ExtendNames(targets, names) \in [1 .. N -> Name]
  BY <1>1, <1>6, <1>10
<1> HIDE DEF Is
<1> QED
  BY <1>1, <1>11 DEF N

-----------------------------------------------------------------------------
\* Values, columns, and what DuckDB looks up in them.

Values == Seq(Word) \ {<<>>}

ColumnType == [name : Name, value : Values]

Rel == Seq([name : Name, value : Values])

Items == [fn : Word, col : Name, let : BOOLEAN, as : Name]

\* No two columns have the same name but for the case.
Apart(rel) == \A c, d \in Range(rel) : Fold(c.name) = Fold(d.name) => c = d

\* What an item reads in the input.
Read(rel, t) == IF t.let THEN LetValue ELSE Lookup(rel, t.col)

\* The members of a sequence, and its domain.
LEMMA Members ==
    \A S : \A s \in Seq(S) : /\ Len(s) \in Nat
                             /\ DOMAIN s = 1 .. Len(s)
                             /\ \A i \in 1 .. Len(s) : s[i] \in S
OBVIOUS

\* The marks for what is missing, the let and null are values, and differ.
LEMMA Marks ==
    /\ Missing \in Values /\ LetValue \in Values /\ Null \in Values
    /\ LetValue # Missing
    /\ Value \subseteq Values
<1>1. Missing \in Values /\ LetValue \in Values /\ Null \in Values
  <2>1. "missing" \in Word /\ "let" \in Word /\ "null" \in Word
    BY DEF Word
  <2> HIDE DEF Word
  <2>2. <<"missing">> \in Seq(Word) /\ <<"let">> \in Seq(Word) /\ <<"null">> \in Seq(Word)
    BY <2>1
  <2> QED
    BY <2>2 DEF Missing, LetValue, Null, Values
<1>2. LetValue # Missing
  BY DEF LetValue, Missing
<1>3. Value \subseteq Values
  <2>1. STRING \subseteq Word
    BY DEF Word
  <2>2. ASSUME NEW S, NEW T, S \subseteq T, NEW v \in Seq(S) PROVE v \in Seq(T)
    <3>1. Len(v) \in Nat /\ v = [i \in 1 .. Len(v) |-> v[i]] /\ \A i \in 1 .. Len(v) : v[i] \in S
      OBVIOUS
    <3>2. \A i \in 1 .. Len(v) : v[i] \in T
      BY <2>2, <3>1
    <3> QED
      BY <3>1, <3>2
  <2> QED
    BY <2>1, <2>2 DEF Value, Values
<1> QED
  BY <1>1, <1>2, <1>3

\* What is made of a value is a value, and no more missing than it was.
LEMMA AppliedIs ==
    ASSUME NEW fn \in Word, NEW v \in Values
    PROVE  Applied(fn, v) \in Values /\ (Applied(fn, v) = Missing <=> v = Missing)
<1>1. v \in Seq(Word) /\ Len(v) > 0
  BY DEF Values
<1>2. Append(v, fn) \in Seq(Word) /\ Len(Append(v, fn)) > 1
  BY <1>1
<1>3. Len(Missing) = 1 /\ Len(<<>>) = 0
  BY DEF Missing
<1> QED
  BY <1>2, <1>3 DEF Applied, Values

\* Values that are put together, by where or by union, are a value that is there.
LEMMA JoinedIs ==
    ASSUME NEW u \in Values, NEW v \in Values
    PROVE  /\ u \o <<"where">> \o v \in Values \ {Missing}
           /\ <<"union">> \o u \o v \in Values \ {Missing}
<1>1. u \in Seq(Word) /\ Len(u) > 0 /\ v \in Seq(Word) /\ Len(v) > 0
  BY DEF Values
<1>2. <<"where">> \in Seq(Word) /\ <<"union">> \in Seq(Word)
  <2>1. "where" \in Word /\ "union" \in Word
    BY DEF Word
  <2> HIDE DEF Word
  <2> QED
    BY <2>1
<1>3. /\ u \o <<"where">> \o v \in Seq(Word) /\ Len(u \o <<"where">> \o v) > 1
      /\ <<"union">> \o u \o v \in Seq(Word) /\ Len(<<"union">> \o u \o v) > 1
  BY <1>1, <1>2
<1>4. Len(Missing) = 1 /\ Len(<<>>) = 0
  BY DEF Missing
<1> QED
  BY <1>3, <1>4 DEF Values

\* DuckDB's look-up.
LEMMA LookupIs ==
    ASSUME NEW rel \in Rel, NEW name
    PROVE  /\ Lookup(rel, name) \in Values
           /\ Lookup(rel, name) # Missing => \E c \in Range(rel) : Fold(c.name) = Fold(name)
           /\ \A c \in Range(rel) : Fold(c.name) = Fold(name) /\ ~HasMissing(rel) => Lookup(rel, name) # Missing
           /\ \A c \in Range(rel) : Apart(rel) /\ Fold(c.name) = Fold(name) => Lookup(rel, name) = c.value
<1> DEFINE hits == {i \in DOMAIN rel : Fold(rel[i].name) = Fold(name)}
           first == CHOOSE i \in hits : \A j \in hits : i <= j
<1>1. Lookup(rel, name) = IF hits = {} THEN Missing ELSE rel[first].value
  BY DEF Lookup
<1>2. DOMAIN rel = 1 .. Len(rel) /\ Len(rel) \in Nat /\ hits \in SUBSET Nat
  BY Members DEF Rel
<1>3. hits # {} => first \in hits
  <2>1. hits # {} => \E i \in hits : \A j \in hits : i <= j
    <3> HIDE DEF hits
    <3> QED
      BY <1>2, LeastNatural
  <2> HIDE DEF hits
  <2> QED
    BY <2>1
<1>4. \A i \in DOMAIN rel : rel[i].value \in Values /\ rel[i] \in Range(rel)
  <2>1. \A i \in DOMAIN rel : rel[i] \in [name : Name, value : Values]
    BY <1>2, Members DEF Rel
  <2> QED
    BY <2>1 DEF Range
<1>5. \A i \in hits : i \in DOMAIN rel /\ Fold(rel[i].name) = Fold(name)
  OBVIOUS
<1>6. \A c \in Range(rel) : Fold(c.name) = Fold(name) => hits # {}
  BY DEF Range
<1> HIDE DEF hits, first
<1>7. Lookup(rel, name) \in Values
  BY <1>1, <1>3, <1>4, <1>5, Marks
<1>8. Lookup(rel, name) # Missing => \E c \in Range(rel) : Fold(c.name) = Fold(name)
  BY <1>1, <1>3, <1>4, <1>5
<1>9. ASSUME NEW c \in Range(rel), Fold(c.name) = Fold(name)
      PROVE  /\ ~HasMissing(rel) => Lookup(rel, name) # Missing
             /\ Apart(rel) => Lookup(rel, name) = c.value
  <2>1. first \in DOMAIN rel /\ Fold(rel[first].name) = Fold(c.name) /\ rel[first] \in Range(rel)
        /\ Lookup(rel, name) = rel[first].value
    BY <1>1, <1>3, <1>4, <1>5, <1>6, <1>9
  <2>2. Apart(rel) => rel[first] = c
    BY <2>1 DEF Apart
  <2> QED
    BY <2>1, <2>2 DEF HasMissing
<1> QED
  BY <1>7, <1>8, <1>9

-----------------------------------------------------------------------------
\* A SELECT.

\* What item t reads once the items of x are named.
ReadAfter(rel, t, x) ==
    IF t.let THEN LetValue
    ELSE IF Lookup(rel, t.col) # Missing THEN Lookup(rel, t.col)
    ELSE Lookup(x, t.col)

\* f is the recursion of Select.
Selects(f, rel, items) ==
    /\ f[0] = <<>>
    /\ \A i \in 1 .. Len(items) :
          f[i] = Append(f[i - 1], Column(items[i].as, Applied(items[i].fn, ReadAfter(rel, items[i], f[i - 1]))))
    /\ Select(rel, items) = f[Len(items)]

\* A column that an item makes is one.
LEMMA ItemIs ==
    ASSUME NEW rel \in Rel, NEW t \in Items, NEW x \in Rel
    PROVE  Column(t.as, Applied(t.fn, ReadAfter(rel, t, x))) \in [name : Name, value : Values]
<1>1. t.fn \in Word /\ t.as \in Name
  BY DEF Items
<1>2. ReadAfter(rel, t, x) \in Values
  BY LookupIs, Marks DEF ReadAfter
<1> QED
  BY <1>1, <1>2, AppliedIs DEF Column

\* Select is a recursion.
LEMMA SelectRecursion ==
    ASSUME NEW rel \in Rel, NEW items \in Seq(Items)
    PROVE  \E f : Selects(f, rel, items)
<1> DEFINE N == Len(items)
           Step(x, i) == Append(x, Column(items[i].as, Applied(items[i].fn, ReadAfter(rel, items[i], x))))
           Is(f) == f = [i \in 0 .. N |-> IF i = 0 THEN <<>> ELSE Step(f[i - 1], i)]
           D == [i \in 1 .. N |-> [x \in Rel |-> Step(x, i)]]
<1>1. Select(rel, items) = (CHOOSE f : Is(f))[N]
  BY DEF Select, ReadAfter
<1>2. N \in Nat /\ <<>> \in Rel /\ \A i \in 1 .. N : \A x \in Rel : Step(x, i) \in Rel
  <2>1. ASSUME NEW i \in 1 .. N, NEW x \in Rel PROVE Step(x, i) \in Rel
    <3>1. items[i] \in Items
      BY Members
    <3>2. Column(items[i].as, Applied(items[i].fn, ReadAfter(rel, items[i], x))) \in [name : Name, value : Values]
      BY <3>1, ItemIs
    <3> QED
      BY <3>2 DEF Rel
  <2>2. <<>> \in Rel
    BY DEF Rel
  <2> QED
    BY <2>1, <2>2
<1>3. \A i \in 1 .. N : \A x \in Rel : D[i][x] = Step(x, i)
  OBVIOUS
<1> HIDE DEF Step, N, D
<1>4. PICK f \in [0 .. N -> Rel] : Iterates(f, <<>>, D, N)
  <2>1. \A i \in 1 .. N : \A x \in Rel : D[i][x] \in Rel
    BY <1>2, <1>3
  <2> QED
    BY <1>2, <2>1, RecursionInto
<1>5. \A i \in 0 .. N : f[i] = IF i = 0 THEN <<>> ELSE Step(f[i - 1], i)
  <2> TAKE i \in 0 .. N
  <2>1. i # 0 => i \in 1 .. N /\ i - 1 \in 0 .. N
    BY <1>2
  <2> QED
    BY <1>3, <1>4, <2>1 DEF Iterates
<1>6. Is(f)
  BY <1>4, <1>5
<1>7. PICK g : Is(g) /\ Select(rel, items) = g[N]
  BY <1>1, <1>6
<1>8. g[0] = <<>> /\ \A i \in 1 .. N : g[i] = Step(g[i - 1], i)
  <2>1. 0 \in 0 .. N /\ \A i \in 1 .. N : i \in 0 .. N /\ i # 0
    BY <1>2
  <2> QED
    BY <1>7, <2>1
<1> QED
  BY <1>7, <1>8 DEF Selects, Step, N

\* A SELECT has a column for each item, of its name; an item that is found in
\* the input does not read the columns named before it.
LEMMA SelectIs ==
    ASSUME NEW rel \in Rel, NEW items \in Seq(Items)
    PROVE  /\ Select(rel, items) \in Rel
           /\ Len(Select(rel, items)) = Len(items)
           /\ \A i \in 1 .. Len(items) :
                 /\ Select(rel, items)[i].name = items[i].as
                 /\ Read(rel, items[i]) # Missing =>
                       Select(rel, items)[i] = Column(items[i].as, Applied(items[i].fn, Read(rel, items[i])))
<1>1. PICK f : Selects(f, rel, items)
  BY SelectRecursion
<1> DEFINE N == Len(items)
           Right(x, i) == \A k \in 1 .. i :
               /\ x[k].name = items[k].as
               /\ Read(rel, items[k]) # Missing =>
                     x[k] = Column(items[k].as, Applied(items[k].fn, Read(rel, items[k])))
           Good(x, i) == x \in Rel /\ Len(x) = i /\ Right(x, i)
           P == [i \in 0 .. N |-> Good(f[i], i)]
<1>2. N \in Nat
  OBVIOUS
<1>3. P[0]
  <2>1. <<>> \in Rel /\ Len(<<>>) = 0
    BY DEF Rel
  <2>2. f[0] = <<>> /\ 0 \in 0 .. N
    BY <1>1, <1>2 DEF Selects
  <2>3. Right(<<>>, 0)
    OBVIOUS
  <2>4. Good(f[0], 0)
    BY <2>1, <2>2, <2>3
  <2> HIDE DEF Good
  <2> QED
    BY <2>2, <2>4
<1>4. ASSUME NEW i \in 1 .. N, P[i - 1] PROVE P[i]
  <2>1. i \in 0 .. N /\ i - 1 \in 0 .. N /\ i \in Nat /\ (i - 1) + 1 = i
    BY <1>2
  <2> DEFINE x == f[i - 1]
             c == Column(items[i].as, Applied(items[i].fn, ReadAfter(rel, items[i], x)))
  <2>2. x \in Rel /\ Len(x) = i - 1 /\ Right(x, i - 1)
    BY <1>4, <2>1
  <2>3. f[i] = Append(x, c)
    BY <1>1 DEF Selects
  <2> HIDE DEF x
  <2>4. items[i] \in Items
    BY Members
  <2>5. c \in [name : Name, value : Values]
    BY <2>2, <2>4, ItemIs
  <2>6. Read(rel, items[i]) # Missing => ReadAfter(rel, items[i], x) = Read(rel, items[i])
    BY DEF Read, ReadAfter
  <2>7. c.name = items[i].as
    BY DEF Column
  <2>8. Read(rel, items[i]) # Missing => c = Column(items[i].as, Applied(items[i].fn, Read(rel, items[i])))
    BY <2>6
  <2> HIDE DEF c
  <2>9. /\ Append(x, c) \in Rel /\ Len(Append(x, c)) = i
        /\ Append(x, c)[i] = c
        /\ \A k \in 1 .. i - 1 : Append(x, c)[k] = x[k]
    BY <2>1, <2>2, <2>5 DEF Rel
  <2>10. Right(Append(x, c), i)
    <3> TAKE k \in 1 .. i
    <3>1. CASE k = i
      BY <2>7, <2>8, <2>9, <3>1
    <3>2. CASE k # i
      <4>1. k \in 1 .. i - 1
        BY <2>1, <3>2
      <4> QED
        BY <2>2, <2>9, <4>1
    <3> QED
      BY <3>1, <3>2
  <2> QED
    BY <2>1, <2>3, <2>9, <2>10
<1>5. P[N]
  <2> HIDE DEF P, N
  <2>1. \A i \in 0 .. N : P[i]
    BY <1>2, <1>3, <1>4, Induction
  <2> QED
    BY <1>2, <2>1
<1>6. Select(rel, items) = f[N] /\ N \in 0 .. N
  BY <1>1, <1>2 DEF Selects
<1>7. Good(f[N], N)
  BY <1>5, <1>6
<1> QED
  BY <1>6, <1>7

-----------------------------------------------------------------------------
\* A stage.

\* No two columns have the same name, not even in another case.
Told(rel) == \A i, j \in DOMAIN rel : Fold(rel[i].name) = Fold(rel[j].name) => i = j

\* The column list[i] as it follows the columns of x.
After(x, column) ==
    LET used == {Fold(x[j].name) : j \in DOMAIN x}
        under == Numbered(column.name, Underscore)
    IN  [column EXCEPT !.name = IF Fold(column.name) \notin used THEN column.name
                                ELSE Numbered(under, FirstFree(Fold(under), used))]

\* f is the recursion of Stage.
Stages(f, list) ==
    /\ f[0] = <<>>
    /\ \A i \in 1 .. Len(list) : f[i] = Append(f[i - 1], After(f[i - 1], list[i]))
    /\ Stage(list) = f[Len(list)]

\* A name in lower case.
LEMMA FoldIs ==
    ASSUME NEW name \in Name
    PROVE  Fold(name) \in Of(STRING \cup Stems)
<1>1. /\ name \in [prefix : {"", "sum_"}, stem : Stems, tail : Seq(Nat)]
  BY DEF Name
<1>2. name.stem \in Stems
  BY <1>1
<1>3. Lower[name.stem] \in STRING \cup Stems
  BY <1>2, StemsAssumption
<1>4. Fold(name) = [name EXCEPT !.stem = Lower[name.stem]]
  BY <1>2 DEF Fold
<1> QED
  BY <1>1, <1>3, <1>4 DEF Of

\* A name with a number after it is a name.
LEMMA NumberedName ==
    ASSUME NEW name \in Name, NEW k \in Nat
    PROVE  Numbered(name, k) \in Name
<1>1. Name = Of(Stems)
  BY DEF Name, Of
<1> QED
  BY <1>1, NumberedIs

\* A column of a stage is one, with the value it had.
LEMMA AfterIs ==
    ASSUME NEW x \in Rel, NEW column \in [name : Name, value : Values]
    PROVE  /\ After(x, column) \in [name : Name, value : Values]
           /\ After(x, column).value = column.value
           /\ (\A j \in DOMAIN x : Fold(x[j].name) # Fold(column.name)) => After(x, column) = column
<1> DEFINE used == {Fold(x[j].name) : j \in DOMAIN x}
           under == Numbered(column.name, Underscore)
           new == IF Fold(column.name) \notin used THEN column.name
                  ELSE Numbered(under, FirstFree(Fold(under), used))
<1>1. After(x, column) = [column EXCEPT !.name = new]
  BY DEF After
<1>2. IsFiniteSet(used)
  <2> DEFINE s == [j \in DOMAIN x |-> Fold(x[j].name)]
             T == {Fold(n) : n \in Name}
  <2>1. x \in Seq([name : Name, value : Values])
    BY DEF Rel
  <2>2. \A j \in DOMAIN x : x[j].name \in Name
    <3>1. \A j \in DOMAIN x : x[j] \in [name : Name, value : Values]
      BY <2>1, Members
    <3> QED
      BY <3>1
  <2>3. DOMAIN x = 1 .. Len(x) /\ Len(x) \in Nat
    BY <2>1, Members
  <2>4. s \in Seq(T)
    BY <2>2, <2>3
  <2>5. used = Range(s)
    BY DEF Range
  <2> HIDE DEF s, T, used
  <2> QED
    BY <2>4, <2>5, RangeFinite
<1>3. column.name \in Name /\ under \in Name
  BY NumberedName DEF Underscore
<1>4. Fold(under) \in Of(STRING \cup Stems)
  <2> HIDE DEF under
  <2> QED
    BY <1>3, FoldIs
<1>5. FirstFree(Fold(under), used) \in Nat
  <2> HIDE DEF under, used
  <2> QED
    BY <1>2, <1>4, FirstFreeIs
<1>6. new \in Name
  <2> HIDE DEF under, used
  <2> QED
    BY <1>3, <1>5, NumberedName
<1>7. (\A j \in DOMAIN x : Fold(x[j].name) # Fold(column.name)) => new = column.name
  OBVIOUS
<1> HIDE DEF new
<1> QED
  BY <1>1, <1>6, <1>7

\* Stage is a recursion.
LEMMA StageRecursion ==
    ASSUME NEW list \in Rel
    PROVE  \E f : Stages(f, list)
<1> DEFINE N == Len(list)
           Step(x, i) == Append(x, After(x, list[i]))
           Is(f) == f = [i \in 0 .. N |-> IF i = 0 THEN <<>> ELSE Step(f[i - 1], i)]
           D == [i \in 1 .. N |-> [x \in Rel |-> Step(x, i)]]
<1>1. Stage(list) = (CHOOSE f : Is(f))[N]
  BY DEF Stage, After
<1>2. N \in Nat /\ <<>> \in Rel /\ \A i \in 1 .. N : \A x \in Rel : Step(x, i) \in Rel
  <2>1. ASSUME NEW i \in 1 .. N, NEW x \in Rel PROVE Step(x, i) \in Rel
    <3>1. list[i] \in [name : Name, value : Values]
      BY Members DEF Rel
    <3>2. After(x, list[i]) \in [name : Name, value : Values]
      BY <3>1, AfterIs
    <3> QED
      BY <3>2 DEF Rel
  <2>2. <<>> \in Rel /\ N \in Nat
    BY DEF Rel
  <2> QED
    BY <2>1, <2>2
<1>3. \A i \in 1 .. N : \A x \in Rel : D[i][x] = Step(x, i)
  OBVIOUS
<1> HIDE DEF Step, N, D
<1>4. PICK f \in [0 .. N -> Rel] : Iterates(f, <<>>, D, N)
  <2>1. \A i \in 1 .. N : \A x \in Rel : D[i][x] \in Rel
    BY <1>2, <1>3
  <2> QED
    BY <1>2, <2>1, RecursionInto
<1>5. \A i \in 0 .. N : f[i] = IF i = 0 THEN <<>> ELSE Step(f[i - 1], i)
  <2> TAKE i \in 0 .. N
  <2>1. i # 0 => i \in 1 .. N /\ i - 1 \in 0 .. N
    BY <1>2
  <2> QED
    BY <1>3, <1>4, <2>1 DEF Iterates
<1>6. Is(f)
  BY <1>4, <1>5
<1>7. PICK g : Is(g) /\ Stage(list) = g[N]
  BY <1>1, <1>6
<1>8. g[0] = <<>> /\ \A i \in 1 .. N : g[i] = Step(g[i - 1], i)
  <2>1. 0 \in 0 .. N /\ \A i \in 1 .. N : i \in 0 .. N /\ i # 0
    BY <1>2
  <2> QED
    BY <1>7, <2>1
<1> QED
  BY <1>7, <1>8 DEF Stages, Step, N

\* A stage has the columns of its list with their values, and changes nothing
\* where their names are told apart.
LEMMA StageIs ==
    ASSUME NEW list \in Rel
    PROVE  /\ Stage(list) \in Rel
           /\ ~HasMissing(list) => ~HasMissing(Stage(list))
           /\ Told(list) => Stage(list) = list
<1>1. PICK f : Stages(f, list)
  BY StageRecursion
<1> DEFINE N == Len(list)
           Kept(x, i) == \A k \in 1 .. i : x[k].value = list[k].value /\ (Told(list) => x[k] = list[k])
           Good(x, i) == x \in Rel /\ Len(x) = i /\ Kept(x, i)
           P == [i \in 0 .. N |-> Good(f[i], i)]
<1>2. N \in Nat /\ DOMAIN list = 1 .. N
  BY DEF Rel
<1>3. P[0]
  <2>1. <<>> \in Rel /\ Len(<<>>) = 0
    BY DEF Rel
  <2>2. f[0] = <<>> /\ 0 \in 0 .. N
    BY <1>1, <1>2 DEF Stages
  <2>3. Kept(<<>>, 0)
    OBVIOUS
  <2>4. Good(f[0], 0)
    BY <2>1, <2>2, <2>3
  <2> HIDE DEF Good
  <2> QED
    BY <2>2, <2>4
<1>4. ASSUME NEW i \in 1 .. N, P[i - 1] PROVE P[i]
  <2>1. i \in 0 .. N /\ i - 1 \in 0 .. N /\ i \in Nat /\ (i - 1) + 1 = i
    BY <1>2
  <2> DEFINE x == f[i - 1]
             c == After(x, list[i])
  <2>2. x \in Rel /\ Len(x) = i - 1 /\ Kept(x, i - 1)
    BY <1>4, <2>1
  <2>3. f[i] = Append(x, c)
    BY <1>1 DEF Stages
  <2> HIDE DEF x
  <2>4. list[i] \in [name : Name, value : Values]
    BY Members DEF Rel
  <2>5. /\ c \in [name : Name, value : Values]
        /\ c.value = list[i].value
        /\ (\A j \in DOMAIN x : Fold(x[j].name) # Fold(list[i].name)) => c = list[i]
    BY <2>2, <2>4, AfterIs
  <2>6. ASSUME Told(list) PROVE \A j \in DOMAIN x : Fold(x[j].name) # Fold(list[i].name)
    <3> TAKE j \in DOMAIN x
    <3>1. j \in 1 .. i - 1
      BY <2>2 DEF Rel
    <3>2. j \in 1 .. N /\ j # i /\ x[j] = list[j]
      BY <1>2, <2>2, <2>6, <3>1
    <3> QED
      BY <1>2, <2>6, <3>2 DEF Told
  <2> HIDE DEF c
  <2>7. /\ Append(x, c) \in Rel /\ Len(Append(x, c)) = i
        /\ Append(x, c)[i] = c
        /\ \A k \in 1 .. i - 1 : Append(x, c)[k] = x[k]
    BY <2>1, <2>2, <2>5 DEF Rel
  <2>8. Kept(Append(x, c), i)
    <3> TAKE k \in 1 .. i
    <3>1. CASE k = i
      BY <2>5, <2>6, <2>7, <3>1
    <3>2. CASE k # i
      <4>1. k \in 1 .. i - 1
        BY <2>1, <3>2
      <4> QED
        BY <2>2, <2>7, <4>1
    <3> QED
      BY <3>1, <3>2
  <2> QED
    BY <2>1, <2>3, <2>7, <2>8
<1>5. P[N]
  <2> HIDE DEF P, N
  <2>1. \A i \in 0 .. N : P[i]
    BY <1>2, <1>3, <1>4, Induction
  <2> QED
    BY <1>2, <2>1
<1>6. Stage(list) = f[N] /\ N \in 0 .. N
  BY <1>1, <1>2 DEF Stages
<1>7. Good(f[N], N)
  BY <1>5, <1>6
<1> HIDE DEF N
<1>8. Stage(list) \in Rel /\ DOMAIN Stage(list) = 1 .. N /\ Kept(Stage(list), N)
  BY <1>6, <1>7 DEF Rel
<1>9. Told(list) => Stage(list) = list
  <2> HAVE Told(list)
  <2>1. \A k \in 1 .. N : Stage(list)[k] = list[k]
    BY <1>8
  <2>2. Stage(list) = [k \in 1 .. N |-> Stage(list)[k]] /\ list = [k \in 1 .. N |-> list[k]]
    BY <1>2, <1>8 DEF Rel
  <2> QED
    BY <2>1, <2>2
<1> QED
  BY <1>2, <1>8, <1>9 DEF HasMissing

-----------------------------------------------------------------------------
\* The inductive invariant, and what keeps it.

Types ==
    /\ kusto \in Rel /\ ~HasMissing(kusto) /\ IsInjective(NamesOf(kusto))
    /\ duck \in Rel /\ ~HasMissing(duck)
    /\ cols \in Distinct
    /\ accepted \in BOOLEAN /\ failed \in BOOLEAN /\ known \in BOOLEAN /\ refused \in BOOLEAN
    /\ doubt \in Doubts
    /\ left \in 0 .. MaxTargets

\* A translator that knows the columns knows them exactly, and then DuckDB has
\* what Kusto has, until a join leaves names that differ in case only.
Knows ==
    known /\ ~refused =>
        /\ doubt \in {"none", "joined"}
        /\ accepted => cols = NamesOf(kusto)
        /\ doubt = "none" =>
              /\ accepted = ~failed
              /\ accepted => duck = kusto /\ Told(kusto)

\* One that does not still has the same columns.
Agrees ==
    ~known /\ ~refused /\ ~failed /\ accepted /\ doubt = "none" =>
        Range(duck) = Range(kusto) /\ Told(kusto) /\ Told(duck)

IInv == Types /\ Knows /\ Agrees

\* What the rendering of an operator owes to the next one.
Sound(kind, meaning, refusal, sql, predicted) ==
    /\ kind \in {"own", "joined", "numbered"} /\ refusal \in BOOLEAN
    /\ ~HasMissing(meaning) => meaning \in Rel /\ IsInjective(NamesOf(meaning))
    /\ ~HasMissing(sql) => sql \in Rel
    /\ known /\ ~refusal =>
          /\ kind # "numbered" /\ predicted \in Distinct
          /\ ~HasMissing(meaning) => predicted = NamesOf(meaning)
          /\ kind = "joined" => ~HasMissing(meaning)
    /\ known /\ ~refusal /\ duck = kusto /\ Told(kusto) /\ ~CaseCollision(predicted) =>
          /\ HasMissing(sql) <=> HasMissing(meaning)
          /\ ~HasMissing(meaning) => sql = meaning
    /\ ~known /\ ~refusal /\ Range(duck) = Range(kusto) /\ Told(kusto) /\ Told(duck)
       /\ ~HasMissing(sql) /\ ~HasMissing(meaning) /\ kind # "numbered" =>
          Range(sql) = Range(meaning) /\ IsInjective(NamesOf(sql))

\* Names are told apart in any case when they differ and differ in more than case.
LEMMA ToldIs ==
    ASSUME NEW rel \in Rel
    PROVE  Told(rel) <=> IsInjective(NamesOf(rel)) /\ ~CaseCollision(NamesOf(rel))
<1>1. DOMAIN NamesOf(rel) = DOMAIN rel /\ \A i \in DOMAIN rel : NamesOf(rel)[i] = rel[i].name
  BY DEF NamesOf
<1>2. ASSUME Told(rel) PROVE IsInjective(NamesOf(rel)) /\ ~CaseCollision(NamesOf(rel))
  <2>1. IsInjective(NamesOf(rel))
    BY <1>1, <1>2 DEF Told, IsInjective
  <2>2. ASSUME NEW n \in Range(NamesOf(rel)), NEW m \in Range(NamesOf(rel)), Fold(n) = Fold(m) PROVE n = m
    <3>1. PICK i \in DOMAIN rel : n = rel[i].name
      BY <1>1 DEF Range
    <3>2. PICK j \in DOMAIN rel : m = rel[j].name
      BY <1>1 DEF Range
    <3> QED
      BY <2>2, <3>1, <3>2, <1>2 DEF Told
  <2> QED
    BY <2>1, <2>2 DEF CaseCollision, CaseTwins
<1>3. ASSUME IsInjective(NamesOf(rel)), ~CaseCollision(NamesOf(rel)) PROVE Told(rel)
  <2> SUFFICES ASSUME NEW i \in DOMAIN rel, NEW j \in DOMAIN rel, Fold(rel[i].name) = Fold(rel[j].name)
               PROVE  i = j
    BY DEF Told
  <2>1. rel[i].name \in Range(NamesOf(rel)) /\ rel[j].name \in Range(NamesOf(rel))
    BY <1>1 DEF Range
  <2>2. rel[i].name = rel[j].name
    BY <1>3, <2>1 DEF CaseCollision, CaseTwins
  <2> QED
    BY <1>1, <1>3, <2>2 DEF IsInjective
<1> QED
  BY <1>2, <1>3

\* Columns told apart by position are told apart by what they are, and whatever
\* has the same columns tells them apart.
LEMMA ToldColumns ==
    ASSUME NEW rel \in Rel, Told(rel)
    PROVE  /\ Apart(rel)
           /\ \A other \in Rel : Range(other) = Range(rel) /\ IsInjective(NamesOf(other)) => Told(other)
<1>1. Apart(rel)
  BY DEF Apart, Told, Range
<1>2. ASSUME NEW other \in Rel, Range(other) = Range(rel), IsInjective(NamesOf(other)) PROVE Told(other)
  <2> SUFFICES ASSUME NEW i \in DOMAIN other, NEW j \in DOMAIN other, Fold(other[i].name) = Fold(other[j].name)
               PROVE  i = j
    BY DEF Told
  <2>1. other[i] \in Range(rel) /\ other[j] \in Range(rel)
    BY <1>2 DEF Range
  <2>2. other[i] = other[j]
    BY <1>1, <2>1 DEF Apart
  <2>3. NamesOf(other)[i] = NamesOf(other)[j] /\ i \in DOMAIN NamesOf(other) /\ j \in DOMAIN NamesOf(other)
    BY <2>2 DEF NamesOf
  <2> QED
    BY <1>2, <2>3 DEF IsInjective
<1> QED
  BY <1>1, <1>2

\* An operator whose rendering is sound keeps the invariant.
LEMMA OperatorKeeps ==
    ASSUME IInv, NEW n \in Nat, NEW kind, NEW meaning, NEW refusal, NEW sql, NEW predicted,
           Sound(kind, meaning, refusal, sql, predicted),
           Operator(n, kind, meaning, refusal, sql, predicted)
    PROVE  IInv'
<1>1. Types /\ Knows /\ Agrees
  BY DEF IInv
<1>2. accepted /\ ~refused /\ ~failed /\ n <= left /\ left' = left - n /\ known' = known
  BY DEF Operator
<1>3. /\ accepted' = ~HasMissing(meaning)
      /\ kusto' = IF accepted' THEN meaning ELSE kusto
      /\ refused' = (refusal \/ (known /\ kind # "joined" /\ CaseCollision(predicted)))
      /\ failed' = (~refused' /\ HasMissing(sql))
      /\ duck' = IF refused' \/ failed' THEN duck ELSE Stage(sql)
      /\ cols' = IF known /\ ~refused' THEN predicted ELSE cols
      /\ doubt' = IF doubt = "none" /\ (kind = "numbered" \/ CaseCollision(NamesOf(kusto')))
                  THEN kind ELSE doubt
  BY DEF Operator
<1>4. /\ kind \in {"own", "joined", "numbered"} /\ refusal \in BOOLEAN
      /\ ~HasMissing(meaning) => meaning \in Rel /\ IsInjective(NamesOf(meaning))
      /\ ~HasMissing(sql) => sql \in Rel
  BY DEF Sound
<1>5. known /\ ~refusal =>
          /\ kind # "numbered" /\ predicted \in Distinct
          /\ ~HasMissing(meaning) => predicted = NamesOf(meaning)
          /\ kind = "joined" => ~HasMissing(meaning)
  BY DEF Sound
<1>6. ~refused' => ~refusal
  BY <1>3
<1>7. Types'
  <2>1. kusto' \in Rel /\ ~HasMissing(kusto') /\ IsInjective(NamesOf(kusto'))
    BY <1>1, <1>3, <1>4 DEF Types
  <2>2. duck' \in Rel /\ ~HasMissing(duck')
    BY <1>1, <1>3, <1>4, StageIs DEF Types
  <2>3. cols' \in Distinct
    BY <1>1, <1>3, <1>5, <1>6 DEF Types
  <2>4. accepted' \in BOOLEAN /\ failed' \in BOOLEAN /\ known' \in BOOLEAN /\ refused' \in BOOLEAN
    BY <1>1, <1>2, <1>3, <1>4 DEF Types
  <2>5. doubt' \in Doubts
    BY <1>1, <1>3, <1>4 DEF Types, Doubts
  <2>6. left' \in 0 .. MaxTargets
    BY <1>1, <1>2, NamesAssumption DEF Types
  <2> QED
    BY <2>1, <2>2, <2>3, <2>4, <2>5, <2>6 DEF Types, HasMissing, NamesOf
<1>8. Knows'
  <2> SUFFICES ASSUME known, ~refused'
               PROVE  /\ doubt' \in {"none", "joined"}
                      /\ accepted' => cols' = NamesOf(kusto')
                      /\ doubt' = "none" =>
                            /\ accepted' = ~failed'
                            /\ accepted' => duck' = kusto' /\ Told(kusto')
    BY <1>2 DEF Knows, Told, NamesOf
  <2>1. ~refusal /\ cols' = predicted
    BY <1>3, <1>6
  <2>2. accepted' => cols' = NamesOf(kusto')
    BY <1>3, <1>5, <2>1
  <2>3. doubt \in {"none", "joined"} /\ (doubt = "none" => duck = kusto /\ Told(kusto))
    BY <1>1, <1>2 DEF Knows
  <2>4. CASE doubt = "joined"
    BY <1>3, <2>2, <2>4
  <2>5. CASE doubt = "none" /\ CaseCollision(predicted)
    <3>1. kind = "joined" /\ accepted' /\ kusto' = meaning /\ predicted = NamesOf(meaning)
      BY <1>3, <1>4, <1>5, <2>1, <2>5
    <3>2. doubt' = "joined"
      BY <1>3, <2>5, <3>1
    <3> QED
      BY <2>2, <3>2
  <2>6. CASE doubt = "none" /\ ~CaseCollision(predicted)
    <3>1. /\ HasMissing(sql) <=> HasMissing(meaning)
          /\ ~HasMissing(meaning) => sql = meaning
      BY <2>1, <2>3, <2>6 DEF Sound
    <3>2. accepted' => Told(meaning) /\ kusto' = meaning
      BY <1>3, <1>4, <1>5, <2>1, <2>6, ToldIs
    <3>3. ~CaseCollision(NamesOf(kusto'))
      <4>1. CASE accepted'
        BY <1>3, <1>5, <2>1, <2>6, <4>1
      <4>2. CASE ~accepted'
        BY <1>1, <1>3, <2>3, <2>6, <4>2, ToldIs DEF Types
      <4> QED
        BY <4>1, <4>2
    <3>4. doubt' = "none"
      BY <1>3, <1>5, <2>1, <2>6, <3>3
    <3>5. accepted' = ~failed'
      BY <1>3, <3>1
    <3>6. accepted' => duck' = kusto' /\ Told(kusto')
      BY <1>3, <1>4, <3>1, <3>2, <3>5, StageIs
    <3> QED
      BY <2>2, <3>4, <3>5, <3>6
  <2> QED
    BY <2>3, <2>4, <2>5, <2>6
<1>9. Agrees'
  <2> SUFFICES ASSUME ~known, ~refused', ~failed', accepted', doubt' = "none"
               PROVE  Range(duck') = Range(kusto') /\ Told(kusto') /\ Told(duck')
    BY <1>2 DEF Agrees, Told, Range
  <2>1. ~refusal /\ ~HasMissing(meaning) /\ ~HasMissing(sql) /\ kusto' = meaning /\ duck' = Stage(sql)
    BY <1>3, <1>6
  <2>2. doubt = "none" /\ kind # "numbered" /\ ~CaseCollision(NamesOf(meaning))
    BY <1>3, <1>4, <2>1
  <2>3. Range(duck) = Range(kusto) /\ Told(kusto) /\ Told(duck)
    BY <1>1, <1>2, <2>2 DEF Agrees
  <2>4. Range(sql) = Range(meaning) /\ IsInjective(NamesOf(sql))
    BY <2>1, <2>2, <2>3 DEF Sound
  <2>5. Told(meaning)
    BY <1>4, <2>1, <2>2, ToldIs
  <2>6. Told(sql)
    BY <1>4, <2>1, <2>4, <2>5, ToldColumns
  <2>7. Stage(sql) = sql
    BY <1>4, <2>1, <2>6, StageIs
  <2> QED
    BY <2>1, <2>4, <2>5, <2>6, <2>7
<1> QED
  BY <1>7, <1>8, <1>9 DEF IInv

-----------------------------------------------------------------------------
\* What a clause means and what it is rendered to.

\* A function on 1 .. N into T is a sequence.
LEMMA SequenceIs ==
    ASSUME NEW T, NEW N \in Nat, NEW s, s = [i \in 1 .. N |-> s[i]], \A i \in 1 .. N : s[i] \in T
    PROVE  s \in Seq(T) /\ Len(s) = N /\ DOMAIN s = 1 .. N
OBVIOUS

\* The names of columns.
LEMMA NamesOfIs ==
    ASSUME NEW rel \in Rel
    PROVE  /\ NamesOf(rel) \in Seq(Name) /\ Len(NamesOf(rel)) = Len(rel)
           /\ DOMAIN rel = 1 .. Len(rel) /\ Len(rel) \in Nat
           /\ \A i \in 1 .. Len(rel) : /\ rel[i] \in Range(rel) /\ NamesOf(rel)[i] = rel[i].name
                                       /\ rel[i].name \in Name /\ rel[i].value \in Values
           /\ \A n : n \in Range(NamesOf(rel)) <=> \E c \in Range(rel) : c.name = n
<1>1. DOMAIN rel = 1 .. Len(rel) /\ Len(rel) \in Nat /\ \A i \in 1 .. Len(rel) : rel[i] \in [name : Name, value : Values]
  BY Members DEF Rel
<1>2. \A i \in 1 .. Len(rel) : rel[i] \in Range(rel) /\ rel[i].name \in Name /\ rel[i].value \in Values
  BY <1>1 DEF Range
<1>3. NamesOf(rel) = [i \in 1 .. Len(rel) |-> rel[i].name]
  BY <1>1 DEF NamesOf
<1>4. NamesOf(rel) \in Seq(Name) /\ Len(NamesOf(rel)) = Len(rel)
  BY <1>1, <1>2, <1>3
<1>5. \A n : n \in Range(NamesOf(rel)) => \E c \in Range(rel) : c.name = n
  BY <1>2, <1>3 DEF Range
<1>6. \A c \in Range(rel) : c.name \in Range(NamesOf(rel))
  BY <1>1, <1>3 DEF Range
<1> QED
  BY <1>1, <1>2, <1>3, <1>4, <1>5, <1>6

\* Relations of the same columns have the same names.
LEMMA SameNames ==
    ASSUME NEW rel \in Rel, NEW other \in Rel, Range(other) = Range(rel)
    PROVE  Range(NamesOf(other)) = Range(NamesOf(rel))
BY NamesOfIs

\* Contains is membership in the range.
LEMMA ContainsIs ==
    ASSUME NEW T, NEW s \in Seq(T), NEW e
    PROVE  Contains(s, e) <=> e \in Range(s)
BY DEF Contains, Range

\* What a name means to Kusto.
LEMMA MeansIs ==
    ASSUME Types, NEW name
    PROVE  /\ Means(name) \in Values
           /\ name \in Columns => /\ Means(name) # Missing
                                  /\ \E c \in Range(kusto) : c.name = name /\ Means(name) = c.value
           /\ name \notin Columns => Means(name) = IF name = LetName THEN LetValue ELSE Missing
           /\ \A i \in DOMAIN kusto : Means(kusto[i].name) = kusto[i].value
<1> DEFINE found == {i \in DOMAIN kusto : kusto[i].name = name}
<1>1. kusto \in Rel /\ ~HasMissing(kusto) /\ IsInjective(NamesOf(kusto))
  BY DEF Types
<1>2. Means(name) = IF found # {} THEN kusto[CHOOSE i \in found : TRUE].value
                    ELSE IF name = LetName THEN LetValue ELSE Missing
  BY DEF Means
<1>3. found # {} => (CHOOSE i \in found : TRUE) \in found
  OBVIOUS
<1>4. \A i \in DOMAIN kusto : /\ kusto[i] \in Range(kusto) /\ kusto[i].value \in Values
                              /\ kusto[i].value # Missing
  BY <1>1, NamesOfIs DEF HasMissing
<1>5. name \in Columns <=> found # {}
  <2>1. name \in Columns => found # {}
    <3> HAVE name \in Columns
    <3>1. PICK c \in Range(kusto) : c.name = name
      BY <1>1, NamesOfIs DEF Columns
    <3> QED
      BY <3>1 DEF Range
  <2>2. found # {} => name \in Columns
    BY <1>1, NamesOfIs DEF Columns
  <2> QED
    BY <2>1, <2>2
<1>6. \A i \in found : i \in DOMAIN kusto /\ kusto[i].name = name
  OBVIOUS
<1> HIDE DEF found
<1>7. Means(name) \in Values
  BY <1>2, <1>3, <1>4, <1>6, Marks
<1>8. ASSUME name \in Columns
      PROVE  /\ Means(name) # Missing
             /\ \E c \in Range(kusto) : c.name = name /\ Means(name) = c.value
  BY <1>2, <1>3, <1>4, <1>5, <1>6, <1>8
<1>9. ASSUME NEW i \in DOMAIN kusto PROVE Means(kusto[i].name) = kusto[i].value
  <2> DEFINE those == {j \in DOMAIN kusto : kusto[j].name = kusto[i].name}
  <2>1. i \in those
    OBVIOUS
  <2>2. \A j \in those : j = i
    <3> TAKE j \in those
    <3>1. NamesOf(kusto)[j] = NamesOf(kusto)[i] /\ j \in DOMAIN NamesOf(kusto) /\ i \in DOMAIN NamesOf(kusto)
      BY DEF NamesOf
    <3> QED
      BY <1>1, <3>1 DEF IsInjective
  <2>3. Means(kusto[i].name) = IF those # {} THEN kusto[CHOOSE j \in those : TRUE].value
                               ELSE IF kusto[i].name = LetName THEN LetValue ELSE Missing
    BY DEF Means
  <2> HIDE DEF those
  <2> QED
    BY <2>1, <2>2, <2>3
<1> QED
  BY <1>2, <1>5, <1>7, <1>8, <1>9

\* DuckDB has Kusto's columns and none of them twice.
Agreeing == Range(duck) = Range(kusto) /\ Told(kusto)

\* Where DuckDB has Kusto's columns, told apart, it finds what a name means to
\* Kusto, whatever the case.
LEMMA LookupMeans ==
    ASSUME Types, Agreeing
    PROVE  /\ Apart(duck) /\ Apart(kusto)
           /\ \A name \in Columns : Lookup(duck, name) = Means(name)
<1>1. kusto \in Rel /\ duck \in Rel
  BY DEF Types
<1>2. Apart(kusto)
  BY <1>1, ToldColumns DEF Agreeing
<1>3. Apart(duck)
  BY <1>2 DEF Apart, Agreeing
<1>4. ASSUME NEW name \in Columns PROVE Lookup(duck, name) = Means(name)
  <2>1. PICK c \in Range(kusto) : c.name = name /\ Means(name) = c.value
    BY MeansIs
  <2>2. c \in Range(duck)
    BY DEF Agreeing
  <2> QED
    BY <1>1, <1>3, <2>1, <2>2, LookupIs
<1> QED
  BY <1>2, <1>3, <1>4

\* A column or the let is read as Kusto means it, behind the guard.
LEMMA ReadIs ==
    ASSUME Types, Agreeing, known => cols = NamesOf(kusto), NEW name \in Columns \cup {LetName},
           ~known /\ name = LetName => ~Contains(NamesOf(duck), LetName)
    PROVE  /\ (IF IsValue(name) THEN LetValue ELSE Lookup(duck, name)) = Means(name)
           /\ Means(name) # Missing
<1>1. kusto \in Rel /\ duck \in Rel
  BY DEF Types
<1>2. Range(NamesOf(duck)) = Columns
  BY <1>1, SameNames DEF Agreeing, Columns
<1>3. known => (Contains(cols, name) <=> name \in Columns)
  BY <1>1, NamesOfIs, ContainsIs DEF Columns
<1>4. ~known /\ name = LetName => name \notin Columns
  BY <1>1, <1>2, NamesOfIs, ContainsIs
<1>5. CASE IsValue(name)
  <2>1. name = LetName /\ name \notin Columns
    BY <1>3, <1>4, <1>5 DEF IsValue
  <2> QED
    BY <1>5, <2>1, MeansIs, Marks
<1>6. CASE ~IsValue(name)
  <2>1. name \in Columns
    BY <1>3, <1>6 DEF IsValue
  <2> QED
    BY <1>6, <2>1, MeansIs, LookupMeans
<1> QED
  BY <1>5, <1>6

\* What targets mean.
LEMMA MeaningIs ==
    ASSUME Types, NEW targets \in Seq(Target), NEW names \in Seq(Name), Len(names) = Len(targets)
    PROVE  /\ Meaning(targets, names) \in Rel
           /\ Len(Meaning(targets, names)) = Len(targets)
           /\ NamesOf(Meaning(targets, names)) = names
           /\ \A i \in 1 .. Len(targets) :
                 /\ Meaning(targets, names)[i] = Column(names[i], Applied(targets[i].fn, Means(targets[i].col)))
                 /\ ~HasMissing(Meaning(targets, names)) => Means(targets[i].col) # Missing
           /\ (\A i \in 1 .. Len(targets) : Means(targets[i].col) # Missing) => ~HasMissing(Meaning(targets, names))
<1> DEFINE m == Meaning(targets, names)
           N == Len(targets)
<1>1. N \in Nat /\ DOMAIN targets = 1 .. N /\ DOMAIN names = 1 .. N /\ names = [i \in 1 .. N |-> names[i]]
  OBVIOUS
<1>2. m = [i \in 1 .. N |-> Column(names[i], Applied(targets[i].fn, Means(targets[i].col)))]
  BY <1>1 DEF Meaning
<1>3. \A i \in 1 .. N : targets[i] \in Target /\ names[i] \in Name
  BY <1>1, Members
<1>4. \A i \in 1 .. N : targets[i].fn \in Word
  BY <1>3 DEF Target
<1>5. \A i \in 1 .. N : /\ Applied(targets[i].fn, Means(targets[i].col)) \in Values
                        /\ Applied(targets[i].fn, Means(targets[i].col)) = Missing <=> Means(targets[i].col) = Missing
  BY <1>4, MeansIs, AppliedIs
<1> HIDE DEF m, N
<1>6. \A i \in 1 .. N : /\ m[i] = Column(names[i], Applied(targets[i].fn, Means(targets[i].col)))
                        /\ m[i].name = names[i] /\ m[i].value = Applied(targets[i].fn, Means(targets[i].col))
                        /\ m[i] \in [name : Name, value : Values]
  BY <1>2, <1>3, <1>5 DEF Column
<1>7. m \in Rel /\ Len(m) = N /\ DOMAIN m = 1 .. N
  <2> DEFINE C == [name : Name, value : Values]
  <2>1. m = [i \in 1 .. N |-> m[i]]
    BY <1>2
  <2>2. \A i \in 1 .. N : m[i] \in C
    BY <1>6
  <2>3. Rel = Seq(C)
    BY DEF Rel
  <2> HIDE DEF C
  <2>4. m \in Seq(C) /\ Len(m) = N /\ DOMAIN m = 1 .. N
    BY <1>1, <2>1, <2>2, SequenceIs
  <2> QED
    BY <2>3, <2>4
<1>8. NamesOf(m) = names
  BY <1>1, <1>6, <1>7 DEF NamesOf
<1>9. HasMissing(m) <=> \E i \in 1 .. N : Means(targets[i].col) = Missing
  BY <1>5, <1>6, <1>7 DEF HasMissing
<1> QED
  BY <1>6, <1>7, <1>8, <1>9 DEF m, N

\* The items of targets.
LEMMA RenderIs ==
    ASSUME NEW targets \in Seq(Target), NEW names \in Seq(Name), Len(names) = Len(targets)
    PROVE  /\ RenderAs(targets, names) \in Seq(Items)
           /\ Len(RenderAs(targets, names)) = Len(targets)
           /\ \A i \in 1 .. Len(targets) :
                 /\ RenderAs(targets, names)[i].fn = targets[i].fn
                 /\ RenderAs(targets, names)[i].as = names[i]
                 /\ \A rel : Read(rel, RenderAs(targets, names)[i])
                             = IF IsValue(targets[i].col) THEN LetValue ELSE Lookup(rel, targets[i].col)
<1> DEFINE r == RenderAs(targets, names)
           N == Len(targets)
<1>1. N \in Nat /\ DOMAIN targets = 1 .. N
  OBVIOUS
<1>2. r = [i \in 1 .. N |-> [Item(targets[i].fn, targets[i].col, names[i]) EXCEPT !.let = IsValue(targets[i].col)]]
  BY <1>1 DEF RenderAs
<1>3. \A i \in 1 .. N : targets[i] \in Target /\ names[i] \in Name
  BY <1>1, Members
<1>4. \A i \in 1 .. N : targets[i].fn \in Word /\ targets[i].col \in Name /\ IsValue(targets[i].col) \in BOOLEAN
  BY <1>3 DEF Target, IsValue
<1>5. ASSUME NEW i \in 1 .. N
      PROVE  /\ r[i].fn = targets[i].fn /\ r[i].as = names[i]
             /\ r[i].let = IsValue(targets[i].col) /\ r[i].col = targets[i].col
             /\ r[i] \in Items
  <2>1. r[i] = [Item(targets[i].fn, targets[i].col, names[i]) EXCEPT !.let = IsValue(targets[i].col)]
    BY <1>2
  <2>2. r[i] = [fn |-> targets[i].fn, col |-> targets[i].col, let |-> IsValue(targets[i].col), as |-> names[i]]
    BY <2>1 DEF Item
  <2>3. r[i] \in Items
    BY <1>3, <1>4, <2>2 DEF Items
  <2> HIDE DEF r
  <2> QED
    BY <2>2, <2>3
<1>6. r \in Seq(Items) /\ Len(r) = N
  <2>1. r = [i \in 1 .. N |-> r[i]]
    BY <1>2
  <2> HIDE DEF r, N
  <2> QED
    BY <1>1, <1>5, <2>1, SequenceIs
<1> HIDE DEF r, N
<1>7. \A i \in 1 .. N : /\ r[i].fn = targets[i].fn /\ r[i].as = names[i]
                        /\ r[i].let = IsValue(targets[i].col) /\ r[i].col = targets[i].col
  BY <1>5
<1> QED
  BY <1>6, <1>7 DEF r, N, Read

\* A SELECT is what its items are, if each is found.
LEMMA SelectAs ==
    ASSUME NEW rel \in Rel, NEW items \in Seq(Items), NEW m \in Rel, Len(m) = Len(items),
           \A i \in 1 .. Len(items) :
               /\ Read(rel, items[i]) # Missing
               /\ m[i] = Column(items[i].as, Applied(items[i].fn, Read(rel, items[i])))
    PROVE  Select(rel, items) = m
<1> DEFINE s == Select(rel, items)
           N == Len(items)
<1>1. N \in Nat /\ s \in Rel /\ Len(s) = N /\ \A i \in 1 .. N : s[i] = m[i]
  BY SelectIs
<1> HIDE DEF s, N
<1>2. s = [i \in 1 .. N |-> s[i]] /\ m = [i \in 1 .. N |-> m[i]]
  BY <1>1 DEF Rel, N
<1>3. s = m
  BY <1>1, <1>2
<1> QED
  BY <1>3 DEF s

-----------------------------------------------------------------------------
\* project, distinct and summarize.

\* The translator still has a query that Kusto accepts and DuckDB ran.
Here == IInv /\ accepted /\ ~refused /\ ~failed

\* The targets of a clause.
Clause == Seq([name : Spellings, fn : Word, col : Names])

Readable(targets) == \A t \in Range(targets) : t.col \in Columns \cup {LetName}

\* What the invariant says where the translator still has the query.
LEMMA HereIs ==
    ASSUME Here
    PROVE  /\ Types /\ kusto \in Rel /\ duck \in Rel /\ cols \in Distinct /\ cols \in Seq(Name)
           /\ ~HasMissing(kusto) /\ ~HasMissing(duck) /\ IsInjective(NamesOf(kusto))
           /\ known \in BOOLEAN /\ IsInjective(cols)
           /\ known => cols = NamesOf(kusto)
BY DEF Here, IInv, Types, Knows, Distinct

\* A relation that is missing is missing a value, one that is not is itself.
LEMMA UnlessIs ==
    ASSUME NEW bad \in BOOLEAN, NEW rel
    PROVE  /\ HasMissing(Unless(bad, rel)) <=> bad \/ HasMissing(rel)
           /\ ~bad => Unless(bad, rel) = rel
<1>1. HasMissing(<<Column(NoName, Missing)>>)
  <2>1. 1 \in DOMAIN <<Column(NoName, Missing)>> /\ <<Column(NoName, Missing)>>[1].value = Missing
    BY DEF Column
  <2> QED
    BY <2>1 DEF HasMissing
<1> QED
  BY <1>1 DEF Unless

\* The targets of a clause have names and functions, and can be named.
LEMMA ClauseIs ==
    ASSUME NEW targets \in Clause
    PROVE  /\ targets \in Seq(Target) /\ Len(targets) \in Nat /\ DOMAIN targets = 1 .. Len(targets)
           /\ \A t \in Range(targets) : t.col \in Names /\ t.name \in Spellings /\ t.fn \in Word
           /\ \A i \in 1 .. Len(targets) : targets[i] \in Range(targets)
<1> DEFINE T == [name : Spellings, fn : Word, col : Names]
           N == Len(targets)
<1>1. N \in Nat /\ DOMAIN targets = 1 .. N /\ \A i \in 1 .. N : targets[i] \in T
  BY Members DEF Clause
<1>2. targets = [i \in 1 .. N |-> targets[i]]
  BY DEF Clause
<1>3. Spellings \subseteq Name \cup {NoName} /\ Names \subseteq Name
  BY NamesAssumption DEF Spellings
<1>4. \A t \in T : t \in Target /\ t.col \in Names /\ t.name \in Spellings /\ t.fn \in Word
  BY <1>3 DEF Target
<1>5. targets \in Seq(Target)
  <2> HIDE DEF T, N
  <2> QED
    BY <1>1, <1>2, <1>4, SequenceIs
<1>6. \A t \in Range(targets) : t \in T
  <2> HIDE DEF T
  <2> QED
    BY <1>1 DEF Range
<1> HIDE DEF T
<1> QED
  BY <1>1, <1>4, <1>5, <1>6 DEF Range

\* What a clause of a query is.
LEMMA ClausesAre ==
    ASSUME NEW fns \in SUBSET Word, NEW sizes, NEW c \in Clauses(fns, sizes)
    PROVE  c \in Clause /\ InScope(c) /\ Len(c) \in sizes
<1> DEFINE T == [name : Spellings, fn : Word, col : Names]
<1>1. InScope(c) /\ \E n \in sizes \cap 0 .. left : c \in [1 .. n -> ReadsOf(fns)]
  BY DEF Clauses
<1>2. PICK n \in sizes \cap 0 .. left : c \in [1 .. n -> ReadsOf(fns)]
  BY <1>1
<1>3. n \in Nat
  OBVIOUS
<1>4. ReadsOf(fns) \subseteq T
  BY DEF ReadsOf
<1>5. Clause = Seq(T)
  BY DEF Clause
<1> HIDE DEF T
<1>6. c \in Seq(T) /\ Len(c) = n
  BY <1>2, <1>3, <1>4, SequenceIs
<1> QED
  BY <1>1, <1>2, <1>5, <1>6

\* With the columns known, a clause that is not refused reads nothing that its
\* input does not have.
LEMMA ScopeIs ==
    ASSUME Here, known, NEW targets \in Clause, InScope(targets), ~ForwardReference(targets)
    PROVE  Readable(targets)
<1> SUFFICES ASSUME NEW t \in Range(targets), t.col \notin Columns, t.col # LetName PROVE FALSE
  BY DEF Readable
<1>1. PICK u \in Range(targets) : u.name = t.col
  BY DEF InScope
<1>2. u.name # NoName
  BY <1>1, ClauseIs, NamesAssumption
<1>3. cols = NamesOf(kusto) /\ cols \in Seq(Name)
  BY HereIs
<1>4. ~Contains(cols, u.name)
  BY <1>1, <1>3, ContainsIs DEF Columns
<1>5. ~IsValue(t.col)
  BY DEF IsValue
<1> QED
  BY <1>1, <1>2, <1>4, <1>5 DEF ForwardReference

\* What a clause means is what its SELECT answers.
LEMMA SelectMeans ==
    ASSUME Here, Agreeing, NEW targets \in Clause, NEW names \in Seq(Name), Len(names) = Len(targets),
           Readable(targets), ~ShadowGuard(targets)
    PROVE  /\ Select(duck, RenderAs(targets, names)) = Meaning(targets, names)
           /\ ~HasMissing(Meaning(targets, names))
           /\ \A i \in 1 .. Len(targets) : Read(duck, RenderAs(targets, names)[i]) # Missing
<1> DEFINE items == RenderAs(targets, names)
           m == Meaning(targets, names)
<1>1. Types /\ duck \in Rel /\ kusto \in Rel /\ (known => cols = NamesOf(kusto))
  BY HereIs
<1>2. targets \in Seq(Target) /\ \A i \in 1 .. Len(targets) : targets[i] \in Range(targets)
  BY ClauseIs
<1>3. ASSUME NEW i \in 1 .. Len(targets)
      PROVE  /\ (IF IsValue(targets[i].col) THEN LetValue ELSE Lookup(duck, targets[i].col)) = Means(targets[i].col)
             /\ Means(targets[i].col) # Missing
  <2>1. targets[i].col \in Columns \cup {LetName}
    BY <1>2 DEF Readable
  <2>2. ~known /\ targets[i].col = LetName => ~Contains(NamesOf(duck), LetName)
    BY <1>2 DEF ShadowGuard, ReadsLet
  <2> QED
    BY <1>1, <2>1, <2>2, ReadIs
<1>4. items \in Seq(Items) /\ Len(items) = Len(targets)
      /\ \A i \in 1 .. Len(targets) :
            /\ items[i].fn = targets[i].fn
            /\ items[i].as = names[i]
            /\ Read(duck, items[i]) = IF IsValue(targets[i].col) THEN LetValue ELSE Lookup(duck, targets[i].col)
  BY <1>2, RenderIs
<1>5. m \in Rel /\ Len(m) = Len(targets) /\ ~HasMissing(m)
      /\ \A i \in 1 .. Len(targets) : m[i] = Column(names[i], Applied(targets[i].fn, Means(targets[i].col)))
  BY <1>1, <1>2, <1>3, MeaningIs
<1> HIDE DEF items, m
<1>6. Select(duck, items) = m
  BY <1>1, <1>3, <1>4, <1>5, SelectAs
<1> QED
  BY <1>3, <1>4, <1>5, <1>6 DEF items, m

\* project, distinct and summarize: a SELECT of the targets, under the names
\* the translator gives them.
LEMMA ClauseSound ==
    ASSUME Here, NEW targets \in Clause, InScope(targets), NEW twice \in BOOLEAN,
           NEW mine \in Distinct, NEW theirs \in Distinct,
           Len(mine) = Len(targets), Len(theirs) = Len(targets), known => mine = theirs
    PROVE  Sound(Numbering(mine, theirs), Unless(twice, Meaning(targets, theirs)),
                 twice \/ ForwardReference(targets),
                 Unless(ShadowGuard(targets), Select(duck, RenderAs(targets, mine))), mine)
<1> DEFINE m == Meaning(targets, theirs)
           s == Select(duck, RenderAs(targets, mine))
           guarded == ShadowGuard(targets)
           forward == ForwardReference(targets)
           kind == Numbering(mine, theirs)
<1>1. targets \in Seq(Target) /\ mine \in Seq(Name) /\ theirs \in Seq(Name) /\ IsInjective(theirs)
      /\ Types /\ duck \in Rel
  BY ClauseIs, HereIs DEF Distinct
<1>2. m \in Rel /\ NamesOf(m) = theirs
      /\ (~HasMissing(m) => Readable(targets))
  <2>1. m \in Rel /\ NamesOf(m) = theirs
        /\ \A i \in 1 .. Len(targets) : ~HasMissing(m) => Means(targets[i].col) # Missing
    BY <1>1, MeaningIs
  <2>2. ASSUME ~HasMissing(m) PROVE Readable(targets)
    <3> SUFFICES ASSUME NEW t \in Range(targets) PROVE t.col \in Columns \cup {LetName}
      BY DEF Readable
    <3>1. PICK i \in 1 .. Len(targets) : t = targets[i]
      BY ClauseIs DEF Range
    <3> QED
      BY <1>1, <2>1, <2>2, <3>1, MeansIs
  <2> QED
    BY <2>1, <2>2
<1>3. s \in Rel
  BY <1>1, RenderIs, SelectIs
<1>4. guarded \in BOOLEAN /\ forward \in BOOLEAN /\ (known => ~guarded)
  BY DEF ShadowGuard, ForwardReference
<1>5. kind \in {"own", "numbered"} /\ (kind # "numbered" => mine = theirs) /\ (known => kind = "own")
  BY DEF Numbering
<1>6. Agreeing /\ Readable(targets) /\ ~guarded /\ mine = theirs => s = m /\ ~HasMissing(m)
  BY <1>1, SelectMeans
<1>7. Told(kusto) /\ Range(duck) = Range(kusto) => Agreeing
  BY DEF Agreeing
<1>8. known /\ ~forward => Readable(targets)
  BY ScopeIs
<1> HIDE DEF m, s, guarded, forward, kind
<1>9. /\ HasMissing(Unless(twice, m)) <=> twice \/ HasMissing(m)
      /\ ~twice => Unless(twice, m) = m
      /\ HasMissing(Unless(guarded, s)) <=> guarded \/ HasMissing(s)
      /\ ~guarded => Unless(guarded, s) = s
  BY <1>4, UnlessIs
<1>10. Sound(kind, Unless(twice, m), twice \/ forward, Unless(guarded, s), mine)
  <2>1. kind \in {"own", "joined", "numbered"} /\ (twice \/ forward) \in BOOLEAN
    BY <1>4, <1>5
  <2>2. ~HasMissing(Unless(twice, m)) => Unless(twice, m) \in Rel /\ IsInjective(NamesOf(Unless(twice, m)))
    BY <1>1, <1>2, <1>9
  <2>3. ~HasMissing(Unless(guarded, s)) => Unless(guarded, s) \in Rel
    BY <1>3, <1>9
  <2>4. known /\ ~(twice \/ forward) =>
          /\ kind # "numbered" /\ mine \in Distinct
          /\ ~HasMissing(Unless(twice, m)) => mine = NamesOf(Unless(twice, m))
          /\ kind = "joined" => ~HasMissing(Unless(twice, m))
    BY <1>2, <1>5, <1>9
  <2>5. known /\ ~(twice \/ forward) /\ duck = kusto /\ Told(kusto) =>
          /\ HasMissing(Unless(guarded, s)) <=> HasMissing(Unless(twice, m))
          /\ ~HasMissing(Unless(twice, m)) => Unless(guarded, s) = Unless(twice, m)
    BY <1>4, <1>5, <1>6, <1>7, <1>8, <1>9
  <2>6. ~HasMissing(Unless(guarded, s)) /\ ~HasMissing(Unless(twice, m)) /\ kind # "numbered"
        /\ Range(duck) = Range(kusto) /\ Told(kusto) =>
          Range(Unless(guarded, s)) = Range(Unless(twice, m)) /\ IsInjective(NamesOf(Unless(guarded, s)))
    BY <1>1, <1>2, <1>5, <1>6, <1>7, <1>9
  <2> QED
    BY <2>1, <2>2, <2>3, <2>4, <2>5, <2>6 DEF Sound
<1> QED
  BY <1>10 DEF m, s, guarded, forward, kind

\* project, and distinct, keep the invariant: their SELECT is the clause.
LEMMA ProjectKeeps ==
    ASSUME IInv, NEW c \in Clause, InScope(c), Project(c)
    PROVE  IInv'
<1> DEFINE names == ProjectNames(c)
           twice == DeclaredTwice(c)
<1>1. Here
  BY DEF Here, Project, Operator
<1>2. names \in Distinct /\ Len(names) = Len(c) /\ Len(c) \in Nat
  <2>1. c \in Seq(Target) /\ Len(c) \in Nat
    BY ClauseIs
  <2>2. IsFiniteSet({})
    BY FS_EmptySet
  <2> QED
    BY <2>1, <2>2, ClauseNames
<1>3. twice \in BOOLEAN
  BY DEF DeclaredTwice
<1>4. Operator(Len(c), "own", Unless(twice, Meaning(c, names)), twice \/ ForwardReference(c),
               Unless(ShadowGuard(c), Select(duck, RenderAs(c, names))), names)
  BY DEF Project
<1>5. Numbering(names, names) = "own"
  BY DEF Numbering
<1> HIDE DEF names, twice
<1>6. Sound(Numbering(names, names), Unless(twice, Meaning(c, names)), twice \/ ForwardReference(c),
            Unless(ShadowGuard(c), Select(duck, RenderAs(c, names))), names)
  BY <1>1, <1>2, <1>3, ClauseSound
<1> QED
  BY <1>2, <1>4, <1>5, <1>6, OperatorKeeps

\* summarize keeps the invariant: a ColumnN steps past the same columns on both
\* sides when the translator knows them, and is numbered otherwise.
LEMMA SummarizeKeeps ==
    ASSUME IInv, NEW by \in Clause, InScope(by), NEW aggregates \in Clause, InScope(aggregates),
           Summarize(by, aggregates)
    PROVE  IInv'
<1> DEFINE all == by \o aggregates
           twice == DeclaredTwice(by \o Only(aggregates, {a \in Range(aggregates) : a.name # NoName}))
           mine == SummarizeNames(by, aggregates, Range(cols))
           theirs == SummarizeNames(by, aggregates, Range(NamesOf(kusto)))
<1>1. Here
  BY DEF Here, Summarize, Operator
<1>2. /\ kusto \in Rel /\ cols \in Seq(Name) /\ NamesOf(kusto) \in Seq(Name)
      /\ by \in Seq(Target) /\ aggregates \in Seq(Target)
      /\ (known => cols = NamesOf(kusto))
  BY <1>1, HereIs, NamesOfIs, ClauseIs
<1>3. IsFiniteSet(Range(cols)) /\ IsFiniteSet(Range(NamesOf(kusto)))
  BY <1>2, RangeFinite
<1>4. /\ mine \in Distinct /\ Len(mine) = Len(all)
      /\ theirs \in Distinct /\ Len(theirs) = Len(all)
  BY <1>2, <1>3, ClauseNames
<1>5. all \in Clause /\ Len(all) \in Nat /\ Range(all) = Range(by) \cup Range(aggregates)
  <2> DEFINE T == [name : Spellings, fn : Word, col : Names]
  <2>1. Clause = Seq(T)
    BY DEF Clause
  <2> HIDE DEF T
  <2>2. by \o aggregates \in Seq(T) /\ Range(by \o aggregates) = Range(by) \cup Range(aggregates)
    BY <2>1, Concat, ConcatRange
  <2> QED
    BY <2>1, <2>2, ClauseIs
<1>6. InScope(all)
  <2> HIDE DEF all
  <2> QED
    BY <1>5 DEF InScope
<1>7. twice \in BOOLEAN
  BY DEF DeclaredTwice
<1>8. known => mine = theirs
  BY <1>2
<1>9. Operator(Len(all), Numbering(mine, theirs), Unless(twice, Meaning(all, theirs)),
               twice \/ ForwardReference(all),
               Unless(ShadowGuard(all), Select(duck, RenderAs(all, mine))), mine)
  BY DEF Summarize
<1> HIDE DEF all, twice, mine, theirs
<1>10. Sound(Numbering(mine, theirs), Unless(twice, Meaning(all, theirs)),
             twice \/ ForwardReference(all),
             Unless(ShadowGuard(all), Select(duck, RenderAs(all, mine))), mine)
  BY <1>1, <1>4, <1>5, <1>6, <1>7, <1>8, ClauseSound
<1> QED
  BY <1>5, <1>9, <1>10, OperatorKeeps

-----------------------------------------------------------------------------
\* where, project-away and project-rename.

\* A filter changes values, and no name.
LEMMA FilteredIs ==
    ASSUME NEW rel \in Rel, NEW v \in Values
    PROVE  /\ Filtered(rel, v) \in Rel /\ NamesOf(Filtered(rel, v)) = NamesOf(rel)
           /\ ~HasMissing(Filtered(rel, v))
           /\ Range(Filtered(rel, v)) = {[c EXCEPT !.value = @ \o <<"where">> \o v] : c \in Range(rel)}
<1> DEFINE new(c) == [c EXCEPT !.value = @ \o <<"where">> \o v]
           f == Filtered(rel, v)
           N == Len(rel)
           C == [name : Name, value : Values]
<1>1. N \in Nat /\ DOMAIN rel = 1 .. N /\ \A i \in 1 .. N : rel[i] \in C
  BY Members DEF Rel
<1>2. f = [i \in 1 .. N |-> new(rel[i])]
  BY <1>1 DEF Filtered
<1>3. ASSUME NEW c \in C PROVE new(c) \in C /\ new(c).name = c.name /\ new(c).value # Missing
  <2>1. c.value \o <<"where">> \o v \in Values \ {Missing}
    BY JoinedIs
  <2> QED
    BY <2>1
<1>4. Rel = Seq(C)
  BY DEF Rel
<1> HIDE DEF f, N, C, new
<1>5. \A i \in 1 .. N : f[i] = new(rel[i]) /\ f[i] \in C /\ f[i].name = rel[i].name /\ f[i].value # Missing
  BY <1>1, <1>2, <1>3
<1>6. f \in Seq(C) /\ DOMAIN f = 1 .. N
  <2>1. f = [i \in 1 .. N |-> f[i]]
    BY <1>2
  <2> QED
    BY <1>1, <1>5, <2>1, SequenceIs
<1>7. NamesOf(f) = NamesOf(rel)
  BY <1>1, <1>5, <1>6 DEF NamesOf
<1>8. ~HasMissing(f)
  BY <1>5, <1>6 DEF HasMissing
<1>9. Range(f) = {new(c) : c \in Range(rel)}
  BY <1>1, <1>5, <1>6 DEF Range
<1> QED
  BY <1>4, <1>6, <1>7, <1>8, <1>9 DEF f, new

\* where, sort and top keep the invariant.
LEMMA WhereKeeps ==
    ASSUME IInv, NEW t, <<t>> \in Clause, t.col \in Columns \cup {LetName}, Where(t)
    PROVE  IInv'
<1> DEFINE read == IF IsValue(t.col) THEN LetValue ELSE Lookup(duck, t.col)
           means == Means(t.col)
           guarded == ShadowGuard(<<t>>)
           m == Filtered(kusto, means)
           s == Filtered(duck, read)
           bad == guarded \/ read = Missing
           lost == means = Missing
<1>1. Here
  BY DEF Here, Where, Operator
<1>2. /\ Types /\ kusto \in Rel /\ duck \in Rel /\ cols \in Distinct
      /\ IsInjective(NamesOf(kusto)) /\ (known => cols = NamesOf(kusto))
  BY <1>1, HereIs
<1>3. means \in Values /\ read \in Values
  <2>1. Means(t.col) \in Values /\ Lookup(duck, t.col) \in Values /\ LetValue \in Values
    BY <1>2, MeansIs, LookupIs, Marks
  <2> QED
    BY <2>1
<1>4. Agreeing /\ ~guarded => read = means /\ means # Missing
  <2> HAVE Agreeing /\ ~guarded
  <2>1. t \in Range(<<t>>)
    BY DEF Range
  <2>2. ~known /\ t.col = LetName => ~Contains(NamesOf(duck), LetName)
    BY <2>1 DEF ShadowGuard, ReadsLet
  <2> QED
    BY <1>2, <2>2, ReadIs
<1>5. bad \in BOOLEAN /\ lost \in BOOLEAN /\ (known => ~guarded)
  BY DEF ShadowGuard
<1>6. Operator(1, "own", Unless(lost, m), FALSE, Unless(bad, s), cols)
  BY DEF Where
<1>7. Told(kusto) /\ Range(duck) = Range(kusto) => Agreeing
  BY DEF Agreeing
<1>8. /\ m \in Rel /\ NamesOf(m) = NamesOf(kusto) /\ ~HasMissing(m)
      /\ s \in Rel /\ NamesOf(s) = NamesOf(duck) /\ ~HasMissing(s)
      /\ Range(duck) = Range(kusto) /\ read = means => Range(s) = Range(m)
  <2> HIDE DEF read, means
  <2> QED
    BY <1>2, <1>3, FilteredIs
<1>9. Agreeing /\ ~bad /\ duck = kusto => s = m
  BY <1>4
<1>10. Told(duck) => IsInjective(NamesOf(duck))
  BY <1>2, ToldIs
<1>11. Agreeing /\ ~guarded => ~bad /\ ~lost /\ read = means
  BY <1>4
<1>12. bad => guarded \/ read = Missing
  OBVIOUS
<1>13. ~bad => ~guarded
  OBVIOUS
<1> HIDE DEF read, means, guarded, m, s, bad, lost
<1>14. /\ HasMissing(Unless(lost, m)) <=> lost
       /\ ~lost => Unless(lost, m) = m
       /\ HasMissing(Unless(bad, s)) <=> bad
       /\ ~bad => Unless(bad, s) = s
  BY <1>5, <1>8, UnlessIs
<1>15. Sound("own", Unless(lost, m), FALSE, Unless(bad, s), cols)
  <2>1. ~HasMissing(Unless(lost, m)) => Unless(lost, m) \in Rel /\ IsInjective(NamesOf(Unless(lost, m)))
    BY <1>2, <1>8, <1>14
  <2>2. ~HasMissing(Unless(bad, s)) => Unless(bad, s) \in Rel
    BY <1>8, <1>14
  <2>3. known => cols \in Distinct /\ (~HasMissing(Unless(lost, m)) => cols = NamesOf(Unless(lost, m)))
    BY <1>2, <1>8, <1>14
  <2>4. known /\ duck = kusto /\ Told(kusto) =>
          /\ HasMissing(Unless(bad, s)) <=> HasMissing(Unless(lost, m))
          /\ ~HasMissing(Unless(lost, m)) => Unless(bad, s) = Unless(lost, m)
    BY <1>5, <1>7, <1>9, <1>11, <1>14
  <2>5. ~HasMissing(Unless(bad, s)) /\ Range(duck) = Range(kusto) /\ Told(kusto) /\ Told(duck) =>
          Range(Unless(bad, s)) = Range(Unless(lost, m)) /\ IsInjective(NamesOf(Unless(bad, s)))
    BY <1>7, <1>8, <1>10, <1>11, <1>13, <1>14
  <2> QED
    BY <2>1, <2>2, <2>3, <2>4, <2>5 DEF Sound
<1> QED
  BY <1>6, <1>15, OperatorKeeps

\* Fewer columns.

\* The columns that are in both sets have the names that are in both.
LEMMA OnlyColumns ==
    ASSUME NEW rel \in Rel, NEW S, NEW T,
           \A c \in Range(rel) : c \in S <=> c.name \in T
    PROVE  /\ Only(rel, S) \in Rel
           /\ NamesOf(Only(rel, S)) = Only(NamesOf(rel), T)
           /\ Range(Only(rel, S)) = Range(rel) \cap S
           /\ IsInjective(NamesOf(rel)) => IsInjective(NamesOf(Only(rel, S)))
           /\ ~HasMissing(rel) => ~HasMissing(Only(rel, S))
<1> DEFINE C == [name : Name, value : Values]
           s == NamesOf(rel)
           N == Len(rel)
<1>1. Rel = Seq(C)
  BY DEF Rel
<1>2. /\ s \in Seq(Name) /\ Len(s) = N /\ N \in Nat /\ DOMAIN rel = 1 .. N
      /\ \A i \in 1 .. N : rel[i] \in Range(rel) /\ s[i] = rel[i].name
  BY NamesOfIs
<1> HIDE DEF C, s, N
<1>3. rel \in Seq(C)
  BY <1>1
<1>4. Only(rel, S) \in Seq(C) /\ Range(Only(rel, S)) = Range(rel) \cap S
  BY <1>3, OnlyIs
<1>5. IsInjective(s) => IsInjective(Only(s, T))
  BY <1>2, OnlyIs
<1>6. NamesOf(Only(rel, S)) = Only(s, T)
  <2>1. \A i \in 1 .. Len(rel) : rel[i] \in S <=> s[i] \in T
    BY <1>2 DEF N
  <2>2. Len(s) = Len(rel)
    BY <1>2 DEF N
  <2>3. \E g : Picks(g, Only(rel, S), rel, S, Len(rel)) /\ Picks(g, Only(s, T), s, T, Len(rel))
    BY <1>2, <1>3, <2>1, <2>2, OnlyTogether
  <2>4. PICK g : Picks(g, Only(rel, S), rel, S, Len(rel)) /\ Picks(g, Only(s, T), s, T, Len(rel))
    BY <2>3
  <2>5. /\ g \in Seq(1 .. N)
        /\ Only(rel, S) = [k \in 1 .. Len(g) |-> rel[g[k]]]
        /\ Only(s, T) = [k \in 1 .. Len(g) |-> s[g[k]]]
    BY <2>4 DEF Picks, N
  <2>6. \A k \in 1 .. Len(g) : s[g[k]] = rel[g[k]].name
    BY <1>2, <2>5
  <2> QED
    BY <2>5, <2>6 DEF NamesOf
<1>7. ~HasMissing(rel) => ~HasMissing(Only(rel, S))
  <2> SUFFICES ASSUME ~HasMissing(rel), NEW i \in DOMAIN Only(rel, S) PROVE Only(rel, S)[i].value # Missing
    BY DEF HasMissing
  <2>1. Only(rel, S)[i] \in Range(rel)
    BY <1>4 DEF Range
  <2> QED
    BY <2>1 DEF HasMissing, Range
<1> QED
  BY <1>1, <1>4, <1>5, <1>6, <1>7 DEF s

\* The columns that have none of the names.
LEMMA WithoutIs ==
    ASSUME NEW rel \in Rel, NEW names
    PROVE  /\ Without(rel, names) \in Rel
           /\ NamesOf(Without(rel, names)) = Only(NamesOf(rel), Range(NamesOf(rel)) \ names)
           /\ Range(Without(rel, names)) = {c \in Range(rel) : c.name \notin names}
           /\ IsInjective(NamesOf(rel)) => IsInjective(NamesOf(Without(rel, names)))
           /\ ~HasMissing(rel) => ~HasMissing(Without(rel, names))
<1> DEFINE S == {c \in Range(rel) : c.name \notin names}
<1>1. Without(rel, names) = Only(rel, S) /\ Range(rel) \cap S = S
  BY DEF Without
<1>2. \A c \in Range(rel) : c \in S <=> c.name \in Range(NamesOf(rel)) \ names
  BY NamesOfIs
<1>3. S = {c \in Range(rel) : c.name \notin names}
  OBVIOUS
<1> HIDE DEF S
<1>4. /\ Only(rel, S) \in Rel
      /\ NamesOf(Only(rel, S)) = Only(NamesOf(rel), Range(NamesOf(rel)) \ names)
      /\ Range(Only(rel, S)) = Range(rel) \cap S
      /\ IsInjective(NamesOf(rel)) => IsInjective(NamesOf(Only(rel, S)))
      /\ ~HasMissing(rel) => ~HasMissing(Only(rel, S))
  BY <1>2, OnlyColumns
<1> QED
  BY <1>1, <1>3, <1>4

\* What DuckDB excludes is what Kusto drops.
LEMMA ExcludingIs ==
    ASSUME Here, NEW names \in SUBSET Columns
    PROVE  /\ ~HasMissing(Excluding(duck, names)) => Excluding(duck, names) \in Rel
           /\ Agreeing => Excluding(duck, names) = Without(duck, names)
<1> DEFINE D == {c \in Range(duck) : \A n \in names : Fold(c.name) # Fold(n)}
           S == {c \in Range(duck) : c.name \notin names}
           d == Only(duck, D)
           lost == \E n \in names : Lookup(duck, n) = Missing
           s == Excluding(duck, names)
<1>1. Types /\ kusto \in Rel /\ duck \in Rel
  BY HereIs
<1>2. s = Unless(lost, d) /\ Without(duck, names) = Only(duck, S)
  BY DEF Without, Excluding
<1>3. d \in Rel
  <2>1. duck \in Seq(ColumnType)
    BY <1>1 DEF Rel, ColumnType
  <2> HIDE DEF D
  <2>2. Only(duck, D) \in Seq(ColumnType)
    BY <2>1, OnlyIs
  <2> QED
    BY <2>2 DEF Rel, ColumnType
<1>4. Agreeing => ~lost /\ D = S
  <2> HAVE Agreeing
  <2>1. ~lost
    BY <1>1, LookupMeans, MeansIs
  <2>2. ASSUME NEW c \in Range(kusto), NEW n \in names, Fold(c.name) = Fold(n) PROVE c.name = n
    <3>1. PICK e \in Range(kusto) : e.name = n
      BY <1>1, NamesOfIs DEF Columns
    <3>2. Apart(kusto)
      BY <1>1, LookupMeans
    <3> QED
      BY <2>2, <3>1, <3>2 DEF Apart
  <2>3. Range(duck) = Range(kusto)
    BY DEF Agreeing
  <2>4. \A c \in Range(duck) : (\A n \in names : Fold(c.name) # Fold(n)) <=> c.name \notin names
    BY <2>2, <2>3
  <2> QED
    BY <2>1, <2>4
<1>5. lost \in BOOLEAN
  OBVIOUS
<1>6. D = S => d = Only(duck, S)
  <2> HIDE DEF D, S
  <2> QED
    OBVIOUS
<1> HIDE DEF D, S, d, lost, s
<1>7. /\ HasMissing(s) <=> lost \/ HasMissing(d)
      /\ ~lost => s = d
  BY <1>2, <1>5, UnlessIs
<1>8. /\ ~HasMissing(s) => s \in Rel
      /\ Agreeing => s = Without(duck, names)
  BY <1>2, <1>3, <1>4, <1>6, <1>7
<1> QED
  BY <1>8 DEF s

\* project-away keeps the invariant: EXCLUDE, which has no case, drops the
\* columns of the exact names where names are told apart.
LEMMA ProjectAwayKeeps ==
    ASSUME IInv, NEW names \in SUBSET Columns, ProjectAway(names)
    PROVE  IInv'
<1> DEFINE m == Without(kusto, names)
           s == Excluding(duck, names)
           predicted == Only(cols, Range(cols) \ names)
<1>1. Here
  BY DEF Here, ProjectAway, Operator
<1>2. /\ kusto \in Rel /\ duck \in Rel /\ cols \in Distinct /\ cols \in Seq(Name) /\ IsInjective(cols)
      /\ ~HasMissing(kusto) /\ ~HasMissing(duck)
      /\ IsInjective(NamesOf(kusto)) /\ (known => cols = NamesOf(kusto))
  BY <1>1, HereIs
<1>3. /\ m \in Rel /\ IsInjective(NamesOf(m)) /\ ~HasMissing(m)
      /\ NamesOf(m) = Only(NamesOf(kusto), Range(NamesOf(kusto)) \ names)
      /\ Range(m) = {c \in Range(kusto) : c.name \notin names}
  BY <1>2, WithoutIs
<1>4. predicted \in Distinct /\ (known => predicted = NamesOf(m))
  <2>1. predicted \in Distinct
    BY <1>2, OnlyIs DEF Distinct
  <2>2. known => Only(cols, Range(cols) \ names) = Only(NamesOf(kusto), Range(NamesOf(kusto)) \ names)
    BY <1>2
  <2> HIDE DEF m
  <2> QED
    BY <1>3, <2>1, <2>2
<1>5. Operator(1, "own", m, FALSE, s, predicted)
  BY DEF ProjectAway
<1>6. /\ ~HasMissing(s) => s \in Rel
      /\ Told(kusto) /\ Range(duck) = Range(kusto) => s = Without(duck, names)
  BY <1>1, ExcludingIs DEF Agreeing
<1>7. Told(duck) => IsInjective(NamesOf(duck))
  BY <1>2, ToldIs
<1>8. /\ Range(Without(duck, names)) = {c \in Range(duck) : c.name \notin names}
      /\ IsInjective(NamesOf(duck)) => IsInjective(NamesOf(Without(duck, names)))
  BY <1>2, WithoutIs
<1>9. duck = kusto => Without(duck, names) = m
  OBVIOUS
<1> HIDE DEF m, s, predicted
<1>10. Sound("own", m, FALSE, s, predicted)
  <2>1. known /\ duck = kusto /\ Told(kusto) => ~HasMissing(s) /\ s = m
    BY <1>3, <1>6, <1>9
  <2>2. Range(duck) = Range(kusto) /\ Told(kusto) /\ Told(duck) => Range(s) = Range(m) /\ IsInjective(NamesOf(s))
    BY <1>3, <1>6, <1>7, <1>8
  <2> QED
    BY <1>3, <1>4, <1>6, <2>1, <2>2 DEF Sound
<1> QED
  BY <1>5, <1>10, OperatorKeeps

\* project-rename keeps the invariant: the new name is no column's, and RENAME
\* finds one column in any case.
LEMMA ProjectRenameKeeps ==
    ASSUME IInv, NEW old \in Columns, NEW new \in Names \ Columns, ProjectRename(old, new)
    PROVE  IInv'
<1> DEFINE folded == {n \in Range(NamesOf(duck)) : Fold(n) = Fold(old)}
           m == Called(kusto, {old}, new)
           d == Called(duck, folded, new)
           lost == Lookup(duck, old) = Missing
           predicted == Renamed(cols, old, new)
           One(c, names) == IF c.name \in names THEN Column(new, c.value) ELSE c
<1>1. Here
  BY DEF Here, ProjectRename, Operator
<1>2. /\ Types /\ kusto \in Rel /\ duck \in Rel /\ cols \in Distinct /\ cols \in Seq(Name) /\ IsInjective(cols)
      /\ ~HasMissing(kusto) /\ ~HasMissing(duck)
      /\ IsInjective(NamesOf(kusto)) /\ (known => cols = NamesOf(kusto))
  BY <1>1, HereIs
<1>3. new \in Name /\ new \notin Columns
  BY NamesAssumption
<1>4. ASSUME NEW rel \in Rel, ~HasMissing(rel), NEW names
      PROVE  /\ Called(rel, names, new) \in Rel /\ ~HasMissing(Called(rel, names, new))
             /\ DOMAIN Called(rel, names, new) = DOMAIN rel
             /\ \A i \in DOMAIN rel : Called(rel, names, new)[i] = One(rel[i], names)
             /\ Range(Called(rel, names, new)) = {One(c, names) : c \in Range(rel)}
  <2> DEFINE f == Called(rel, names, new)
             N == Len(rel)
             C == [name : Name, value : Values]
  <2>1. Rel = Seq(C)
    BY DEF Rel
  <2>2. N \in Nat /\ DOMAIN rel = 1 .. N /\ \A i \in 1 .. N : rel[i] \in C /\ rel[i].value # Missing
    BY <1>4, Members DEF Rel, HasMissing
  <2>3. f = [i \in 1 .. N |-> One(rel[i], names)]
    BY <2>2 DEF Called
  <2>4. \A i \in 1 .. N : One(rel[i], names) \in C /\ One(rel[i], names).value # Missing
    BY <1>3, <2>2 DEF Column
  <2> HIDE DEF f, N, C, One
  <2>5. \A i \in 1 .. N : f[i] = One(rel[i], names) /\ f[i] \in C /\ f[i].value # Missing
    BY <2>3, <2>4
  <2>6. f \in Seq(C) /\ DOMAIN f = 1 .. N
    <3>1. f = [i \in 1 .. N |-> f[i]]
      BY <2>3
    <3> QED
      BY <2>2, <2>5, <3>1, SequenceIs
  <2>7. Range(f) = {One(c, names) : c \in Range(rel)}
    BY <2>2, <2>5, <2>6 DEF Range
  <2>8. ~HasMissing(f)
    BY <2>5, <2>6 DEF HasMissing
  <2> QED
    BY <2>1, <2>2, <2>5, <2>6, <2>7, <2>8 DEF f
<1>5. /\ m \in Rel /\ ~HasMissing(m) /\ DOMAIN m = DOMAIN kusto
      /\ \A i \in DOMAIN kusto : m[i] = One(kusto[i], {old})
      /\ Range(m) = {One(c, {old}) : c \in Range(kusto)}
      /\ d \in Rel /\ ~HasMissing(d) /\ DOMAIN d = DOMAIN duck
      /\ \A i \in DOMAIN duck : d[i] = One(duck[i], folded)
      /\ Range(d) = {One(c, folded) : c \in Range(duck)}
  <2> HIDE DEF folded, One
  <2> QED
    BY <1>2, <1>4
<1> HIDE DEF m, d
<1>6. \A i \in DOMAIN kusto : m[i].name = IF kusto[i].name = old THEN new ELSE kusto[i].name
  <2> TAKE i \in DOMAIN kusto
  <2>1. m[i] = IF kusto[i].name = old THEN Column(new, kusto[i].value) ELSE kusto[i]
    BY <1>5
  <2> QED
    BY <2>1 DEF Column
<1>7. \A i \in DOMAIN duck : d[i].name = IF duck[i].name \in folded THEN new ELSE duck[i].name
  <2> TAKE i \in DOMAIN duck
  <2>1. d[i] = IF duck[i].name \in folded THEN Column(new, duck[i].value) ELSE duck[i]
    BY <1>5
  <2> HIDE DEF folded
  <2> QED
    BY <2>1 DEF Column
<1>8. IsInjective(NamesOf(m))
  <2> SUFFICES ASSUME NEW i \in DOMAIN m, NEW j \in DOMAIN m, m[i].name = m[j].name PROVE i = j
    BY DEF NamesOf, IsInjective
  <2>1. i \in DOMAIN kusto /\ j \in DOMAIN kusto /\ kusto[i].name # new /\ kusto[j].name # new
    <3>1. \A k \in DOMAIN kusto : kusto[k].name \in Columns
      BY DEF Columns, NamesOf, Range
    <3> QED
      BY <1>3, <1>5, <3>1
  <2>2. kusto[i].name = kusto[j].name
    BY <1>6, <2>1
  <2>3. NamesOf(kusto)[i] = NamesOf(kusto)[j] /\ i \in DOMAIN NamesOf(kusto) /\ j \in DOMAIN NamesOf(kusto)
    BY <2>1, <2>2 DEF NamesOf
  <2> QED
    BY <1>2, <2>3 DEF IsInjective
<1>9. Agreeing => ~lost /\ folded = {old} /\ Range(NamesOf(duck)) = Columns
  <2> HAVE Agreeing
  <2>1. ~lost
    BY <1>2, LookupMeans, MeansIs
  <2>2. Range(NamesOf(duck)) = Columns
    BY <1>2, SameNames DEF Agreeing, Columns
  <2>3. ASSUME NEW n \in Columns, Fold(n) = Fold(old) PROVE n = old
    <3>1. PICK e \in Range(kusto) : e.name = n
      BY <1>2, NamesOfIs DEF Columns
    <3>2. PICK c \in Range(kusto) : c.name = old
      BY <1>2, NamesOfIs DEF Columns
    <3>3. Apart(kusto)
      BY <1>2, LookupMeans
    <3> QED
      BY <2>3, <3>1, <3>2, <3>3 DEF Apart
  <2> QED
    BY <2>1, <2>2, <2>3
<1>10. Agreeing /\ Told(duck) => IsInjective(NamesOf(d))
  <2> HAVE Agreeing /\ Told(duck)
  <2> SUFFICES ASSUME NEW i \in DOMAIN d, NEW j \in DOMAIN d, d[i].name = d[j].name PROVE i = j
    BY DEF NamesOf, IsInjective
  <2>1. i \in DOMAIN duck /\ j \in DOMAIN duck /\ duck[i].name # new /\ duck[j].name # new
    <3>1. \A k \in DOMAIN duck : duck[k].name \in Columns
      BY <1>9 DEF NamesOf, Range
    <3> QED
      BY <1>3, <1>5, <3>1
  <2>2. duck[i].name = duck[j].name
    <3> HIDE DEF folded
    <3> QED
      BY <1>7, <1>9, <2>1
  <2> QED
    BY <2>1, <2>2 DEF Told
<1>11. known => predicted = NamesOf(m)
  BY <1>2, <1>5, <1>6 DEF Renamed, NamesOf
<1>12. known => predicted \in Distinct
  <2> HAVE known
  <2>1. predicted = NamesOf(m)
    BY <1>11
  <2>2. NamesOf(m) \in Seq(Name)
    BY <1>5, NamesOfIs
  <2> HIDE DEF m, predicted
  <2> QED
    BY <1>8, <2>1, <2>2 DEF Distinct
<1>13. Operator(1, "own", m, FALSE, Unless(lost, d), predicted)
  BY DEF ProjectRename, m, d
<1>14. Told(kusto) /\ Range(duck) = Range(kusto) => Agreeing
  BY DEF Agreeing
<1>15. /\ duck = kusto /\ folded = {old} => d = m
       /\ Range(duck) = Range(kusto) /\ folded = {old} => Range(d) = Range(m)
  <2> HIDE DEF folded, One
  <2>1. duck = kusto /\ folded = {old} => d = m
    BY DEF d, m
  <2> QED
    BY <1>5, <2>1
<1>16. lost \in BOOLEAN
  OBVIOUS
<1> HIDE DEF folded, m, d, lost, predicted, One
<1>17. /\ HasMissing(Unless(lost, d)) <=> lost
       /\ ~lost => Unless(lost, d) = d
  BY <1>5, <1>16, UnlessIs
<1>18. Sound("own", m, FALSE, Unless(lost, d), predicted)
  <2>1. ~HasMissing(Unless(lost, d)) => Unless(lost, d) \in Rel
    BY <1>5, <1>17
  <2>2. known => predicted \in Distinct /\ predicted = NamesOf(m)
    BY <1>11, <1>12
  <2>3. known /\ duck = kusto /\ Told(kusto) => ~HasMissing(Unless(lost, d)) /\ Unless(lost, d) = m
    BY <1>9, <1>14, <1>15, <1>17
  <2>4. Range(duck) = Range(kusto) /\ Told(kusto) /\ Told(duck) =>
          Range(Unless(lost, d)) = Range(m) /\ IsInjective(NamesOf(Unless(lost, d)))
    BY <1>9, <1>10, <1>14, <1>15, <1>17
  <2> QED
    BY <1>5, <1>8, <2>1, <2>2, <2>3, <2>4 DEF Sound
<1> QED
  BY <1>13, <1>18, OperatorKeeps

-----------------------------------------------------------------------------
\* Columns in the place of others: extend, parse and mv-expand.

\* u is s followed by t.
Follows(u, s, t) ==
    /\ Len(s) \in Nat /\ Len(t) \in Nat
    /\ Len(u) = Len(s) + Len(t) /\ DOMAIN u = 1 .. Len(u)
    /\ \A i \in 1 .. Len(s) : u[i] = s[i]
    /\ \A i \in 1 .. Len(t) : u[Len(s) + i] = t[i]
    /\ \A i \in DOMAIN u : i \in 1 .. Len(s) \/ \E j \in 1 .. Len(t) : i = Len(s) + j
    /\ Range(u) = Range(s) \cup Range(t)

\* Concatenation, with its positions and members in one predicate.
LEMMA ConcatIs ==
    ASSUME NEW T, NEW s \in Seq(T), NEW t \in Seq(T)
    PROVE  s \o t \in Seq(T) /\ Follows(s \o t, s, t)
<1>1. s \o t \in Seq(T) /\ Len(s) \in Nat /\ Len(t) \in Nat /\ DOMAIN (s \o t) = 1 .. Len(s \o t)
  OBVIOUS
<1>2. Len(s \o t) = Len(s) + Len(t) /\ \A i \in 1 .. Len(s) : (s \o t)[i] = s[i]
  BY Concat
<1>3. \A i \in 1 .. Len(t) : (s \o t)[Len(s) + i] = t[i]
  BY Concat
<1>4. \A i \in DOMAIN (s \o t) : i \in 1 .. Len(s) \/ \E j \in 1 .. Len(t) : i = Len(s) + j
  BY Concat
<1>5. Range(s \o t) = Range(s) \cup Range(t)
  BY ConcatRange
<1> QED
  BY <1>1, <1>2, <1>3, <1>4, <1>5 DEF Follows

\* The column of new in the place of c.
Placed(c, new) ==
    LET of == {i \in DOMAIN new : new[i].name = c.name}
    IN  IF of = {} THEN c ELSE new[CHOOSE j \in of : TRUE]

\* A column keeps its name and takes the value of the new one of that name.
LEMMA PlacedIs ==
    ASSUME NEW c \in ColumnType, NEW new \in Rel
    PROVE  /\ Placed(c, new) \in ColumnType /\ Placed(c, new).name = c.name
           /\ c.name \notin Range(NamesOf(new)) => Placed(c, new) = c
           /\ c.name \in Range(NamesOf(new)) => Placed(c, new) \in Range(new)
<1> DEFINE of == {i \in DOMAIN new : new[i].name = c.name}
<1>1. Placed(c, new) = IF of = {} THEN c ELSE new[CHOOSE j \in of : TRUE]
  BY DEF Placed
<1>2. \A j \in of : /\ new[j].name = c.name /\ new[j] \in ColumnType /\ new[j] \in Range(new)
                    /\ new[j].name \in Range(NamesOf(new))
  <2>1. \A j \in DOMAIN new : new[j] \in ColumnType
    BY Members DEF Rel, ColumnType
  <2> QED
    BY <2>1, NamesOfIs
<1>3. c.name \in Range(NamesOf(new)) => of # {}
  BY DEF Range, NamesOf
<1> HIDE DEF of
<1> QED
  BY <1>1, <1>2, <1>3

\* Columns put in the place of others.
LEMMA InPlaceIs ==
    ASSUME NEW rel \in Rel, NEW new \in Rel
    PROVE  /\ InPlace(rel, new) \in Rel
           /\ NamesOf(InPlace(rel, new)) = Replacing(NamesOf(rel), NamesOf(new))
           /\ ~HasMissing(rel) /\ ~HasMissing(new) => ~HasMissing(InPlace(rel, new))
           /\ IsInjective(NamesOf(new)) =>
                 Range(InPlace(rel, new)) \cup Range(new)
                    = {c \in Range(rel) : c.name \notin Range(NamesOf(new))} \cup Range(new)
           /\ IsInjective(NamesOf(new)) => Range(new) \subseteq Range(InPlace(rel, new))
<1> DEFINE a == [i \in DOMAIN rel |-> Placed(rel[i], new)]
           S == {c \in Range(new) : c.name \notin Range(NamesOf(rel))}
           b == Only(new, S)
           p == InPlace(rel, new)
           M == Len(rel)
<1>1. p = a \o b
  BY DEF InPlace, Without, Placed
<1>2. /\ M \in Nat /\ DOMAIN rel = 1 .. M
      /\ \A i \in 1 .. M : rel[i] \in ColumnType /\ rel[i] \in Range(rel) /\ NamesOf(rel)[i] = rel[i].name
  <2>1. \A i \in 1 .. M : rel[i] \in ColumnType
    BY Members DEF Rel, ColumnType
  <2> QED
    BY <2>1, NamesOfIs
<1>3. Rel = Seq(ColumnType)
  BY DEF Rel, ColumnType
<1>4. a \in Seq(ColumnType) /\ Len(a) = M /\ DOMAIN a = 1 .. M /\ \A i \in 1 .. M : a[i] = Placed(rel[i], new)
  <2>1. \A i \in 1 .. M : a[i] = Placed(rel[i], new) /\ a[i] \in ColumnType
    BY <1>2, PlacedIs
  <2>2. a = [i \in 1 .. M |-> a[i]]
    BY <1>2
  <2> HIDE DEF a, M
  <2> QED
    BY <1>2, <2>1, <2>2, SequenceIs
<1>5. /\ b \in Rel /\ Range(b) = Range(new) \cap S /\ (~HasMissing(new) => ~HasMissing(b))
      /\ NamesOf(b) = Only(NamesOf(new), Range(NamesOf(new)) \ Range(NamesOf(rel)))
  <2>1. \A c \in Range(new) : c \in S <=> c.name \in Range(NamesOf(new)) \ Range(NamesOf(rel))
    BY NamesOfIs
  <2> HIDE DEF S
  <2> QED
    BY <2>1, OnlyColumns
<1> HIDE DEF a, b, p, M
<1>6. /\ p \in Seq(ColumnType) /\ Len(p) = M + Len(b)
      /\ \A i \in 1 .. M : p[i] = a[i]
      /\ \A i \in 1 .. Len(b) : p[M + i] = b[i]
      /\ \A i \in DOMAIN p : i \in 1 .. M \/ \E j \in 1 .. Len(b) : i = M + j
      /\ Range(p) = Range(a) \cup Range(b)
  <2>1. b \in Seq(ColumnType)
    BY <1>3, <1>5
  <2>2. p \in Seq(ColumnType) /\ Follows(p, a, b)
    BY <1>1, <1>4, <2>1, ConcatIs
  <2> QED
    BY <1>4, <2>2 DEF Follows
<1>7. NamesOf(p) = Replacing(NamesOf(rel), NamesOf(new))
  <2> DEFINE k == NamesOf(rel)
             q == Replacing(k, NamesOf(new))
             n == NamesOf(b)
  <2>1. k \in Seq(Name) /\ Len(k) = M /\ n \in Seq(Name) /\ Len(n) = Len(b) /\ Len(b) \in Nat
        /\ \A i \in 1 .. Len(b) : n[i] = b[i].name
    BY <1>5, NamesOfIs DEF M
  <2>2. q = k \o n
    BY <1>5 DEF Replacing
  <2>3. p \in Rel /\ NamesOf(p) \in Seq(Name) /\ Len(NamesOf(p)) = Len(p) /\ DOMAIN p = 1 .. Len(p)
        /\ \A i \in 1 .. Len(p) : NamesOf(p)[i] = p[i].name
    BY <1>3, <1>6, NamesOfIs
  <2> HIDE DEF q, n, k
  <2>4. /\ q \in Seq(Name) /\ Len(q) = M + Len(b)
        /\ \A i \in 1 .. M : q[i] = k[i]
        /\ \A i \in 1 .. Len(b) : q[M + i] = n[i]
    <3>1. q \in Seq(Name) /\ Follows(q, k, n)
      BY <2>1, <2>2, ConcatIs
    <3> QED
      BY <2>1, <3>1 DEF Follows
  <2>5. ASSUME NEW i \in 1 .. Len(p) PROVE NamesOf(p)[i] = q[i]
    <3>1. CASE i \in 1 .. M
      <4>1. p[i].name = rel[i].name
        BY <1>2, <1>4, <1>6, <3>1, PlacedIs
      <4>2. k[i] = rel[i].name
        BY <1>2, <3>1 DEF k
      <4> QED
        BY <2>3, <2>4, <3>1, <4>1, <4>2
    <3>2. CASE \E j \in 1 .. Len(b) : i = M + j
      <4>1. PICK j \in 1 .. Len(b) : i = M + j
        BY <3>2
      <4> QED
        BY <1>6, <2>1, <2>3, <2>4, <4>1
    <3> QED
      BY <1>6, <2>3, <3>1, <3>2
  <2>6. NamesOf(p) = [i \in 1 .. Len(p) |-> NamesOf(p)[i]] /\ q = [i \in 1 .. Len(p) |-> q[i]]
    BY <1>6, <2>3, <2>4
  <2>7. NamesOf(p) = q
    BY <2>5, <2>6
  <2> QED
    BY <2>7 DEF q, k
<1>8. ASSUME NEW i \in 1 .. M
      PROVE  /\ rel[i].name \notin Range(NamesOf(new)) => a[i] = rel[i]
             /\ rel[i].name \in Range(NamesOf(new)) => a[i] \in Range(new)
             /\ a[i].name = rel[i].name
  BY <1>2, <1>4, PlacedIs
<1>9. ~HasMissing(rel) /\ ~HasMissing(new) => ~HasMissing(p)
  <2> SUFFICES ASSUME ~HasMissing(rel), ~HasMissing(new), NEW i \in DOMAIN p PROVE p[i].value # Missing
    BY DEF HasMissing
  <2>1. CASE i \in 1 .. M
    <3>1. p[i] = rel[i] \/ p[i] \in Range(new)
      BY <1>6, <1>8, <2>1
    <3> QED
      BY <1>2, <2>1, <3>1 DEF HasMissing, Range
  <2>2. CASE \E j \in 1 .. Len(b) : i = M + j
    <3>1. PICK j \in 1 .. Len(b) : i = M + j
      BY <2>2
    <3>2. j \in DOMAIN b /\ ~HasMissing(b)
      BY <1>5, NamesOfIs
    <3> QED
      BY <1>6, <3>1, <3>2 DEF HasMissing
  <2> QED
    BY <1>6, <2>1, <2>2
<1>10. ASSUME IsInjective(NamesOf(new)), NEW c \in Range(new) PROVE c \in Range(p)
  <2>1. CASE c.name \notin Range(NamesOf(rel))
    BY <1>5, <1>6, <2>1
  <2>2. CASE c.name \in Range(NamesOf(rel))
    <3>1. PICK i \in 1 .. M : rel[i].name = c.name
      <4>1. PICK e \in Range(rel) : e.name = c.name
        BY <2>2, NamesOfIs
      <4> QED
        BY <1>2, <4>1 DEF Range
    <3>2. c.name \in Range(NamesOf(new))
      BY NamesOfIs
    <3>3. a[i] \in Range(new) /\ a[i].name = c.name
      BY <1>8, <3>1, <3>2
    <3>4. \A d \in Range(new) : d.name = c.name => d = c
      <4> TAKE d \in Range(new)
      <4> HAVE d.name = c.name
      <4>1. PICK j \in DOMAIN new : d = new[j]
        BY DEF Range
      <4>2. PICK l \in DOMAIN new : c = new[l]
        BY DEF Range
      <4>3. NamesOf(new)[j] = NamesOf(new)[l] /\ j \in DOMAIN NamesOf(new) /\ l \in DOMAIN NamesOf(new)
        BY <4>1, <4>2 DEF NamesOf
      <4> QED
        BY <1>10, <4>1, <4>2, <4>3 DEF IsInjective
    <3>5. a[i] \in Range(a)
      BY <1>4 DEF Range
    <3> QED
      BY <1>6, <3>3, <3>4, <3>5
  <2> QED
    BY <2>1, <2>2
<1>11. Range(p) \cup Range(new) = {c \in Range(rel) : c.name \notin Range(NamesOf(new))} \cup Range(new)
  <2>1. ASSUME NEW c \in Range(p), c \notin Range(new)
        PROVE  c \in Range(rel) /\ c.name \notin Range(NamesOf(new))
    <3>1. c \in Range(a)
      BY <1>5, <1>6, <2>1
    <3>2. PICK i \in 1 .. M : c = a[i]
      BY <1>4, <3>1 DEF Range
    <3> QED
      BY <1>2, <1>8, <2>1, <3>2
  <2>2. ASSUME NEW c \in Range(rel), c.name \notin Range(NamesOf(new)) PROVE c \in Range(p)
    <3>1. PICK i \in 1 .. M : c = rel[i]
      BY <1>2 DEF Range
    <3>2. a[i] = c /\ a[i] \in Range(a)
      BY <1>4, <1>8, <2>2, <3>1 DEF Range
    <3> QED
      BY <1>6, <3>2
  <2> QED
    BY <2>1, <2>2
<1> QED
  BY <1>3, <1>6, <1>7, <1>9, <1>10, <1>11 DEF p

\* A list of items names and reads what m says of them.
Reads(items, names, m) ==
    /\ Len(names) = Len(items) /\ Len(m) = Len(items)
    /\ \A i \in 1 .. Len(items) :
          /\ items[i].as = names[i] /\ Read(duck, items[i]) # Missing
          /\ m[i] = Column(names[i], Applied(items[i].fn, Read(duck, items[i])))

\* The item written for a column.
Kept(name, names, items) ==
    LET of == {i \in DOMAIN items : names[i] = name}
    IN  IF of = {} THEN Same(name) ELSE items[CHOOSE j \in of : TRUE]

\* The item of a column reads the column and keeps its name.
LEMMA SameIs ==
    ASSUME NEW name \in Name
    PROVE  /\ Same(name) \in Items /\ Same(name).as = name /\ Same(name).fn = "column"
           /\ Read(duck, Same(name)) = Lookup(duck, name)
<1>1. "column" \in Word
  BY DEF Word
<1>2. Same(name) = [fn |-> "column", col |-> name, let |-> FALSE, as |-> name]
  BY DEF Same, Item
<1> HIDE DEF Word
<1> QED
  BY <1>1, <1>2 DEF Items, Read

\* Written out, the columns are items.
LEMMA WrittenItems ==
    ASSUME NEW items \in Seq(Items), NEW names, cols \in Seq(Name)
    PROVE  /\ Written(names, items) \in Seq(Items)
           /\ Follows(Written(names, items), [i \in DOMAIN cols |-> Kept(cols[i], names, items)],
                      Only(items, {t \in Range(items) : t.as \notin Range(cols)}))
<1> DEFINE a == [i \in DOMAIN cols |-> Kept(cols[i], names, items)]
           b == Only(items, {t \in Range(items) : t.as \notin Range(cols)})
           w == Written(names, items)
           N == Len(cols)
<1>1. w = a \o b
  BY DEF Written, Kept
<1>2. N \in Nat /\ DOMAIN cols = 1 .. N /\ \A i \in 1 .. N : cols[i] \in Name
  BY Members
<1>3. ASSUME NEW i \in 1 .. N PROVE Kept(cols[i], names, items) \in Items
  <2> DEFINE of == {j \in DOMAIN items : names[j] = cols[i]}
  <2>1. Kept(cols[i], names, items) = IF of = {} THEN Same(cols[i]) ELSE items[CHOOSE j \in of : TRUE]
    BY DEF Kept
  <2>2. \A j \in of : items[j] \in Items
    BY Members
  <2>3. Same(cols[i]) \in Items
    BY <1>2, SameIs
  <2> HIDE DEF of
  <2> QED
    BY <2>1, <2>2, <2>3
<1>4. a \in Seq(Items)
  <2>1. a = [i \in 1 .. N |-> a[i]] /\ \A i \in 1 .. N : a[i] \in Items
    BY <1>2, <1>3
  <2> HIDE DEF a, N
  <2> QED
    BY <1>2, <2>1, SequenceIs
<1>5. b \in Seq(Items)
  BY OnlyIs
<1> HIDE DEF a, b, w, N
<1>6. w \in Seq(Items) /\ Follows(w, a, b)
  BY <1>1, <1>4, <1>5, ConcatIs
<1> QED
  BY <1>6 DEF w, a, b

\* Written out with the columns known, what stays and what is replaced are
\* where Kusto has them.
LEMMA WrittenIs ==
    ASSUME Here, known, duck = kusto, Told(kusto),
           NEW items \in Seq(Items), NEW names \in Seq(Name), NEW m \in Rel, Reads(items, names, m)
    PROVE  Select(duck, Written(names, items)) = InPlace(kusto, m)
<1> DEFINE w == Written(names, items)
           S == {t \in Range(items) : t.as \notin Range(cols)}
           V == {c \in Range(m) : c.name \notin Range(NamesOf(kusto))}
           a == [i \in DOMAIN cols |-> Kept(cols[i], names, items)]
           b == Only(items, S)
           x == [i \in DOMAIN kusto |-> Placed(kusto[i], m)]
           y == Only(m, V)
           p == InPlace(kusto, m)
           N == Len(kusto)
<1>1. /\ Types /\ kusto \in Rel /\ duck \in Rel /\ cols = NamesOf(kusto) /\ cols \in Seq(Name)
      /\ IsInjective(NamesOf(kusto)) /\ ~HasMissing(kusto)
  BY HereIs
<1>2. /\ N \in Nat /\ DOMAIN kusto = 1 .. N /\ Len(cols) = N /\ DOMAIN cols = 1 .. N
      /\ \A i \in 1 .. N : /\ cols[i] = kusto[i].name /\ cols[i] \in Name /\ cols[i] \in Columns
                           /\ kusto[i] \in ColumnType
  <2>1. Len(cols) = N /\ N \in Nat /\ DOMAIN kusto = 1 .. N /\ DOMAIN cols = 1 .. N
        /\ \A i \in 1 .. N : cols[i] = kusto[i].name /\ cols[i] \in Name
    BY <1>1, NamesOfIs
  <2>2. \A i \in 1 .. N : cols[i] \in Columns
    BY <1>1, <2>1 DEF Columns, Range
  <2>3. \A i \in 1 .. N : kusto[i] \in ColumnType
    BY <1>1, Members DEF Rel, ColumnType
  <2> QED
    BY <2>1, <2>2, <2>3
<1>3. /\ Len(names) = Len(items) /\ Len(m) = Len(items) /\ Len(items) \in Nat
      /\ DOMAIN items = 1 .. Len(items) /\ DOMAIN m = 1 .. Len(items)
      /\ \A i \in 1 .. Len(items) :
          /\ items[i].as = names[i] /\ Read(duck, items[i]) # Missing
          /\ m[i] = Column(names[i], Applied(items[i].fn, Read(duck, items[i])))
          /\ m[i].name = names[i]
          /\ items[i] \in Items /\ m[i] \in Range(m) /\ items[i] \in Range(items)
  <2>1. /\ Len(names) = Len(items) /\ Len(m) = Len(items) /\ Len(items) \in Nat
        /\ \A i \in 1 .. Len(items) :
            /\ items[i].as = names[i] /\ Read(duck, items[i]) # Missing
            /\ m[i] = Column(names[i], Applied(items[i].fn, Read(duck, items[i])))
    BY DEF Reads
  <2>2. DOMAIN items = 1 .. Len(items) /\ DOMAIN m = 1 .. Len(items)
        /\ \A i \in 1 .. Len(items) : items[i] \in Items /\ m[i] \in Range(m)
    BY <2>1, Members, NamesOfIs
  <2>3. \A i \in 1 .. Len(items) : m[i].name = names[i]
    <3>1. \A n, v : Column(n, v).name = n
      BY DEF Column
    <3> QED
      BY <2>1, <3>1
  <2> QED
    BY <2>1, <2>2, <2>3 DEF Range
<1>4. w \in Seq(Items) /\ Follows(w, a, b)
  BY <1>1, WrittenItems
<1>5. p = x \o y /\ p \in Rel
  <2>1. p \in Rel
    BY <1>1, InPlaceIs
  <2> QED
    BY <2>1 DEF InPlace, Without, Placed
<1>6. PICK g : Picks(g, b, items, S, Len(items)) /\ Picks(g, y, m, V, Len(items))
  <2>1. \A i \in 1 .. Len(items) : items[i] \in S <=> m[i] \in V
    BY <1>1, <1>3
  <2>2. m \in Seq(ColumnType)
    BY DEF Rel, ColumnType
  <2> HIDE DEF S, V
  <2> QED
    BY <1>3, <2>1, <2>2, OnlyTogether
<1>7. /\ g \in Seq(1 .. Len(items)) /\ Len(b) = Len(g) /\ Len(y) = Len(g) /\ Len(g) \in Nat
      /\ \A k \in 1 .. Len(g) : g[k] \in 1 .. Len(items) /\ b[k] = items[g[k]] /\ y[k] = m[g[k]]
  <2> HIDE DEF S, V, b, y
  <2>1. /\ g \in Seq(1 .. Len(items)) /\ b = [k \in 1 .. Len(g) |-> items[g[k]]]
        /\ y = [k \in 1 .. Len(g) |-> m[g[k]]]
    BY <1>6 DEF Picks
  <2>2. Len(g) \in Nat /\ \A k \in 1 .. Len(g) : g[k] \in 1 .. Len(items)
    BY <2>1, Members
  <2>3. Len(b) = Len(g) /\ Len(y) = Len(g)
    BY <2>1, <2>2
  <2>4. \A k \in 1 .. Len(g) : b[k] = items[g[k]] /\ y[k] = m[g[k]]
    BY <2>1
  <2> QED
    BY <2>1, <2>2, <2>3, <2>4
<1>8. Follows(p, x, y)
  <2>1. x \in Seq(ColumnType)
    <3>1. x = [i \in 1 .. N |-> x[i]] /\ \A i \in 1 .. N : x[i] \in ColumnType
      BY <1>2, PlacedIs
    <3> HIDE DEF x, N
    <3> QED
      BY <1>2, <3>1, SequenceIs
  <2>2. y \in Seq(ColumnType)
    <3>1. m \in Seq(ColumnType)
      BY DEF Rel, ColumnType
    <3> QED
      BY <3>1, OnlyIs
  <2> HIDE DEF x, y, p
  <2> QED
    BY <1>5, <2>1, <2>2, ConcatIs
<1>9. Len(a) = N /\ Len(x) = N
  BY <1>2
<1>10. ASSUME NEW i \in 1 .. N
       PROVE  /\ Read(duck, a[i]) # Missing
              /\ x[i] = Column(a[i].as, Applied(a[i].fn, Read(duck, a[i])))
  <2> DEFINE of == {j \in 1 .. Len(items) : names[j] = cols[i]}
  <2>1. a[i] = IF of = {} THEN Same(cols[i]) ELSE items[CHOOSE j \in of : TRUE]
    BY <1>2, <1>3 DEF Kept
  <2>2. x[i] = IF of = {} THEN kusto[i] ELSE m[CHOOSE j \in of : TRUE]
    <3>1. {j \in DOMAIN m : m[j].name = kusto[i].name} = of
      BY <1>2, <1>3
    <3>2. x[i] = Placed(kusto[i], m)
      BY <1>2
    <3>3. Placed(kusto[i], m) = IF {j \in DOMAIN m : m[j].name = kusto[i].name} = {} THEN kusto[i]
                               ELSE m[CHOOSE j \in {j \in DOMAIN m : m[j].name = kusto[i].name} : TRUE]
      BY DEF Placed
    <3> HIDE DEF of, x
    <3> QED
      BY <3>1, <3>2, <3>3
  <2>3. CASE of = {}
    <3>1. a[i] = Same(cols[i]) /\ x[i] = kusto[i]
      BY <2>1, <2>2, <2>3
    <3>2. Agreeing
      BY DEF Agreeing
    <3>3. Lookup(duck, cols[i]) = kusto[i].value /\ kusto[i].value # Missing
      BY <1>1, <1>2, <3>2, LookupMeans, MeansIs DEF HasMissing
    <3>4. /\ Same(cols[i]).as = cols[i] /\ Same(cols[i]).fn = "column"
          /\ Read(duck, Same(cols[i])) = kusto[i].value
      BY <1>2, <3>3, SameIs
    <3>5. Applied("column", kusto[i].value) = kusto[i].value
      BY DEF Applied
    <3>6. kusto[i] = Column(cols[i], kusto[i].value)
      BY <1>2 DEF ColumnType, Column
    <3> HIDE DEF a, x, of
    <3> QED
      BY <3>1, <3>3, <3>4, <3>5, <3>6
  <2>4. CASE of # {}
    <3>1. PICK j \in 1 .. Len(items) : a[i] = items[j] /\ x[i] = m[j]
      <4>1. (CHOOSE j \in of : TRUE) \in of
        BY <2>4
      <4> QED
        BY <2>1, <2>2, <2>4, <4>1
    <3> HIDE DEF a, x, of
    <3> QED
      BY <1>3, <3>1
  <2> QED
    BY <2>3, <2>4
<1> HIDE DEF w, S, V, a, b, x, y, p, N
<1>11. Len(w) = N + Len(g) /\ Len(p) = N + Len(g)
  BY <1>4, <1>7, <1>8, <1>9 DEF Follows
<1>12. ASSUME NEW i \in 1 .. Len(w)
       PROVE  Read(duck, w[i]) # Missing /\ p[i] = Column(w[i].as, Applied(w[i].fn, Read(duck, w[i])))
  <2>1. CASE i \in 1 .. N
    <3>1. w[i] = a[i] /\ p[i] = x[i]
      BY <1>4, <1>8, <1>9, <2>1 DEF Follows
    <3> QED
      BY <1>10, <2>1, <3>1
  <2>2. CASE i \notin 1 .. N
    <3>1. PICK k \in 1 .. Len(g) : i = N + k
      <4>1. i - N \in 1 .. Len(g) /\ i = N + (i - N)
        BY <1>2, <1>7, <1>11, <2>2
      <4> QED
        BY <4>1
    <3>2. w[i] = b[k] /\ p[i] = y[k]
      BY <1>4, <1>7, <1>8, <1>9, <3>1 DEF Follows
    <3> QED
      BY <1>3, <1>7, <3>1, <3>2
  <2> QED
    BY <2>1, <2>2
<1>13. Select(duck, w) = p
  BY <1>1, <1>4, <1>5, <1>11, <1>12, SelectAs
<1> QED
  BY <1>13 DEF w, p

\* Columns beside each other.
LEMMA Together ==
    ASSUME NEW r \in Rel, NEW s \in Rel
    PROVE  /\ r \o s \in Rel /\ Follows(r \o s, r, s)
           /\ IsInjective(NamesOf(r)) /\ IsInjective(NamesOf(s))
              /\ (\A c \in Range(r), d \in Range(s) : c.name # d.name) => IsInjective(NamesOf(r \o s))
           /\ HasMissing(r \o s) <=> HasMissing(r) \/ HasMissing(s)
<1> DEFINE p == r \o s
           M == Len(r)
<1>1. p \in Rel /\ Follows(p, r, s)
  <2>1. Rel = Seq(ColumnType)
    BY DEF Rel, ColumnType
  <2> QED
    BY <2>1, ConcatIs
<1>2. /\ M \in Nat /\ Len(s) \in Nat /\ DOMAIN r = 1 .. M /\ DOMAIN s = 1 .. Len(s)
      /\ DOMAIN p = 1 .. Len(p) /\ Len(p) = M + Len(s)
      /\ \A i \in 1 .. M : i \in DOMAIN p /\ p[i] = r[i]
      /\ \A i \in 1 .. Len(s) : M + i \in DOMAIN p /\ p[M + i] = s[i]
      /\ \A i \in DOMAIN p : i \in 1 .. M \/ \E j \in 1 .. Len(s) : i = M + j
  <2> HIDE DEF p
  <2>1. DOMAIN r = 1 .. M /\ DOMAIN s = 1 .. Len(s)
    BY Members DEF Rel
  <2> QED
    BY <1>1, <2>1 DEF Follows
<1> HIDE DEF p
<1>3. ASSUME IsInjective(NamesOf(r)), IsInjective(NamesOf(s)),
             \A c \in Range(r), d \in Range(s) : c.name # d.name
      PROVE  IsInjective(NamesOf(p))
  <2> SUFFICES ASSUME NEW i \in DOMAIN p, NEW j \in DOMAIN p, p[i].name = p[j].name PROVE i = j
    BY DEF NamesOf, IsInjective
  <2>1. \A k, l \in DOMAIN r : r[k].name = r[l].name => k = l
    BY <1>3 DEF NamesOf, IsInjective
  <2>2. \A k, l \in DOMAIN s : s[k].name = s[l].name => k = l
    BY <1>3 DEF NamesOf, IsInjective
  <2>3. \A k \in DOMAIN r, l \in DOMAIN s : r[k].name # s[l].name
    BY <1>3 DEF Range
  <2> HIDE DEF M
  <2>4. CASE i \in 1 .. M /\ j \in 1 .. M
    BY <1>2, <2>1, <2>4
  <2>5. CASE i \in 1 .. M /\ \E l \in 1 .. Len(s) : j = M + l
    BY <1>2, <2>3, <2>5
  <2>6. CASE j \in 1 .. M /\ \E l \in 1 .. Len(s) : i = M + l
    BY <1>2, <2>3, <2>6
  <2>7. CASE (\E l \in 1 .. Len(s) : i = M + l) /\ \E l \in 1 .. Len(s) : j = M + l
    <3>1. PICK k \in 1 .. Len(s) : i = M + k
      BY <2>7
    <3>2. PICK l \in 1 .. Len(s) : j = M + l
      BY <2>7
    <3> QED
      BY <1>2, <2>2, <3>1, <3>2
  <2> QED
    BY <1>2, <2>4, <2>5, <2>6, <2>7
<1>4. HasMissing(p) => HasMissing(r) \/ HasMissing(s)
  <2> HAVE HasMissing(p)
  <2>1. PICK i \in DOMAIN p : p[i].value = Missing
    BY DEF HasMissing
  <2>2. CASE i \in 1 .. M
    BY <1>2, <2>1, <2>2 DEF HasMissing
  <2>3. CASE \E j \in 1 .. Len(s) : i = M + j
    BY <1>2, <2>1, <2>3 DEF HasMissing
  <2> QED
    BY <1>2, <2>2, <2>3
<1>5. HasMissing(r) \/ HasMissing(s) => HasMissing(p)
  <2>1. HasMissing(r) => HasMissing(p)
    BY <1>2 DEF HasMissing
  <2>2. HasMissing(s) => HasMissing(p)
    <3> HAVE HasMissing(s)
    <3>1. PICK i \in DOMAIN s : s[i].value = Missing
      BY DEF HasMissing
    <3>2. M + i \in DOMAIN p /\ p[M + i].value = Missing
      BY <1>2, <3>1
    <3> QED
      BY <3>2 DEF HasMissing
  <2> QED
    BY <2>1, <2>2
<1> QED
  BY <1>1, <1>3, <1>4, <1>5 DEF p

\* extend and parse: new columns in the place of those they replace, or after
\* those they leave.
LEMMA ExtendedSound ==
    ASSUME Here, NEW items \in Seq(Items), NEW mine \in Seq(Name), NEW theirs \in Seq(Name), NEW m \in Rel,
           NamesOf(m) = theirs, Len(mine) = Len(items), \A i \in 1 .. Len(items) : items[i].as = mine[i],
           NEW guarded \in BOOLEAN, NEW refusal \in BOOLEAN, ~refusal => IsInjective(mine),
           known => mine = theirs,
           Agreeing /\ mine = theirs /\ ~refusal /\ (~known => ~guarded /\ ~HasMissing(m)) =>
               ~guarded /\ Reads(items, mine, m)
    PROVE  Sound(Numbering(mine, theirs), Unless(~IsInjective(theirs), InPlace(kusto, m)), refusal,
                 Unless(guarded, Extended(mine, items)), Replacing(cols, mine))
<1> DEFINE p == InPlace(kusto, m)
           twice == ~IsInjective(theirs)
           K == {c \in Range(duck) : c.name \notin Range(mine)}
           kept == Only(duck, K)
           e == Extended(mine, items)
           s == Select(duck, items)
           w == Select(duck, Written(mine, items))
           predicted == Replacing(cols, mine)
           kind == Numbering(mine, theirs)
<1>1. /\ Types /\ kusto \in Rel /\ duck \in Rel /\ cols \in Distinct /\ cols \in Seq(Name)
      /\ ~HasMissing(kusto) /\ ~HasMissing(duck) /\ IsInjective(NamesOf(kusto)) /\ known \in BOOLEAN
      /\ (known => cols = NamesOf(kusto))
  BY HereIs
<1>2. e = IF known THEN w ELSE Unless(kept = <<>>, kept \o s)
  BY DEF Extended, Without
<1>3. kind \in {"own", "numbered"} /\ (kind # "numbered" => mine = theirs) /\ (known => kind = "own")
  BY DEF Numbering
<1>4. /\ p \in Rel /\ NamesOf(p) = Replacing(NamesOf(kusto), theirs)
      /\ ~HasMissing(m) => ~HasMissing(p)
      /\ ~twice => /\ Range(p) \cup Range(m) = {c \in Range(kusto) : c.name \notin Range(theirs)} \cup Range(m)
                   /\ Range(m) \subseteq Range(p)
  <2>1. /\ p \in Rel
        /\ NamesOf(p) = Replacing(NamesOf(kusto), NamesOf(m))
        /\ ~HasMissing(kusto) /\ ~HasMissing(m) => ~HasMissing(p)
        /\ IsInjective(NamesOf(m)) =>
              Range(p) \cup Range(m) = {c \in Range(kusto) : c.name \notin Range(NamesOf(m))} \cup Range(m)
        /\ IsInjective(NamesOf(m)) => Range(m) \subseteq Range(p)
    BY <1>1, InPlaceIs
  <2>2. NamesOf(m) = theirs
    OBVIOUS
  <2> HIDE DEF p
  <2> QED
    BY <1>1, <2>1, <2>2
<1>5. ~twice => IsInjective(NamesOf(p))
  <2> HAVE ~twice
  <2>1. NamesOf(kusto) \in Distinct /\ theirs \in Distinct
    BY <1>1, NamesOfIs DEF Distinct
  <2>2. Replacing(NamesOf(kusto), theirs) \in Distinct
    BY <2>1, ReplacingIs DEF Distinct
  <2> QED
    BY <1>4, <2>2 DEF Distinct
<1>6. ~twice /\ ~HasMissing(p) => ~HasMissing(m)
  <2> HAVE ~twice /\ ~HasMissing(p)
  <2>1. Range(m) \subseteq Range(p)
    BY <1>4
  <2> HIDE DEF p
  <2>2. \A i \in DOMAIN m : m[i] \in Range(p)
    BY <2>1 DEF Range
  <2> QED
    BY <2>2 DEF HasMissing, Range
<1>7. predicted \in Seq(Name) /\ (~refusal => predicted \in Distinct) /\ (known => predicted = NamesOf(p))
  <2>1. predicted \in Seq(Name) /\ (IsInjective(mine) => predicted \in Distinct)
    BY <1>1, ReplacingIs DEF Distinct
  <2>2. known => predicted = NamesOf(p)
    BY <1>1, <1>4
  <2> QED
    BY <2>1, <2>2
<1>8. s \in Rel /\ w \in Rel
  BY <1>1, SelectIs, WrittenItems
<1>9. /\ kept \in Rel /\ Range(kept) = Range(duck) \cap K /\ ~HasMissing(kept)
      /\ IsInjective(NamesOf(duck)) => IsInjective(NamesOf(kept))
  <2>1. \A c \in Range(duck) : c \in K <=> c.name \notin Range(mine)
    OBVIOUS
  <2>2. \A c \in Range(duck) : c \in K <=> c.name \in Name \ Range(mine)
    <3>1. \A c \in Range(duck) : c.name \in Name
      BY <1>1, NamesOfIs DEF Range
    <3> QED
      BY <3>1
  <2> HIDE DEF K
  <2> QED
    BY <1>1, <2>2, OnlyColumns
<1>10. Reads(items, mine, m) => s = m /\ ~HasMissing(m)
  <2> HAVE Reads(items, mine, m)
  <2>1. s = m
    <3> HIDE DEF s
    <3>1. Select(duck, items) = m
      BY <1>1, SelectAs DEF Reads
    <3> QED
      BY <3>1 DEF s
  <2>2. ASSUME NEW i \in DOMAIN m PROVE m[i].value # Missing
    <3>1. i \in 1 .. Len(items) /\ items[i] \in Items
      BY Members, NamesOfIs DEF Reads
    <3>2. m[i].value = Applied(items[i].fn, Read(duck, items[i])) /\ Read(duck, items[i]) # Missing
      <4>1. \A n, v : Column(n, v).value = v
        BY DEF Column
      <4> QED
        BY <3>1, <4>1 DEF Reads
    <3>3. items[i].fn \in Word /\ Read(duck, items[i]) \in Values
      BY <1>1, <3>1, LookupIs, Marks DEF Items, Read
    <3> QED
      BY <3>2, <3>3, AppliedIs
  <2> QED
    BY <2>1, <2>2 DEF HasMissing
<1>11. known /\ duck = kusto /\ Told(kusto) /\ Reads(items, mine, m) => w = p
  BY WrittenIs
<1>12. Range(duck) = Range(kusto) /\ Told(kusto) => Agreeing
  BY DEF Agreeing
<1>13. Told(duck) => IsInjective(NamesOf(duck))
  BY <1>1, ToldIs
<1>14. twice \in BOOLEAN /\ (~refusal /\ mine = theirs => ~twice) /\ (known /\ ~refusal => ~twice)
  OBVIOUS
<1>15. /\ kept \o s \in Rel /\ Range(kept \o s) = Range(kept) \cup Range(s)
       /\ IsInjective(NamesOf(kept)) /\ IsInjective(NamesOf(s))
          /\ (\A c \in Range(kept), d \in Range(s) : c.name # d.name) => IsInjective(NamesOf(kept \o s))
  <2> HIDE DEF kept, s
  <2> QED
    BY <1>8, <1>9, Together DEF Follows
<1>16. Range(duck) = Range(kusto) /\ mine = theirs =>
          /\ Range(kept) = {c \in Range(kusto) : c.name \notin Range(theirs)}
          /\ \A c \in Range(kept), d \in Range(m) : c.name # d.name
  <2> HAVE Range(duck) = Range(kusto) /\ mine = theirs
  <2>1. Range(kept) = {c \in Range(kusto) : c.name \notin Range(theirs)}
    <3> HIDE DEF kept
    <3> QED
      BY <1>9
  <2>2. \A d \in Range(m) : d.name \in Range(theirs)
    BY NamesOfIs
  <2> HIDE DEF kept
  <2> QED
    BY <2>1, <2>2
<1>17. (kept = <<>>) \in BOOLEAN
  OBVIOUS
<1>18. /\ HasMissing(Unless(kept = <<>>, kept \o s)) <=> kept = <<>> \/ HasMissing(kept \o s)
       /\ kept # <<>> => Unless(kept = <<>>, kept \o s) = kept \o s
  BY <1>17, UnlessIs
<1> HIDE DEF p, twice, kept, e, s, w, predicted, kind
<1>19. /\ HasMissing(Unless(twice, p)) <=> twice \/ HasMissing(p)
       /\ ~twice => Unless(twice, p) = p
       /\ HasMissing(Unless(guarded, e)) <=> guarded \/ HasMissing(e)
       /\ ~guarded => Unless(guarded, e) = e
  BY <1>14, UnlessIs
<1>20. Sound(kind, Unless(twice, p), refusal, Unless(guarded, e), predicted)
  <2>1. kind \in {"own", "joined", "numbered"}
    BY <1>3
  <2>2. ~HasMissing(Unless(twice, p)) => Unless(twice, p) \in Rel /\ IsInjective(NamesOf(Unless(twice, p)))
    BY <1>4, <1>5, <1>19
  <2>3. ~HasMissing(Unless(guarded, e)) => Unless(guarded, e) \in Rel
    BY <1>1, <1>2, <1>8, <1>15, <1>18, <1>19
  <2>4. known /\ ~refusal =>
          /\ kind # "numbered" /\ predicted \in Distinct
          /\ ~HasMissing(Unless(twice, p)) => predicted = NamesOf(Unless(twice, p))
          /\ kind = "joined" => ~HasMissing(Unless(twice, p))
    BY <1>3, <1>7, <1>19
  <2>5. known /\ ~refusal /\ duck = kusto /\ Told(kusto) =>
          /\ HasMissing(Unless(guarded, e)) <=> HasMissing(Unless(twice, p))
          /\ ~HasMissing(Unless(twice, p)) => Unless(guarded, e) = Unless(twice, p)
    <3> HAVE known /\ ~refusal /\ duck = kusto /\ Told(kusto)
    <3>1. ~guarded /\ Reads(items, mine, m) /\ mine = theirs
      BY <1>12
    <3>2. e = p /\ ~HasMissing(m)
      BY <1>2, <1>10, <1>11, <3>1
    <3> QED
      BY <1>4, <1>14, <1>19, <3>1, <3>2
  <2>6. ~known /\ ~refusal /\ Range(duck) = Range(kusto) /\ Told(kusto) /\ Told(duck)
        /\ ~HasMissing(Unless(guarded, e)) /\ ~HasMissing(Unless(twice, p)) /\ kind # "numbered" =>
          Range(Unless(guarded, e)) = Range(Unless(twice, p)) /\ IsInjective(NamesOf(Unless(guarded, e)))
    <3> HAVE ~known /\ ~refusal /\ Range(duck) = Range(kusto) /\ Told(kusto) /\ Told(duck)
        /\ ~HasMissing(Unless(guarded, e)) /\ ~HasMissing(Unless(twice, p)) /\ kind # "numbered"
    <3>1. ~twice /\ ~guarded /\ ~HasMissing(p) /\ ~HasMissing(m) /\ mine = theirs
      BY <1>3, <1>6, <1>19
    <3>2. s = m
      BY <1>10, <1>12, <3>1
    <3>3. e = kept \o s
      BY <1>2, <1>18, <1>19
    <3>4. Range(kept \o s) = Range(p)
      BY <1>4, <1>15, <1>16, <3>1, <3>2
    <3>5. IsInjective(NamesOf(kept \o s))
      <4>1. IsInjective(NamesOf(s))
        BY <3>1, <3>2 DEF twice
      <4> QED
        BY <1>9, <1>13, <1>15, <1>16, <3>1, <3>2, <4>1
    <3> QED
      BY <1>19, <3>1, <3>3, <3>4, <3>5
  <2> QED
    BY <2>1, <2>2, <2>3, <2>4, <2>5, <2>6 DEF Sound
<1> QED
  BY <1>20 DEF p, twice, e, predicted, kind

\* A clause whose columns all mean something reads what there is.
LEMMA MeaningReadable ==
    ASSUME Types, NEW targets \in Seq(Target), NEW names \in Seq(Name), Len(names) = Len(targets),
           ~HasMissing(Meaning(targets, names))
    PROVE  Readable(targets)
<1> SUFFICES ASSUME NEW t \in Range(targets) PROVE t.col \in Columns \cup {LetName}
  BY DEF Readable
<1>1. PICK i \in 1 .. Len(targets) : t = targets[i]
  BY DEF Range
<1>2. Means(targets[i].col) # Missing
  BY MeaningIs
<1> QED
  BY <1>1, <1>2, MeansIs

\* The items of a clause read what it means.
LEMMA RenderedReads ==
    ASSUME Here, Agreeing, NEW targets \in Seq(Target), NEW names \in Seq(Name), Len(names) = Len(targets),
           Readable(targets), ~ShadowGuard(targets)
    PROVE  Reads(RenderAs(targets, names), names, Meaning(targets, names))
<1> DEFINE items == RenderAs(targets, names)
           m == Meaning(targets, names)
<1>1. Types /\ (known => cols = NamesOf(kusto))
  BY HereIs
<1>2. \A i \in 1 .. Len(targets) : targets[i] \in Range(targets)
  BY DEF Range
<1>3. ASSUME NEW i \in 1 .. Len(targets)
      PROVE  /\ (IF IsValue(targets[i].col) THEN LetValue ELSE Lookup(duck, targets[i].col)) = Means(targets[i].col)
             /\ Means(targets[i].col) # Missing
  <2>1. targets[i].col \in Columns \cup {LetName}
    BY <1>2 DEF Readable
  <2>2. ~known /\ targets[i].col = LetName => ~Contains(NamesOf(duck), LetName)
    BY <1>2 DEF ShadowGuard, ReadsLet
  <2> QED
    BY <1>1, <2>1, <2>2, ReadIs
<1>4. Len(items) = Len(targets)
      /\ \A i \in 1 .. Len(targets) :
            /\ items[i].fn = targets[i].fn
            /\ items[i].as = names[i]
            /\ Read(duck, items[i]) = IF IsValue(targets[i].col) THEN LetValue ELSE Lookup(duck, targets[i].col)
  BY RenderIs
<1>5. Len(m) = Len(targets)
      /\ \A i \in 1 .. Len(targets) : m[i] = Column(names[i], Applied(targets[i].fn, Means(targets[i].col)))
  BY <1>1, MeaningIs
<1> HIDE DEF items, m
<1>6. Reads(items, names, m)
  BY <1>3, <1>4, <1>5 DEF Reads
<1> QED
  BY <1>6 DEF items, m

\* extend keeps the invariant: written out where the columns are known, and by
\* what stays where they are not.
LEMMA ExtendKeeps ==
    ASSUME IInv, NEW c \in Clause, InScope(c), Extend(c)
    PROVE  IInv'
<1> DEFINE mine == ExtendNames(c, Range(cols))
           theirs == ExtendNames(c, Range(NamesOf(kusto)))
           m == Meaning(c, theirs)
           items == RenderAs(c, mine)
           guarded == ShadowGuard(c)
           forward == ForwardReference(c)
           refusal == ~IsInjective(mine) \/ forward
           predicted == Replacing(cols, mine)
<1>1. Here
  BY DEF Here, Extend, Operator
<1>2. /\ Types /\ kusto \in Rel /\ cols \in Seq(Name) /\ NamesOf(kusto) \in Seq(Name)
      /\ c \in Seq(Target) /\ Len(c) \in Nat /\ (known => cols = NamesOf(kusto))
  BY <1>1, HereIs, NamesOfIs, ClauseIs
<1>3. mine \in Seq(Name) /\ Len(mine) = Len(c) /\ theirs \in Seq(Name) /\ Len(theirs) = Len(c)
  <2>1. IsFiniteSet(Range(cols)) /\ IsFiniteSet(Range(NamesOf(kusto)))
    BY <1>2, RangeFinite
  <2> QED
    BY <1>2, <2>1, ExtendNamesAre
<1>4. known => mine = theirs
  BY <1>2
<1>5. mine = theirs => m = Meaning(c, mine)
  OBVIOUS
<1>6. Operator(Len(c), Numbering(mine, theirs), Unless(~IsInjective(theirs), InPlace(kusto, m)), refusal,
               Unless(guarded, Extended(mine, items)), predicted)
  BY DEF Extend
<1>7. guarded \in BOOLEAN /\ forward \in BOOLEAN /\ (known => ~guarded)
  BY DEF ShadowGuard, ForwardReference
<1> HIDE DEF mine, theirs
<1>8. m \in Rel /\ NamesOf(m) = theirs /\ (~HasMissing(m) => Readable(c))
  BY <1>2, <1>3, MeaningIs, MeaningReadable
<1>9. items \in Seq(Items) /\ Len(items) = Len(c) /\ \A i \in 1 .. Len(c) : items[i].as = mine[i]
  BY <1>2, <1>3, RenderIs
<1>10. known /\ ~forward => Readable(c)
  BY <1>1, ScopeIs
<1>11. Agreeing /\ mine = theirs /\ Readable(c) /\ ~guarded => Reads(items, mine, m)
  BY <1>1, <1>2, <1>3, RenderedReads
<1> HIDE DEF m, items, guarded, forward, predicted
<1>12. refusal \in BOOLEAN /\ (~refusal => IsInjective(mine) /\ ~forward)
  BY <1>7
<1> HIDE DEF refusal
<1>13. Agreeing /\ mine = theirs /\ ~refusal /\ (~known => ~guarded /\ ~HasMissing(m)) =>
          ~guarded /\ Reads(items, mine, m)
  BY <1>7, <1>8, <1>10, <1>11, <1>12
<1>14. Sound(Numbering(mine, theirs), Unless(~IsInjective(theirs), InPlace(kusto, m)), refusal,
             Unless(guarded, Extended(mine, items)), predicted)
  <2>1. guarded \in BOOLEAN /\ Len(mine) = Len(items) /\ \A i \in 1 .. Len(items) : items[i].as = mine[i]
    BY <1>3, <1>7, <1>9
  <2> QED
    BY <1>1, <1>3, <1>4, <1>8, <1>9, <1>12, <1>13, <2>1, ExtendedSound DEF predicted
<1> QED
  BY <1>2, <1>6, <1>14, OperatorKeeps

\* parse keeps the invariant: a capture that has the name of the source is not
\* what the source reads.
LEMMA ParseKeeps ==
    ASSUME IInv, NEW source \in Columns \cup {LetName}, NEW names \in Seq(Names), Parse(source, names)
    PROVE  IInv'
<1> DEFINE targets == [i \in DOMAIN names |-> [name |-> names[i], fn |-> "parse", col |-> source]]
           unread == ~IsValue(source) /\ Lookup(duck, source) = Missing
           m == Meaning(targets, names)
           items == RenderAs(targets, names)
           shadowed == ShadowGuard(targets)
           guarded == unread \/ shadowed
           refusal == ~IsInjective(names)
           N == Len(names)
<1>1. Here
  BY DEF Here, Parse, Operator
<1>2. Types /\ kusto \in Rel /\ (known => cols = NamesOf(kusto))
  BY <1>1, HereIs
<1>3. N \in Nat /\ names \in Seq(Name) /\ DOMAIN names = 1 .. N /\ \A i \in 1 .. N : names[i] \in Name
  <2>1. N \in Nat /\ DOMAIN names = 1 .. N /\ \A i \in 1 .. N : names[i] \in Name
    BY NamesAssumption
  <2>2. names = [i \in 1 .. N |-> names[i]]
    OBVIOUS
  <2> HIDE DEF N
  <2>3. names \in Seq(Name)
    BY <2>1, <2>2, SequenceIs
  <2> QED
    BY <2>1, <2>3
<1>4. source \in Name
  <2>1. Columns \subseteq Name
    BY <1>2, NamesOfIs DEF Columns, Range
  <2> QED
    BY <2>1, NamesAssumption
<1>5. targets \in Seq(Target) /\ Len(targets) = N
  <2>1. targets = [i \in 1 .. N |-> targets[i]]
    BY <1>3
  <2>2. ASSUME NEW i \in 1 .. N PROVE targets[i] \in Target
    <3>1. "parse" \in Word
      BY DEF Word
    <3> HIDE DEF Word
    <3> QED
      BY <1>3, <1>4, <3>1 DEF Target
  <2> HIDE DEF targets, N
  <2> QED
    BY <1>3, <2>1, <2>2, SequenceIs
<1>6. Readable(targets)
  BY DEF Readable, Range
<1>7. Operator(N, "own", Unless(~IsInjective(names), InPlace(kusto, m)), refusal,
               Unless(guarded, Extended(names, items)), Replacing(cols, names))
  BY DEF Parse
<1>8. Numbering(names, names) = "own"
  BY DEF Numbering
<1>9. shadowed \in BOOLEAN /\ unread \in BOOLEAN /\ (known => ~shadowed)
  BY DEF ShadowGuard
<1>10. Agreeing /\ known => ~unread
  <2> HAVE Agreeing /\ known
  <2>1. (IF IsValue(source) THEN LetValue ELSE Lookup(duck, source)) = Means(source) /\ Means(source) # Missing
    BY <1>2, ReadIs
  <2> QED
    BY <2>1
<1> HIDE DEF targets
<1>11. m \in Rel /\ NamesOf(m) = names
  BY <1>2, <1>3, <1>5, MeaningIs
<1>12. items \in Seq(Items) /\ Len(items) = N /\ \A i \in 1 .. N : items[i].as = names[i]
  BY <1>3, <1>5, RenderIs
<1>13. Agreeing /\ ~shadowed => Reads(items, names, m)
  BY <1>1, <1>3, <1>5, <1>6, RenderedReads
<1>14. guarded \in BOOLEAN /\ (~guarded => ~shadowed) /\ (~unread /\ ~shadowed => ~guarded)
  BY <1>9
<1>15. refusal \in BOOLEAN /\ (~refusal => IsInjective(names))
  OBVIOUS
<1> HIDE DEF m, items, shadowed, unread, guarded, refusal
<1>16. Agreeing /\ names = names /\ ~refusal /\ (~known => ~guarded /\ ~HasMissing(m)) =>
          ~guarded /\ Reads(items, names, m)
  BY <1>9, <1>10, <1>13, <1>14
<1>17. Sound(Numbering(names, names), Unless(~IsInjective(names), InPlace(kusto, m)), refusal,
             Unless(guarded, Extended(names, items)), Replacing(cols, names))
  <2>1. Len(names) = Len(items) /\ \A i \in 1 .. Len(items) : items[i].as = names[i]
    BY <1>12
  <2> QED
    BY <1>1, <1>3, <1>11, <1>12, <1>14, <1>15, <1>16, <2>1, ExtendedSound
<1> QED
  BY <1>3, <1>7, <1>8, <1>17, OperatorKeeps

-----------------------------------------------------------------------------
\* mv-expand.

\* One more column.
LEMMA OneMore ==
    ASSUME NEW r \in Rel, NEW n \in Name, NEW v \in Values \ {Missing}
    PROVE  /\ Append(r, Column(n, v)) \in Rel
           /\ NamesOf(Append(r, Column(n, v))) = Append(NamesOf(r), n)
           /\ HasMissing(Append(r, Column(n, v))) <=> HasMissing(r)
<1> DEFINE c == Column(n, v)
           a == Append(r, c)
           N == Len(r)
<1>1. c \in ColumnType /\ c.name = n /\ c.value = v
  BY DEF Column, ColumnType
<1>2. r \in Seq(ColumnType) /\ Rel = Seq(ColumnType)
  BY DEF Rel, ColumnType
<1>3. N \in Nat /\ DOMAIN r = 1 .. N /\ Len(NamesOf(r)) = N /\ NamesOf(r) \in Seq(Name)
      /\ \A i \in 1 .. N : NamesOf(r)[i] = r[i].name
  BY NamesOfIs
<1> HIDE DEF c
<1>4. /\ a \in Seq(ColumnType) /\ Len(a) = N + 1 /\ DOMAIN a = 1 .. N + 1
      /\ a[N + 1] = c /\ \A i \in 1 .. N : a[i] = r[i]
  BY <1>1, <1>2
<1> DEFINE b == Append(NamesOf(r), n)
<1>5. /\ Len(b) = N + 1 /\ b = [i \in 1 .. N + 1 |-> b[i]]
      /\ b[N + 1] = n /\ \A i \in 1 .. N : b[i] = r[i].name
  <2> DEFINE k == NamesOf(r)
  <2>1. k \in Seq(Name) /\ Len(k) = N /\ \A i \in 1 .. N : k[i] = r[i].name
    BY <1>3
  <2> HIDE DEF k, N
  <2>2. b \in Seq(Name) /\ Len(b) = N + 1 /\ b[N + 1] = n /\ \A i \in 1 .. N : b[i] = k[i]
    BY <1>3, <2>1
  <2>3. b = [i \in 1 .. N + 1 |-> b[i]]
    <3> HIDE DEF b
    <3>1. b = [i \in 1 .. Len(b) |-> b[i]]
      BY <2>2
    <3> QED
      BY <2>2, <3>1
  <2> QED
    BY <2>1, <2>2, <2>3
<1> HIDE DEF a, b, N
<1>6. NamesOf(a) = b
  <2>1. NamesOf(a) = [i \in 1 .. N + 1 |-> a[i].name]
    BY <1>4 DEF NamesOf
  <2>2. \A i \in 1 .. N + 1 : a[i].name = b[i]
    <3> TAKE i \in 1 .. N + 1
    <3>1. CASE i = N + 1
      BY <1>1, <1>4, <1>5, <3>1
    <3>2. CASE i # N + 1
      <4>1. i \in 1 .. N
        BY <1>3, <3>2
      <4> QED
        BY <1>4, <1>5, <4>1
    <3> QED
      BY <3>1, <3>2
  <2> QED
    BY <1>5, <2>1, <2>2
<1>7. HasMissing(a) => HasMissing(r)
  <2> SUFFICES ASSUME NEW i \in DOMAIN a, a[i].value = Missing PROVE HasMissing(r)
    BY DEF HasMissing
  <2>1. i # N + 1
    BY <1>1, <1>4
  <2>2. i \in 1 .. N
    BY <1>3, <1>4, <2>1
  <2> QED
    BY <1>3, <1>4, <2>2 DEF HasMissing
<1>8. HasMissing(r) => HasMissing(a)
  <2>1. \A i \in 1 .. N : i \in 1 .. N + 1
    BY <1>3
  <2> QED
    BY <1>3, <1>4, <2>1 DEF HasMissing
<1> QED
  BY <1>2, <1>4, <1>6, <1>7, <1>8 DEF a, b, c

\* What is beside an error is one.
LEMMA BesideMissing ==
    ASSUME NEW d \in Rel, NEW s \in Rel, NEW bad \in BOOLEAN
    PROVE  /\ bad => HasMissing(Unless(bad, d) \o s)
           /\ ~HasMissing(Unless(bad, d) \o s) => Unless(bad, d) \o s \in Rel
<1>1. ASSUME bad PROVE HasMissing(Unless(bad, d) \o s)
  <2> DEFINE T == ColumnType \cup {Column(NoName, Missing)}
             r == <<Column(NoName, Missing)>>
  <2>1. Unless(bad, d) = r
    BY <1>1 DEF Unless
  <2>2. r \in Seq(T) /\ Len(r) = 1 /\ r[1].value = Missing
    BY DEF Column
  <2>3. s \in Seq(T)
    <3>1. s = [i \in 1 .. Len(s) |-> s[i]] /\ Len(s) \in Nat /\ \A i \in 1 .. Len(s) : s[i] \in ColumnType
      <4>1. s \in Seq(ColumnType)
        BY DEF Rel, ColumnType
      <4> QED
        BY <4>1, Members
    <3>2. \A i \in 1 .. Len(s) : s[i] \in T
      BY <3>1
    <3> HIDE DEF T
    <3> QED
      BY <3>1, <3>2, SequenceIs
  <2> HIDE DEF T, r
  <2>4. Follows(r \o s, r, s)
    BY <2>2, <2>3, ConcatIs
  <2>5. 1 \in 1 .. Len(r \o s) /\ (r \o s)[1] = r[1]
    BY <2>2, <2>4 DEF Follows
  <2>6. DOMAIN (r \o s) = 1 .. Len(r \o s)
    BY <2>4 DEF Follows
  <2>7. HasMissing(r \o s)
    BY <2>2, <2>5, <2>6 DEF HasMissing
  <2> QED
    BY <2>1, <2>7
<1>2. ASSUME ~bad PROVE Unless(bad, d) \o s \in Rel
  <2>1. Unless(bad, d) = d
    BY <1>2 DEF Unless
  <2> QED
    BY <2>1, Together
<1> QED
  BY <1>1, <1>2

\* mv-expand keeps the invariant, its index column included.
LEMMA MvExpandKeeps ==
    ASSUME IInv, NEW c \in Clause, NEW index \in Spellings,
           \A t \in Range(c) : t.fn = "column" /\ t.col \in Columns,
           IsInjective([i \in DOMAIN c |-> Base(c[i])]), MvExpand(c, index)
    PROVE  IInv'
<1> DEFINE N == Len(c)
           names == [i \in DOMAIN c |-> Base(c[i])]
           items == [i \in DOMAIN c |-> Item("item", c[i].col, names[i])]
           m == [i \in DOMAIN items |-> Column(names[i], Applied("item", Means(items[i].col)))]
           Index(before) == Column(Disambiguate(index, Range(Replacing(before, names))), <<"index">>)
           Indexed(rel, before) == IF index = NoName THEN rel ELSE Append(rel, Index(before))
           aliased == index # NoName \/ \E t \in Range(c) : t.name # NoName
           refusal == ~known /\ aliased
           p == InPlace(kusto, m)
           meaning == Indexed(p, NamesOf(kusto))
           w == Select(duck, Written(names, items))
           s == Select(duck, items)
           e == Excluding(duck, Range(names)) \o s
           sql == IF known THEN Indexed(w, cols) ELSE e
           predicted == MvExpandColumns(cols, names, index)
<1>1. Here
  BY DEF Here, MvExpand, Operator
<1>2. /\ Types /\ kusto \in Rel /\ duck \in Rel /\ cols \in Distinct /\ cols \in Seq(Name)
      /\ ~HasMissing(kusto) /\ IsInjective(NamesOf(kusto)) /\ known \in BOOLEAN
      /\ (known => cols = NamesOf(kusto)) /\ NamesOf(kusto) \in Distinct
  BY <1>1, HereIs, NamesOfIs DEF Distinct
<1>3. Operator(N, "own", meaning, refusal, sql, predicted)
  BY DEF MvExpand
<1>4. N \in Nat /\ DOMAIN c = 1 .. N
      /\ \A i \in 1 .. N : c[i] \in Range(c) /\ c[i].fn = "column" /\ c[i].col \in Columns /\ c[i].name \in Spellings
  BY ClauseIs
<1>5. ASSUME NEW i \in 1 .. N
      PROVE  /\ names[i] \in Name /\ c[i].col \in Name /\ (c[i].name = NoName => names[i] = c[i].col)
  <2>1. Columns \subseteq Name
    BY <1>2, NamesOfIs DEF Columns, Range
  <2>2. names[i] = IF c[i].name # NoName THEN c[i].name ELSE c[i].col
    BY <1>4 DEF Base, ExpressionName
  <2>3. c[i].name # NoName => c[i].name \in Name
    BY <1>4, NamesAssumption DEF Spellings
  <2> HIDE DEF names
  <2> QED
    BY <1>4, <2>1, <2>2, <2>3
<1>6. names \in Seq(Name) /\ Len(names) = N /\ IsInjective(names) /\ names \in Distinct
  <2>1. names = [i \in 1 .. N |-> names[i]] /\ IsInjective(names)
    BY <1>4
  <2> HIDE DEF names, N
  <2> QED
    BY <1>4, <1>5, <2>1, SequenceIs DEF Distinct
<1>7. ASSUME NEW i \in 1 .. N
      PROVE  /\ items[i] \in Items /\ items[i].as = names[i] /\ items[i].fn = "item" /\ items[i].col = c[i].col
             /\ Read(duck, items[i]) = Lookup(duck, c[i].col)
  <2>1. "item" \in Word
    BY DEF Word
  <2>2. items[i] = [fn |-> "item", col |-> c[i].col, let |-> FALSE, as |-> names[i]]
    BY <1>4 DEF Item
  <2> HIDE DEF items, Word, names
  <2> QED
    BY <1>5, <2>1, <2>2 DEF Items, Read
<1>8. items \in Seq(Items) /\ Len(items) = N /\ DOMAIN items = 1 .. N
  <2>1. items = [i \in 1 .. N |-> items[i]]
    BY <1>4
  <2> HIDE DEF items, N, names
  <2> QED
    BY <1>4, <1>7, <2>1, SequenceIs
<1>9. ASSUME NEW i \in 1 .. N
      PROVE  /\ m[i] = Column(names[i], Applied("item", Means(c[i].col))) /\ m[i] \in ColumnType
             /\ m[i].name = names[i] /\ m[i].value # Missing
  <2> HIDE DEF items, names, N
  <2>1. m[i] = Column(names[i], Applied("item", Means(c[i].col)))
    BY <1>7, <1>8
  <2>2. Means(c[i].col) \in Values \ {Missing}
    BY <1>2, <1>4, MeansIs
  <2>3. "item" \in Word
    BY DEF Word
  <2>4. Applied("item", Means(c[i].col)) \in Values \ {Missing}
    BY <2>2, <2>3, AppliedIs
  <2> HIDE DEF m
  <2> QED
    BY <1>5, <2>1, <2>4 DEF Column, ColumnType
<1>10. m \in Rel /\ Len(m) = N /\ NamesOf(m) = names /\ ~HasMissing(m)
  <2>1. m = [i \in 1 .. N |-> m[i]] /\ names = [i \in 1 .. N |-> names[i]]
    BY <1>4, <1>8
  <2> HIDE DEF m, N, names, items
  <2>2. m \in Seq(ColumnType) /\ Len(m) = N /\ DOMAIN m = 1 .. N
    BY <1>4, <1>9, <2>1, SequenceIs
  <2>3. NamesOf(m) = names
    BY <1>9, <2>1, <2>2 DEF NamesOf
  <2>4. ~HasMissing(m)
    BY <1>9, <2>2 DEF HasMissing
  <2> QED
    BY <2>2, <2>3, <2>4 DEF Rel, ColumnType
<1>11. Agreeing => Reads(items, names, m)
  <2> HAVE Agreeing
  <2> HIDE DEF items, names, m
  <2>1. ASSUME NEW i \in 1 .. N PROVE Read(duck, items[i]) = Means(c[i].col) /\ Read(duck, items[i]) # Missing
    BY <1>2, <1>4, <1>7, LookupMeans, MeansIs
  <2> HIDE DEF N
  <2> QED
    BY <1>6, <1>7, <1>8, <1>9, <1>10, <2>1 DEF Reads
<1> HIDE DEF m, items
<1>12. /\ p \in Rel /\ NamesOf(p) = Replacing(NamesOf(kusto), names) /\ ~HasMissing(p)
       /\ Range(p) \cup Range(m) = {d \in Range(kusto) : d.name \notin Range(names)} \cup Range(m)
       /\ Range(m) \subseteq Range(p)
  <2>1. /\ p \in Rel
        /\ NamesOf(p) = Replacing(NamesOf(kusto), NamesOf(m))
        /\ ~HasMissing(kusto) /\ ~HasMissing(m) => ~HasMissing(p)
        /\ IsInjective(NamesOf(m)) =>
              Range(p) \cup Range(m) = {d \in Range(kusto) : d.name \notin Range(NamesOf(m))} \cup Range(m)
        /\ IsInjective(NamesOf(m)) => Range(m) \subseteq Range(p)
    BY <1>2, <1>10, InPlaceIs
  <2> HIDE DEF p, names
  <2> QED
    BY <1>2, <1>6, <1>10, <2>1
<1>13. w \in Rel /\ s \in Rel
  <2> HIDE DEF names
  <2> QED
    BY <1>2, <1>8, SelectIs, WrittenItems
<1>14. known /\ duck = kusto /\ Told(kusto) => w = p
  <2> HIDE DEF names
  <2> QED
    BY <1>1, <1>6, <1>8, <1>10, <1>11, WrittenIs DEF Agreeing
<1>15. ASSUME NEW before \in Distinct, index # NoName
       PROVE  Disambiguate(index, Range(Replacing(before, names))) \in Name \ Range(Replacing(before, names))
  <2>1. Replacing(before, names) \in Seq(Name)
    BY <1>6, ReplacingIs DEF Distinct
  <2>2. IsFiniteSet(Range(Replacing(before, names)))
    BY <2>1, RangeFinite
  <2>3. index \in Name
    BY <1>15, NamesAssumption DEF Spellings
  <2> HIDE DEF names
  <2> QED
    BY <2>2, <2>3, TakeIs
<1>16. <<"index">> \in Values \ {Missing}
  <2>1. "index" \in Word
    BY DEF Word
  <2> HIDE DEF Word
  <2>2. <<"index">> \in Seq(Word) /\ <<"index">> # <<>>
    BY <2>1
  <2>3. <<"index">> # Missing
    BY DEF Missing
  <2> QED
    BY <2>2, <2>3 DEF Values
<1>17. ASSUME NEW rel \in Rel, NEW before \in Distinct, index # NoName
       PROVE  /\ Append(rel, Index(before)) \in Rel
              /\ NamesOf(Append(rel, Index(before)))
                    = Append(NamesOf(rel), Disambiguate(index, Range(Replacing(before, names))))
              /\ HasMissing(Append(rel, Index(before))) <=> HasMissing(rel)
  <2> HIDE DEF names
  <2> QED
    BY <1>15, <1>16, <1>17, OneMore
<1>18. predicted = IF index = NoName THEN Replacing(cols, names)
                   ELSE Append(Replacing(cols, names), Disambiguate(index, Range(Replacing(cols, names))))
  BY DEF MvExpandColumns
<1>19. Replacing(cols, names) \in Distinct /\ Replacing(NamesOf(kusto), names) \in Distinct
  <2> HIDE DEF names
  <2> QED
    BY <1>2, <1>6, ReplacingIs DEF Distinct
<1>20. /\ meaning \in Rel /\ ~HasMissing(meaning)
       /\ NamesOf(meaning) = IF index = NoName THEN Replacing(NamesOf(kusto), names)
                             ELSE Append(Replacing(NamesOf(kusto), names),
                                         Disambiguate(index, Range(Replacing(NamesOf(kusto), names))))
  <2> HIDE DEF names, p, Index
  <2>1. CASE index = NoName
    BY <1>12, <2>1
  <2>2. CASE index # NoName
    BY <1>2, <1>12, <1>17, <2>2
  <2> QED
    BY <2>1, <2>2
<1>21. NamesOf(meaning) \in Distinct
  <2> HIDE DEF names, meaning
  <2>1. CASE index = NoName
    BY <1>19, <1>20, <2>1
  <2>2. CASE index # NoName
    BY <1>2, <1>15, <1>19, <1>20, <2>2, AppendDistinct
  <2> QED
    BY <2>1, <2>2
<1>22. known => predicted = NamesOf(meaning)
  <2> HIDE DEF names, meaning, predicted
  <2> QED
    BY <1>2, <1>18, <1>20
<1>23. known => sql \in Rel
  <2> HIDE DEF names, w, Index
  <2> QED
    BY <1>2, <1>13, <1>17
<1>24. known /\ duck = kusto /\ Told(kusto) => sql = meaning
  <2> HIDE DEF names, w, p, Index
  <2> QED
    BY <1>2, <1>14
<1>25. ~known /\ ~refusal => Range(names) \subseteq Columns /\ meaning = p
  <2> HAVE ~known /\ ~refusal
  <2>1. index = NoName /\ \A i \in 1 .. N : c[i].name = NoName
    BY <1>4
  <2>2. \A i \in 1 .. N : names[i] \in Columns
    <3> HIDE DEF names, N
    <3> QED
      BY <1>4, <1>5, <2>1
  <2> QED
    BY <1>4, <2>1, <2>2 DEF Range
<1>26. ~known => sql = e
  OBVIOUS
<1>27. ~HasMissing(e) => e \in Rel
  <2> DEFINE lost == \E n \in Range(names) : Lookup(duck, n) = Missing
             d == Only(duck, {x \in Range(duck) : \A n \in Range(names) : Fold(x.name) # Fold(n)})
  <2>1. Excluding(duck, Range(names)) = Unless(lost, d)
    BY DEF Excluding
  <2>2. d \in Rel
    <3>1. duck \in Seq(ColumnType)
      BY <1>2 DEF Rel, ColumnType
    <3>2. d \in Seq(ColumnType)
      BY <3>1, OnlyIs
    <3> QED
      BY <3>2 DEF Rel, ColumnType
  <2>3. lost \in BOOLEAN
    OBVIOUS
  <2> HIDE DEF lost, d, s, names
  <2> QED
    BY <1>13, <2>1, <2>2, <2>3, BesideMissing
<1>28. ~known /\ ~refusal /\ Range(duck) = Range(kusto) /\ Told(kusto) /\ Told(duck) =>
          Range(sql) = Range(meaning) /\ IsInjective(NamesOf(sql))
  <2> HAVE ~known /\ ~refusal /\ Range(duck) = Range(kusto) /\ Told(kusto) /\ Told(duck)
  <2> DEFINE kept == Without(duck, Range(names))
  <2>1. Agreeing
    BY DEF Agreeing
  <2>2. Reads(items, names, m)
    BY <1>11, <2>1
  <2>3. Select(duck, items) = m
    <3> HIDE DEF names
    <3> QED
      BY <1>2, <1>8, <1>10, <2>2, SelectAs DEF Reads
  <2>4. Excluding(duck, Range(names)) = kept
    BY <1>1, <1>25, <2>1, ExcludingIs
  <2>5. sql = kept \o m
    BY <2>3, <2>4
  <2> HIDE DEF names, sql, meaning, p
  <2>6. /\ kept \in Rel /\ Range(kept) = {d \in Range(duck) : d.name \notin Range(names)}
        /\ IsInjective(NamesOf(kept))
    BY <1>2, WithoutIs, ToldIs
  <2> HIDE DEF kept
  <2>7. \A x \in Range(kept), y \in Range(m) : x.name # y.name
    <3>1. \A y \in Range(m) : y.name \in Range(names)
      BY <1>10, NamesOfIs
    <3> QED
      BY <2>6, <3>1
  <2>8. Range(sql) = Range(kept) \cup Range(m) /\ IsInjective(NamesOf(sql))
    BY <1>6, <1>10, <2>5, <2>6, <2>7, Together DEF Follows
  <2>9. meaning = p
    BY <1>25
  <2> QED
    BY <1>12, <2>6, <2>8, <2>9
<1> HIDE DEF names, meaning, sql, e, p, predicted, aliased
<1>29. Sound("own", meaning, refusal, sql, predicted)
  <2>1. ~HasMissing(sql) => sql \in Rel
    BY <1>2, <1>23, <1>26, <1>27
  <2>2. IsInjective(NamesOf(meaning))
    BY <1>21 DEF Distinct
  <2>3. known => predicted \in Distinct /\ predicted = NamesOf(meaning)
    BY <1>21, <1>22
  <2>4. refusal \in BOOLEAN
    BY <1>2 DEF aliased
  <2> HIDE DEF refusal
  <2> QED
    BY <1>20, <1>24, <1>28, <2>1, <2>2, <2>3, <2>4 DEF Sound
<1> HIDE DEF refusal
<1> QED
  BY <1>3, <1>4, <1>29, OperatorKeeps

-----------------------------------------------------------------------------
\* join, lookup and union.

\* The tables of a query.
LEMMA TableIs ==
    ASSUME NEW rel \in Tables \cup Others
    PROVE  rel \in Rel /\ ~HasMissing(rel) /\ IsInjective(NamesOf(rel))
<1> DEFINE C == [name : Name, value : Value]
           N == Len(rel)
<1>1. rel \in Seq(C) /\ ~HasMissing(rel) /\ IsInjective(NamesOf(rel))
  BY TablesAssumption
<1>2. C \subseteq ColumnType
  BY Marks DEF ColumnType
<1> HIDE DEF C
<1>3. N \in Nat /\ rel = [i \in 1 .. N |-> rel[i]] /\ \A i \in 1 .. N : rel[i] \in C
  BY <1>1
<1>4. \A i \in 1 .. N : rel[i] \in ColumnType
  BY <1>2, <1>3
<1> HIDE DEF N
<1>5. rel \in Seq(ColumnType)
  BY <1>3, <1>4, SequenceIs
<1> QED
  BY <1>1, <1>5 DEF Rel, ColumnType

\* The items that take the columns of these names.
Taking(names, called) == [i \in 1 .. Len(names) |-> Item("column", names[i], called[i])]

\* s is what these columns of rel are, if it has them all.
Takes(s, rel, names, called) ==
    /\ s \in Rel
    /\ \A m \in Rel :
          /\ Len(m) = Len(names)
          /\ \A i \in 1 .. Len(names) : /\ Lookup(rel, names[i]) # Missing
                                        /\ m[i] = Column(called[i], Lookup(rel, names[i]))
          => s = m

\* What a SELECT of columns answers.
LEMMA SelectColumns ==
    ASSUME NEW rel \in Rel, NEW names \in Seq(Name), NEW called \in Seq(Name), Len(called) = Len(names)
    PROVE  Takes(Select(rel, Taking(names, called)), rel, names, called)
<1> DEFINE N == Len(names)
           items == Taking(names, called)
<1>1. N \in Nat /\ \A i \in 1 .. N : names[i] \in Name /\ called[i] \in Name
  BY Members
<1>2. ASSUME NEW i \in 1 .. N
      PROVE  /\ items[i] \in Items /\ items[i].as = called[i] /\ items[i].fn = "column"
             /\ Read(rel, items[i]) = Lookup(rel, names[i])
  <2>1. "column" \in Word
    BY DEF Word
  <2>2. items[i] = [fn |-> "column", col |-> names[i], let |-> FALSE, as |-> called[i]]
    BY DEF Item, Taking
  <2>3. names[i] \in Name /\ called[i] \in Name
    BY <1>1
  <2> HIDE DEF items, Word, N
  <2>4. items[i] \in Items
    BY <2>1, <2>2, <2>3 DEF Items
  <2> QED
    BY <2>2, <2>4 DEF Read
<1>3. items \in Seq(Items) /\ Len(items) = N
  <2>1. items = [i \in 1 .. N |-> items[i]]
    BY DEF Taking
  <2> HIDE DEF items, N
  <2> QED
    BY <1>1, <1>2, <2>1, SequenceIs
<1> HIDE DEF items
<1>4. ASSUME NEW m \in Rel, Len(m) = N,
             \A i \in 1 .. N : Lookup(rel, names[i]) # Missing /\ m[i] = Column(called[i], Lookup(rel, names[i]))
      PROVE  Select(rel, items) = m
  <2>1. \A v : Applied("column", v) = v
    BY DEF Applied
  <2>2. \A i \in 1 .. N : /\ Read(rel, items[i]) # Missing
                          /\ m[i] = Column(items[i].as, Applied(items[i].fn, Read(rel, items[i])))
    BY <1>2, <1>4, <2>1
  <2> HIDE DEF N
  <2> QED
    BY <1>3, <1>4, <2>2, SelectAs
<1>5. Select(rel, items) \in Rel
  BY <1>3, SelectIs
<1> QED
  BY <1>4, <1>5 DEF items, Takes

\* The columns of one side after those of the other, under the names of both.
LEMMA BesideIs ==
    ASSUME Types, NEW right \in Rel, ~HasMissing(right), NEW names \in Seq(Name),
           Len(names) = Len(kusto) + Len(right), \A k \in 1 .. Len(kusto) : names[k] = kusto[k].name
    PROVE  /\ Beside(right, names) \in Rel /\ ~HasMissing(Beside(right, names))
           /\ NamesOf(Beside(right, names)) = names
<1> DEFINE M == Len(kusto)
           N == Len(right)
           a == [i \in DOMAIN right |-> Column(names[M + i], right[i].value)]
           b == Beside(right, names)
<1>1. /\ kusto \in Rel /\ ~HasMissing(kusto) /\ M \in Nat /\ N \in Nat
      /\ DOMAIN kusto = 1 .. M /\ DOMAIN right = 1 .. N
  BY NamesOfIs DEF Types
<1>2. names = [i \in 1 .. M + N |-> names[i]] /\ \A i \in 1 .. M + N : names[i] \in Name
  BY <1>1
<1>3. ASSUME NEW i \in 1 .. N
      PROVE  a[i] = Column(names[M + i], right[i].value) /\ a[i] \in ColumnType /\ a[i].value # Missing
             /\ a[i].name = names[M + i]
  <2>1. a[i] = Column(names[M + i], right[i].value)
    BY <1>1
  <2>2. M + i \in 1 .. M + N /\ right[i].value \in Values /\ right[i].value # Missing
    BY <1>1, NamesOfIs DEF HasMissing
  <2> HIDE DEF a
  <2> QED
    BY <1>2, <2>1, <2>2 DEF Column, ColumnType
<1>4. a \in Rel /\ Len(a) = N /\ ~HasMissing(a)
  <2>1. a = [i \in 1 .. N |-> a[i]]
    BY <1>1
  <2> HIDE DEF a, N
  <2>2. a \in Seq(ColumnType) /\ Len(a) = N /\ DOMAIN a = 1 .. N
    BY <1>1, <1>3, <2>1, SequenceIs
  <2> QED
    BY <1>3, <2>2 DEF Rel, ColumnType, HasMissing
<1>5. b = kusto \o a
  BY DEF Beside
<1> HIDE DEF a, b
<1>6. b \in Rel /\ Follows(b, kusto, a) /\ ~HasMissing(b)
  BY <1>1, <1>4, <1>5, Together
<1>7. NamesOf(b) = names
  <2>1. Len(b) = M + N /\ DOMAIN b = 1 .. M + N
    BY <1>4, <1>6 DEF Follows
  <2>2. ASSUME NEW i \in 1 .. M + N PROVE b[i].name = names[i]
    <3>1. CASE i \in 1 .. M
      BY <1>6, <3>1 DEF Follows
    <3>2. CASE i \notin 1 .. M
      <4>1. i - M \in 1 .. N /\ i = M + (i - M)
        BY <1>1, <3>2
      <4>2. b[M + (i - M)] = a[i - M]
        BY <1>4, <1>6, <4>1 DEF Follows
      <4>3. a[i - M].name = names[M + (i - M)]
        BY <1>3, <4>1
      <4> QED
        BY <4>1, <4>2, <4>3
    <3> QED
      BY <3>1, <3>2
  <2> QED
    BY <1>2, <2>1, <2>2 DEF NamesOf
<1> QED
  BY <1>6, <1>7 DEF b

\* The SELECT of both sides answers one beside the other where each has names
\* that are told apart.
LEMMA SidesAre ==
    ASSUME Here, NEW right \in Rel, ~HasMissing(right), NEW names \in Seq(Name),
           Len(names) = Len(cols) + Len(right)
    PROVE  /\ Sides(right, names) \in Rel
           /\ cols = NamesOf(kusto) /\ duck = kusto /\ Told(kusto) /\ Told(right) =>
                 Sides(right, names) = Beside(right, names)
<1> DEFINE M == Len(cols)
           N == Len(right)
           itemsL == [i \in DOMAIN cols |-> Same(cols[i])]
           itemsR == [i \in DOMAIN right |-> Item("column", right[i].name, names[M + i])]
           l == Select(duck, itemsL)
           r == Select(Stage(right), itemsR)
           rs == NamesOf(right)
           called == [i \in 1 .. N |-> names[M + i]]
           a == [i \in DOMAIN right |-> Column(names[Len(kusto) + i], right[i].value)]
<1>1. /\ Types /\ kusto \in Rel /\ duck \in Rel /\ cols \in Seq(Name) /\ ~HasMissing(kusto)
      /\ M \in Nat /\ N \in Nat /\ DOMAIN cols = 1 .. M /\ DOMAIN right = 1 .. N
      /\ rs \in Seq(Name) /\ Len(rs) = N /\ \A i \in 1 .. N : rs[i] = right[i].name
  BY HereIs, NamesOfIs, Members
<1>2. called \in Seq(Name) /\ Len(called) = N /\ \A i \in 1 .. N : called[i] = names[M + i]
  <2>1. \A i \in 1 .. N : called[i] \in Name
    <3>1. \A i \in 1 .. N : M + i \in 1 .. Len(names)
      BY <1>1
    <3> QED
      BY <3>1
  <2>2. called = [i \in 1 .. N |-> called[i]] /\ \A i \in 1 .. N : called[i] = names[M + i]
    OBVIOUS
  <2> HIDE DEF called, N
  <2> QED
    BY <1>1, <2>1, <2>2, SequenceIs
<1>3. itemsL = Taking(cols, cols)
  BY <1>1 DEF Same, Taking
<1>4. itemsR = Taking(rs, called)
  <2>1. \A i \in 1 .. N : Item("column", right[i].name, names[M + i]) = Item("column", rs[i], called[i])
    BY <1>1, <1>2
  <2> HIDE DEF rs, called
  <2> QED
    BY <1>1, <2>1 DEF Taking
<1>5. Stage(right) \in Rel /\ (Told(right) => Stage(right) = right)
  BY StageIs
<1>6. Takes(l, duck, cols, cols)
  <2> HIDE DEF itemsL
  <2> QED
    BY <1>1, <1>3, SelectColumns
<1>7. Takes(r, Stage(right), rs, called)
  <2> HIDE DEF itemsR, rs, called, N
  <2> QED
    BY <1>1, <1>2, <1>4, <1>5, SelectColumns
<1>8. Sides(right, names) = l \o r /\ Beside(right, names) = kusto \o a
  BY DEF Sides, Beside
<1>9. Sides(right, names) \in Rel
  <2> HIDE DEF l, r
  <2> QED
    BY <1>6, <1>7, <1>8, Together DEF Takes
<1>10. ASSUME cols = NamesOf(kusto), duck = kusto, Told(kusto), Told(right)
       PROVE  l = kusto /\ r = a
  <2>1. M = Len(kusto) /\ \A i \in 1 .. M : cols[i] = kusto[i].name /\ cols[i] \in Columns
    <3>1. M = Len(kusto) /\ \A i \in 1 .. M : cols[i] = kusto[i].name
      BY <1>1, <1>10, NamesOfIs
    <3> QED
      BY <1>1, <1>10, <3>1 DEF Columns, Range
  <2>2. Agreeing
    BY <1>10 DEF Agreeing
  <2>3. \A i \in 1 .. M : Lookup(duck, cols[i]) = kusto[i].value /\ kusto[i].value # Missing
    BY <1>1, <1>10, <2>1, <2>2, LookupMeans, MeansIs, NamesOfIs DEF HasMissing
  <2>4. \A i \in 1 .. M : kusto[i] = Column(cols[i], kusto[i].value)
    <3>1. \A i \in 1 .. M : kusto[i] \in ColumnType
      BY <1>1, <2>1, Members DEF Rel, ColumnType
    <3> QED
      BY <2>1, <3>1 DEF ColumnType, Column
  <2>5. l = kusto
    <3> HIDE DEF l
    <3> QED
      BY <1>1, <1>6, <2>1, <2>3, <2>4 DEF Takes
  <2>6. Apart(right)
    BY <1>10, ToldColumns
  <2>7. \A i \in 1 .. N : Lookup(right, rs[i]) = right[i].value /\ right[i].value # Missing
    <3> TAKE i \in 1 .. N
    <3>1. right[i] \in Range(right) /\ rs[i] = right[i].name /\ right[i].value # Missing
      BY <1>1, NamesOfIs DEF HasMissing
    <3> QED
      BY <2>6, <3>1, LookupIs
  <2>8. a \in Rel /\ Len(a) = N /\ \A i \in 1 .. N : a[i] = Column(called[i], right[i].value)
    <3>1. \A i \in 1 .. N : a[i] = Column(called[i], right[i].value)
      BY <1>1, <1>2, <2>1
    <3>2. \A i \in 1 .. N : a[i] \in ColumnType
      <4> TAKE i \in 1 .. N
      <4>1. called[i] \in Name /\ right[i].value \in Values
        BY <1>1, <1>2, NamesOfIs
      <4>2. a[i] = [name |-> called[i], value |-> right[i].value]
        BY <3>1 DEF Column
      <4> HIDE DEF a, called
      <4> QED
        BY <4>1, <4>2 DEF ColumnType
    <3>3. a = [i \in 1 .. N |-> a[i]]
      BY <1>1
    <3> HIDE DEF a, N, called
    <3>4. a \in Seq(ColumnType) /\ Len(a) = N
      BY <1>1, <3>2, <3>3, SequenceIs
    <3> QED
      BY <3>1, <3>4 DEF Rel, ColumnType
  <2>9. r = a
    <3> HIDE DEF r, a, called, rs
    <3> QED
      BY <1>1, <1>5, <1>7, <1>10, <2>7, <2>8 DEF Takes
  <2> QED
    BY <2>5, <2>9
<1> HIDE DEF l, r, a
<1> QED
  BY <1>8, <1>9, <1>10

\* One side beside the other is what the SELECT of both sides answers.
LEMMA BesideSound ==
    ASSUME Here, NEW right \in Rel, ~HasMissing(right), NEW refusal \in BOOLEAN,
           ~refusal => known /\ Told(right), NEW mine \in Distinct, NEW theirs \in Distinct,
           Len(mine) = Len(cols) + Len(right), Len(theirs) = Len(kusto) + Len(right),
           \A k \in 1 .. Len(kusto) : theirs[k] = kusto[k].name, known => mine = theirs
    PROVE  Sound("joined", Beside(right, theirs), refusal, Sides(right, mine), mine)
<1>1. mine \in Seq(Name) /\ theirs \in Seq(Name) /\ IsInjective(theirs)
  BY DEF Distinct
<1>2. Types /\ (known => cols = NamesOf(kusto))
  BY HereIs
<1>3. /\ Beside(right, theirs) \in Rel /\ ~HasMissing(Beside(right, theirs))
      /\ NamesOf(Beside(right, theirs)) = theirs
  BY <1>1, <1>2, BesideIs
<1>4. /\ Sides(right, mine) \in Rel
      /\ cols = NamesOf(kusto) /\ duck = kusto /\ Told(kusto) /\ Told(right) =>
            Sides(right, mine) = Beside(right, mine)
  BY <1>1, SidesAre
<1>5. known /\ ~refusal /\ duck = kusto /\ Told(kusto) => Sides(right, mine) = Beside(right, theirs)
  BY <1>2, <1>4
<1> QED
  BY <1>1, <1>3, <1>4, <1>5 DEF Sound

\* join keeps the invariant.
LEMMA JoinKeeps ==
    ASSUME IInv, NEW kind \in {"left", "right", "both"}, NEW right \in Others, Join(kind, right)
    PROVE  IInv'
<1> DEFINE rs == NamesOf(right)
           J(l) == CASE kind = "left" -> l [] kind = "right" -> rs [] OTHER -> JoinColumns(l, rs)
           meaning == CASE kind = "left" -> kusto [] kind = "right" -> right
                        [] OTHER -> Beside(right, J(NamesOf(kusto)))
           sql == CASE kind = "left" -> duck [] kind = "right" -> Stage(right)
                    [] OTHER -> Sides(right, J(cols))
           refusal == Unjoinable(right)
<1>1. Here
  BY DEF Here, Join, Operator
<1>2. /\ Types /\ kusto \in Rel /\ duck \in Rel /\ cols \in Distinct
      /\ ~HasMissing(kusto) /\ ~HasMissing(duck) /\ IsInjective(NamesOf(kusto)) /\ known \in BOOLEAN
      /\ (known => cols = NamesOf(kusto)) /\ NamesOf(kusto) \in Distinct
      /\ Len(NamesOf(kusto)) = Len(kusto) /\ \A k \in 1 .. Len(kusto) : NamesOf(kusto)[k] = kusto[k].name
  BY <1>1, HereIs, NamesOfIs DEF Distinct
<1>3. right \in Rel /\ ~HasMissing(right) /\ IsInjective(rs) /\ rs \in Seq(Name) /\ rs \in Distinct
      /\ Len(rs) = Len(right)
  <2>1. right \in Rel /\ ~HasMissing(right) /\ IsInjective(rs)
    BY TableIs
  <2> QED
    BY <2>1, NamesOfIs DEF Distinct
<1>4. refusal \in BOOLEAN /\ (~refusal => known /\ Told(right))
  <2>1. refusal = (~known \/ CaseCollision(rs))
    BY DEF Unjoinable
  <2>2. CaseCollision(rs) \in BOOLEAN
    BY DEF CaseCollision, CaseTwins
  <2> HIDE DEF refusal, rs
  <2> QED
    BY <1>2, <1>3, <2>1, <2>2, ToldIs DEF rs
<1>5. Stage(right) \in Rel /\ (~HasMissing(right) => ~HasMissing(Stage(right)))
      /\ (Told(right) => Stage(right) = right)
  BY <1>3, StageIs
<1>6. Operator(1, "joined", meaning, refusal, sql, J(cols))
  BY DEF Join
<1> HIDE DEF rs, refusal
<1>7. Sound("joined", meaning, refusal, sql, J(cols))
  <2>1. CASE kind = "left"
    <3>1. meaning = kusto /\ sql = duck /\ J(cols) = cols
      BY <2>1
    <3>2. Sound("joined", kusto, refusal, duck, cols)
      BY <1>2, <1>4 DEF Sound
    <3> QED
      BY <3>1, <3>2
  <2>2. CASE kind = "right"
    <3>1. meaning = right /\ sql = Stage(right) /\ J(cols) = rs
      BY <2>2
    <3>2. Sound("joined", right, refusal, Stage(right), rs)
      BY <1>2, <1>3, <1>4, <1>5 DEF Sound, rs
    <3> QED
      BY <3>1, <3>2
  <2>3. CASE kind = "both"
    <3> DEFINE mine == JoinColumns(cols, rs)
               theirs == JoinColumns(NamesOf(kusto), rs)
    <3>1. meaning = Beside(right, theirs) /\ sql = Sides(right, mine) /\ J(cols) = mine
      BY <2>3
    <3>2. mine \in Distinct /\ Len(mine) = Len(cols) + Len(right)
      BY <1>2, <1>3, JoinColumnsIs
    <3>3. theirs \in Distinct /\ Len(theirs) = Len(kusto) + Len(right)
          /\ \A k \in 1 .. Len(kusto) : theirs[k] = kusto[k].name
      <4>1. /\ theirs \in Distinct /\ Len(theirs) = Len(NamesOf(kusto)) + Len(rs)
            /\ \A k \in 1 .. Len(NamesOf(kusto)) : theirs[k] = NamesOf(kusto)[k]
        BY <1>2, <1>3, JoinColumnsIs
      <4> HIDE DEF theirs
      <4> QED
        BY <1>2, <1>3, <4>1
    <3>4. known => mine = theirs
      BY <1>2
    <3> HIDE DEF mine, theirs
    <3>5. Sound("joined", Beside(right, theirs), refusal, Sides(right, mine), mine)
      BY <1>1, <1>3, <1>4, <3>2, <3>3, <3>4, BesideSound
    <3> HIDE DEF meaning, sql, J
    <3> QED
      BY <3>1, <3>5
  <2> HIDE DEF meaning, sql, J
  <2> QED
    BY <2>1, <2>2, <2>3
<1> HIDE DEF meaning, sql, J
<1> QED
  BY <1>6, <1>7, OperatorKeeps

\* lookup keeps the invariant.
LEMMA LookUpKeeps ==
    ASSUME IInv, NEW right \in Others, NEW key, LookUp(right, key)
    PROVE  IInv'
<1> DEFINE rs == NamesOf(right)
           kept == Without(right, {key})
           ks == NamesOf(kept)
           mine == JoinColumns(cols, ks)
           theirs == JoinColumns(NamesOf(kusto), ks)
           refusal == Unjoinable(right)
<1>1. Here
  BY DEF Here, LookUp, Operator
<1>2. /\ Types /\ kusto \in Rel /\ cols \in Distinct /\ known \in BOOLEAN
      /\ (known => cols = NamesOf(kusto)) /\ NamesOf(kusto) \in Distinct
      /\ Len(NamesOf(kusto)) = Len(kusto) /\ \A k \in 1 .. Len(kusto) : NamesOf(kusto)[k] = kusto[k].name
  BY <1>1, HereIs, NamesOfIs DEF Distinct
<1>3. right \in Rel /\ ~HasMissing(right) /\ IsInjective(rs)
  BY TableIs
<1>4. /\ kept \in Rel /\ ~HasMissing(kept) /\ IsInjective(ks)
      /\ ks = Only(rs, Range(rs) \ {key})
      /\ Range(kept) = {c \in Range(right) : c.name \notin {key}}
  BY <1>3, WithoutIs
<1>5. ks \in Seq(Name) /\ Len(ks) = Len(kept)
  <2> HIDE DEF kept
  <2> QED
    BY <1>4, NamesOfIs
<1>6. refusal \in BOOLEAN /\ (~refusal => known /\ Told(kept))
  <2>1. refusal = (~known \/ CaseCollision(rs))
    BY DEF Unjoinable
  <2>2. CaseCollision(rs) \in BOOLEAN
    BY DEF CaseCollision, CaseTwins
  <2> HIDE DEF refusal, kept
  <2>3. Range(ks) \subseteq Range(rs)
    BY <1>3, <1>4, NamesOfIs
  <2>4. ~CaseCollision(rs) => ~CaseCollision(ks)
    <3> HIDE DEF rs, ks
    <3> QED
      BY <2>3 DEF CaseCollision, CaseTwins
  <2> QED
    BY <1>2, <1>4, <2>1, <2>2, <2>4, ToldIs
<1>7. Operator(1, "joined", Beside(kept, theirs), refusal, Sides(kept, mine), mine)
  <2>1. \A l : LookupColumns(l, rs, {key}) = JoinColumns(l, ks)
    BY <1>4 DEF LookupColumns
  <2>2. Operator(1, "joined", Beside(kept, LookupColumns(NamesOf(kusto), rs, {key})), refusal,
                 Sides(kept, LookupColumns(cols, rs, {key})), LookupColumns(cols, rs, {key}))
    BY DEF LookUp
  <2> HIDE DEF kept, rs, ks
  <2> QED
    BY <2>1, <2>2
<1> HIDE DEF kept, rs, refusal
<1>8. mine \in Distinct /\ Len(mine) = Len(cols) + Len(kept)
  <2> HIDE DEF ks
  <2> QED
    BY <1>2, <1>5, JoinColumnsIs
<1>9. theirs \in Distinct /\ Len(theirs) = Len(kusto) + Len(kept)
      /\ \A k \in 1 .. Len(kusto) : theirs[k] = kusto[k].name
  <2> HIDE DEF ks
  <2>1. /\ theirs \in Distinct /\ Len(theirs) = Len(NamesOf(kusto)) + Len(ks)
        /\ \A k \in 1 .. Len(NamesOf(kusto)) : theirs[k] = NamesOf(kusto)[k]
    BY <1>2, <1>5, JoinColumnsIs
  <2> HIDE DEF theirs
  <2> QED
    BY <1>2, <1>5, <2>1
<1>10. known => mine = theirs
  BY <1>2
<1> HIDE DEF mine, theirs
<1>11. Sound("joined", Beside(kept, theirs), refusal, Sides(kept, mine), mine)
  BY <1>1, <1>4, <1>6, <1>8, <1>9, <1>10, BesideSound
<1> QED
  BY <1>7, <1>11, OperatorKeeps

\* What is looked up is the value of a column of that name, in some case, if
\* there is one, and the same in every case.
LEMMA LookupFinds ==
    ASSUME NEW rel \in Rel, NEW name
    PROVE  /\ \A c \in Range(rel) : Fold(c.name) = Fold(name) =>
                  \E d \in Range(rel) : Fold(d.name) = Fold(name) /\ Lookup(rel, name) = d.value
           /\ (\A c \in Range(rel) : Fold(c.name) # Fold(name)) => Lookup(rel, name) = Missing
           /\ \A other : Fold(other) = Fold(name) => Lookup(rel, other) = Lookup(rel, name)
<1> DEFINE hits == {i \in DOMAIN rel : Fold(rel[i].name) = Fold(name)}
           first == CHOOSE i \in hits : \A j \in hits : i <= j
<1>1. Lookup(rel, name) = IF hits = {} THEN Missing ELSE rel[first].value
  BY DEF Lookup
<1>2. DOMAIN rel = 1 .. Len(rel) /\ Len(rel) \in Nat /\ hits \in SUBSET Nat
  BY Members DEF Rel
<1>3. hits # {} => first \in hits
  <2>1. hits # {} => \E i \in hits : \A j \in hits : i <= j
    <3> HIDE DEF hits
    <3> QED
      BY <1>2, LeastNatural
  <2> HIDE DEF hits
  <2> QED
    BY <2>1
<1>4. \A i \in hits : rel[i] \in Range(rel) /\ Fold(rel[i].name) = Fold(name)
  BY DEF Range
<1>5. \A c \in Range(rel) : Fold(c.name) = Fold(name) => hits # {}
  BY DEF Range
<1>6. (\A c \in Range(rel) : Fold(c.name) # Fold(name)) => hits = {}
  BY <1>4
<1>7. \A other : Fold(other) = Fold(name) => Lookup(rel, other) = Lookup(rel, name)
  BY DEF Lookup
<1> HIDE DEF hits, first
<1> QED
  BY <1>1, <1>3, <1>4, <1>5, <1>6, <1>7

\* A union fills what a side does not have.
Or(value) == IF value = Missing THEN Null ELSE value

Joint(l, r, name) == <<"union">> \o Or(Lookup(l, name)) \o Or(Lookup(r, name))

Both(l, r) == l \o Only(r, {c \in Range(r) : Lookup(l, c.name) = Missing})

\* What a union has under a name is a value that is there.
LEMMA JointIs ==
    ASSUME NEW l \in Rel, NEW r \in Rel, NEW name
    PROVE  Joint(l, r, name) \in Values \ {Missing}
<1>1. Lookup(l, name) \in Values /\ Lookup(r, name) \in Values
  BY LookupIs
<1>2. Or(Lookup(l, name)) \in Values /\ Or(Lookup(r, name)) \in Values
  BY <1>1, Marks DEF Or
<1> QED
  BY <1>2, JoinedIs DEF Joint

\* The names and the values of UNION BY NAME.
LEMMA UnionByNameIs ==
    ASSUME NEW l \in Rel, NEW r \in Rel
    PROVE  /\ UnionByName(l, r) \in Rel
           /\ \A d \in Range(UnionByName(l, r)) : d.value = Joint(l, r, d.name)
           /\ \A c \in Range(l) \cup Range(r) : \E d \in Range(UnionByName(l, r)) : Fold(d.name) = Fold(c.name)
<1> DEFINE S == {c \in Range(r) : Lookup(l, c.name) = Missing}
           new == Only(r, S)
           both == Both(l, r)
           u == UnionByName(l, r)
           N == Len(both)
<1>1. Rel = Seq(ColumnType)
  BY DEF Rel, ColumnType
<1>2. new \in Rel /\ Range(new) = Range(r) \cap S
  <2> HIDE DEF S
  <2> QED
    BY <1>1, OnlyIs
<1>3. both \in Rel /\ Range(both) = Range(l) \cup Range(new)
  <2>1. both = l \o new
    BY DEF Both
  <2> HIDE DEF both, new
  <2> QED
    BY <1>2, <2>1, Together DEF Follows
<1>4. N \in Nat /\ DOMAIN both = 1 .. N /\ \A i \in 1 .. N : both[i].name \in Name
  <2> HIDE DEF both
  <2> QED
    BY <1>3, NamesOfIs
<1>5. u = [i \in DOMAIN both |-> Column(both[i].name, Joint(l, r, both[i].name))]
  BY DEF UnionByName, Both, Joint, Or
<1> HIDE DEF u, both, new
<1>6. ASSUME NEW i \in 1 .. N
      PROVE  /\ u[i] \in ColumnType /\ u[i].name = both[i].name /\ u[i].value = Joint(l, r, both[i].name)
  <2>1. u[i] = [name |-> both[i].name, value |-> Joint(l, r, both[i].name)]
    BY <1>4, <1>5 DEF Column
  <2>2. Joint(l, r, both[i].name) \in Values /\ both[i].name \in Name
    BY <1>4, JointIs
  <2> QED
    BY <2>1, <2>2 DEF ColumnType
<1>7. u \in Seq(ColumnType) /\ DOMAIN u = 1 .. N
  <2>1. u = [i \in 1 .. N |-> u[i]]
    BY <1>4, <1>5
  <2> HIDE DEF N
  <2> QED
    BY <1>4, <1>6, <2>1, SequenceIs
<1>8. \A d \in Range(u) : d.value = Joint(l, r, d.name)
  BY <1>6, <1>7 DEF Range
<1>9. \A c \in Range(both) : \E d \in Range(u) : d.name = c.name
  <2> SUFFICES ASSUME NEW i \in 1 .. N PROVE \E d \in Range(u) : d.name = both[i].name
    BY <1>4 DEF Range
  <2>1. u[i] \in Range(u)
    BY <1>7 DEF Range
  <2> QED
    BY <1>6, <2>1
<1>10. ASSUME NEW c \in Range(l) \cup Range(r) PROVE \E d \in Range(u) : Fold(d.name) = Fold(c.name)
  <2>1. CASE c \in Range(both)
    BY <1>9, <2>1
  <2>2. CASE c \notin Range(both)
    <3>1. c \in Range(r) /\ Lookup(l, c.name) # Missing
      BY <1>2, <1>3, <2>2
    <3>2. PICK b \in Range(l) : Fold(b.name) = Fold(c.name)
      BY <3>1, LookupIs
    <3>3. b \in Range(both)
      BY <1>3
    <3> QED
      BY <1>9, <3>2, <3>3
  <2> QED
    BY <2>1, <2>2
<1> QED
  BY <1>1, <1>7, <1>8, <1>10 DEF u

\* What is looked up in a union.
LEMMA LookupUnion ==
    ASSUME NEW l \in Rel, NEW r \in Rel, NEW name, \E c \in Range(l) \cup Range(r) : c.name = name
    PROVE  Lookup(UnionByName(l, r), name) = Joint(l, r, name)
<1> DEFINE u == UnionByName(l, r)
<1>1. /\ u \in Rel
      /\ \A d \in Range(u) : d.value = Joint(l, r, d.name)
      /\ \A c \in Range(l) \cup Range(r) : \E d \in Range(u) : Fold(d.name) = Fold(c.name)
  BY UnionByNameIs
<1> HIDE DEF u
<1>2. PICK c \in Range(u) : Fold(c.name) = Fold(name)
  BY <1>1
<1>3. PICK d \in Range(u) : Fold(d.name) = Fold(name) /\ Lookup(u, name) = d.value
  BY <1>1, <1>2, LookupFinds
<1>4. Lookup(l, d.name) = Lookup(l, name) /\ Lookup(r, d.name) = Lookup(r, name)
  BY <1>3, LookupFinds
<1>5. Joint(l, r, d.name) = Joint(l, r, name)
  BY <1>4 DEF Joint
<1> QED
  BY <1>1, <1>3, <1>5 DEF u

\* What a side has under an exact name.
ValueOf(rel, name) ==
    LET found == {i \in DOMAIN rel : rel[i].name = name}
    IN  IF found = {} THEN Null ELSE rel[CHOOSE i \in found : TRUE].value

\* What a side has under an exact name is what DuckDB looks up in it, where no
\* other case of the name is there to be found.
LEMMA ValueOfIs ==
    ASSUME NEW rel \in Rel, NEW name
    PROVE  /\ ValueOf(rel, name) \in Values
           /\ ~HasMissing(rel) /\ Told(rel)
              /\ (name \notin Range(NamesOf(rel)) => \A n \in Range(NamesOf(rel)) : Fold(n) # Fold(name))
              => ValueOf(rel, name) = Or(Lookup(rel, name))
<1> DEFINE found == {i \in DOMAIN rel : rel[i].name = name}
           k == CHOOSE i \in found : TRUE
<1>1. ValueOf(rel, name) = IF found = {} THEN Null ELSE rel[k].value
  BY DEF ValueOf
<1>2. /\ DOMAIN rel = 1 .. Len(rel)
      /\ \A i \in 1 .. Len(rel) : rel[i] \in Range(rel) /\ rel[i].value \in Values
      /\ \A n : n \in Range(NamesOf(rel)) <=> \E c \in Range(rel) : c.name = n
  BY NamesOfIs
<1>3. found # {} => k \in DOMAIN rel /\ rel[k].name = name
  OBVIOUS
<1>4. found = {} => name \notin Range(NamesOf(rel))
  BY <1>2 DEF Range
<1> HIDE DEF found, k
<1>5. ValueOf(rel, name) \in Values
  BY <1>1, <1>2, <1>3, Marks
<1>6. ASSUME ~HasMissing(rel), Told(rel),
             name \notin Range(NamesOf(rel)) => \A n \in Range(NamesOf(rel)) : Fold(n) # Fold(name)
      PROVE  ValueOf(rel, name) = Or(Lookup(rel, name))
  <2>1. CASE found = {}
    <3>1. \A c \in Range(rel) : Fold(c.name) # Fold(name)
      BY <1>2, <1>4, <1>6, <2>1
    <3>2. Lookup(rel, name) = Missing
      BY <3>1, LookupFinds
    <3> QED
      BY <1>1, <2>1, <3>2 DEF Or
  <2>2. CASE found # {}
    <3>1. k \in DOMAIN rel /\ rel[k] \in Range(rel) /\ rel[k].name = name /\ rel[k].value # Missing
      BY <1>2, <1>3, <1>6, <2>2 DEF HasMissing
    <3>2. Lookup(rel, name) = rel[k].value
      BY <1>6, <3>1, ToldColumns, LookupIs
    <3> QED
      BY <1>1, <2>2, <3>1, <3>2 DEF Or
  <2> QED
    BY <2>1, <2>2
<1> QED
  BY <1>5, <1>6

\* The columns of a union.
LEMMA UnionColumnsAre ==
    ASSUME NEW kind \in {"inner", "outer"}, NEW l \in Distinct, NEW r \in Distinct
    PROVE  /\ UnionColumns(kind, l, r) \in Distinct
           /\ kind = "inner" => Range(UnionColumns(kind, l, r)) = Range(l) \cap Range(r)
           /\ kind # "inner" => Range(UnionColumns(kind, l, r)) = Range(l) \cup Range(r)
<1>1. l \in Seq(Name) /\ r \in Seq(Name) /\ IsInjective(l)
  BY DEF Distinct
<1>2. CASE kind = "inner"
  <2>1. UnionColumns(kind, l, r) = Only(l, Range(r))
    BY <1>2 DEF UnionColumns
  <2>2. /\ Only(l, Range(r)) \in Seq(Name) /\ Range(Only(l, Range(r))) = Range(l) \cap Range(r)
        /\ IsInjective(Only(l, Range(r)))
    BY <1>1, OnlyIs
  <2> QED
    BY <1>2, <2>1, <2>2 DEF Distinct
<1>3. CASE kind # "inner"
  <2>1. UnionColumns(kind, l, r) = Replacing(l, r)
    BY <1>3 DEF UnionColumns
  <2>2. Replacing(l, r) \in Distinct /\ Range(Replacing(l, r)) = Range(l) \cup Range(r)
    BY <1>1, ReplacingIs
  <2> QED
    BY <1>3, <2>1, <2>2
<1> QED
  BY <1>2, <1>3

\* What a union means.
LEMMA UnitedIs ==
    ASSUME NEW names \in Seq(Name), NEW l \in Rel, NEW r \in Rel
    PROVE  /\ United(names, l, r) \in Rel /\ NamesOf(United(names, l, r)) = names
           /\ ~HasMissing(United(names, l, r)) /\ Len(United(names, l, r)) = Len(names)
           /\ \A i \in 1 .. Len(names) :
                 United(names, l, r)[i]
                    = Column(names[i], <<"union">> \o ValueOf(l, names[i]) \o ValueOf(r, names[i]))
<1> DEFINE N == Len(names)
           u == United(names, l, r)
           v(n) == <<"union">> \o ValueOf(l, n) \o ValueOf(r, n)
<1>1. N \in Nat /\ DOMAIN names = 1 .. N /\ names = [i \in 1 .. N |-> names[i]]
      /\ \A i \in 1 .. N : names[i] \in Name
  BY Members
<1>2. u = [i \in DOMAIN names |-> Column(names[i], v(names[i]))]
  BY DEF United, ValueOf
<1>3. \A n : v(n) \in Values \ {Missing}
  BY ValueOfIs, JoinedIs
<1> HIDE DEF u, v
<1>4. ASSUME NEW i \in 1 .. N
      PROVE  /\ u[i] = Column(names[i], v(names[i])) /\ u[i] \in ColumnType
             /\ u[i].name = names[i] /\ u[i].value # Missing
  <2>1. u[i] = Column(names[i], v(names[i])) /\ u[i] = [name |-> names[i], value |-> v(names[i])]
    BY <1>1, <1>2 DEF Column
  <2> QED
    BY <1>1, <1>3, <2>1 DEF ColumnType
<1>5. u = [i \in 1 .. N |-> u[i]]
  BY <1>1, <1>2
<1> HIDE DEF N
<1>6. u \in Seq(ColumnType) /\ Len(u) = N /\ DOMAIN u = 1 .. N
  BY <1>1, <1>4, <1>5, SequenceIs
<1>7. NamesOf(u) = names
  BY <1>1, <1>4, <1>6 DEF NamesOf
<1>8. ~HasMissing(u)
  BY <1>4, <1>6 DEF HasMissing
<1> QED
  BY <1>4, <1>6, <1>7, <1>8 DEF Rel, ColumnType, u, v, N

\* union keeps the invariant.
LEMMA UnionKeeps ==
    ASSUME IInv, NEW kind \in {"inner", "outer"}, NEW right \in Others, Union(kind, right)
    PROVE  IInv'
<1> DEFINE rs == NamesOf(right)
           mine == UnionColumns(kind, cols, rs)
           theirs == UnionColumns(kind, NamesOf(kusto), rs)
           refusal == Unjoinable(right)
           meaning == United(theirs, kusto, right)
           u == UnionByName(duck, Stage(right))
           sql == Select(u, Taking(mine, mine))
<1>1. Here
  BY DEF Here, Union, Operator
<1>2. /\ Types /\ kusto \in Rel /\ duck \in Rel /\ cols \in Distinct /\ known \in BOOLEAN
      /\ ~HasMissing(kusto) /\ ~HasMissing(duck)
      /\ (known => cols = NamesOf(kusto)) /\ NamesOf(kusto) \in Distinct
  BY <1>1, HereIs, NamesOfIs DEF Distinct
<1>3. right \in Rel /\ ~HasMissing(right) /\ rs \in Distinct
  <2>1. right \in Rel /\ ~HasMissing(right) /\ IsInjective(rs)
    BY TableIs
  <2> QED
    BY <2>1, NamesOfIs DEF Distinct
<1>4. refusal \in BOOLEAN /\ (~refusal => known /\ Told(right))
  <2>1. refusal = (~known \/ CaseCollision(rs))
    BY DEF Unjoinable
  <2>2. CaseCollision(rs) \in BOOLEAN
    BY DEF CaseCollision, CaseTwins
  <2> HIDE DEF refusal, rs
  <2> QED
    BY <1>2, <1>3, <2>1, <2>2, ToldIs DEF rs, Distinct
<1>5. Stage(right) \in Rel /\ (Told(right) => Stage(right) = right)
  BY <1>3, StageIs
<1>6. mine \in Distinct /\ theirs \in Distinct /\ (known => mine = theirs)
  <2> HIDE DEF rs
  <2> QED
    BY <1>2, <1>3, UnionColumnsAre
<1>7. mine \in Seq(Name) /\ theirs \in Seq(Name) /\ IsInjective(theirs)
  BY <1>6 DEF Distinct
<1>8. Operator(1, "joined", meaning, refusal, sql, mine)
  <2>1. Operator(1, "joined", meaning, refusal, Select(u, [i \in DOMAIN mine |-> Same(mine[i])]), mine)
    BY DEF Union
  <2>2. DOMAIN mine = 1 .. Len(mine)
    BY <1>7
  <2>3. Taking(mine, mine) = [i \in DOMAIN mine |-> Same(mine[i])]
    <3> HIDE DEF mine
    <3> QED
      BY <2>2 DEF Taking, Same
  <2> HIDE DEF meaning, refusal, u, mine
  <2> QED
    BY <2>1, <2>3
<1>9. u \in Rel
  BY <1>2, <1>5, UnionByNameIs
<1>10. Takes(sql, u, mine, mine)
  <2> HIDE DEF u, mine
  <2> QED
    BY <1>7, <1>9, SelectColumns
<1> HIDE DEF sql, refusal
<1>11. /\ meaning \in Rel /\ NamesOf(meaning) = theirs /\ ~HasMissing(meaning) /\ Len(meaning) = Len(theirs)
       /\ \A i \in 1 .. Len(theirs) :
             meaning[i] = Column(theirs[i], <<"union">> \o ValueOf(kusto, theirs[i]) \o ValueOf(right, theirs[i]))
  <2> HIDE DEF theirs
  <2> QED
    BY <1>2, <1>3, <1>7, UnitedIs
<1>12. ASSUME known, ~refusal, duck = kusto, Told(kusto), ~CaseCollision(mine)
       PROVE  sql = meaning
  <2>1. Told(right) /\ u = UnionByName(kusto, right) /\ mine = theirs
    BY <1>4, <1>5, <1>6, <1>12
  <2>2. ASSUME NEW i \in 1 .. Len(mine)
        PROVE  Lookup(u, mine[i]) # Missing /\ meaning[i] = Column(mine[i], Lookup(u, mine[i]))
    <3> DEFINE n == mine[i]
    <3>1. n \in Range(mine)
      BY <1>7 DEF Range
    <3>2. \A m \in Range(mine) : Fold(m) = Fold(n) => m = n
      BY <1>12, <3>1 DEF CaseCollision, CaseTwins
    <3>3. /\ kind = "inner" => Range(mine) = Range(NamesOf(kusto)) \cap Range(rs)
          /\ kind # "inner" => Range(mine) = Range(NamesOf(kusto)) \cup Range(rs)
      <4>1. NamesOf(kusto) \in Distinct /\ rs \in Distinct /\ mine = UnionColumns(kind, NamesOf(kusto), rs)
        BY <1>2, <1>3, <1>12
      <4> HIDE DEF rs, mine
      <4> QED
        BY <4>1, UnionColumnsAre
    <3> HIDE DEF n, mine, rs
    <3>4. /\ n \notin Range(NamesOf(kusto)) => \A m \in Range(NamesOf(kusto)) : Fold(m) # Fold(n)
          /\ n \notin Range(rs) => \A m \in Range(rs) : Fold(m) # Fold(n)
      BY <3>1, <3>2, <3>3
    <3>5. ValueOf(kusto, n) = Or(Lookup(kusto, n)) /\ ValueOf(right, n) = Or(Lookup(right, n))
      BY <1>2, <1>3, <1>12, <2>1, <3>4, ValueOfIs DEF rs
    <3>6. \E c \in Range(kusto) \cup Range(right) : c.name = n
      <4>1. n \in Range(NamesOf(kusto)) \cup Range(NamesOf(right))
        BY <3>1, <3>3 DEF rs
      <4> QED
        BY <1>2, <1>3, <4>1, NamesOfIs
    <3> HIDE DEF u, meaning
    <3>7. Lookup(u, n) = Joint(kusto, right, n)
      BY <1>2, <1>3, <2>1, <3>6, LookupUnion
    <3>8. Joint(kusto, right, n) # Missing
      BY <1>2, <1>3, JointIs
    <3>9. meaning[i] = Column(n, <<"union">> \o ValueOf(kusto, n) \o ValueOf(right, n))
      <4> HIDE DEF theirs
      <4> QED
        BY <1>11, <2>1 DEF n
    <3>10. <<"union">> \o ValueOf(kusto, n) \o ValueOf(right, n) = Joint(kusto, right, n)
      BY <3>5 DEF Joint
    <3> QED
      BY <3>7, <3>8, <3>9, <3>10 DEF n
  <2> HIDE DEF u, mine, meaning, theirs
  <2> QED
    BY <1>10, <1>11, <2>1, <2>2 DEF Takes
<1> HIDE DEF mine, theirs, meaning, u
<1>13. Sound("joined", meaning, refusal, sql, mine)
  <2>1. sql \in Rel
    BY <1>10 DEF Takes
  <2> QED
    BY <1>4, <1>6, <1>7, <1>11, <1>12, <2>1 DEF Sound
<1> QED
  BY <1>8, <1>13, OperatorKeeps

-----------------------------------------------------------------------------
\* The theorems.

\* A query starts in the invariant.
LEMMA InitIInv == Init => IInv
<1> SUFFICES ASSUME Init PROVE IInv
  OBVIOUS
<1>1. /\ kusto \in Tables /\ duck = Stage(kusto) /\ known \in BOOLEAN
      /\ cols = IF known THEN NamesOf(kusto) ELSE <<>>
      /\ refused = (known /\ CaseCollision(NamesOf(kusto)))
      /\ doubt = IF CaseCollision(NamesOf(kusto)) THEN "own" ELSE "none"
      /\ accepted = TRUE /\ failed = FALSE /\ left = MaxTargets
  BY DEF Init
<1>2. kusto \in Rel /\ ~HasMissing(kusto) /\ IsInjective(NamesOf(kusto))
  BY <1>1, TableIs
<1>3. duck \in Rel /\ ~HasMissing(duck) /\ (Told(kusto) => duck = kusto)
  BY <1>1, <1>2, StageIs
<1>4. Told(kusto) <=> ~CaseCollision(NamesOf(kusto))
  BY <1>2, ToldIs
<1>5. NamesOf(kusto) \in Distinct /\ <<>> \in Distinct
  <2>1. <<>> \in Seq(Name) /\ IsInjective(<<>>)
    BY DEF IsInjective
  <2> QED
    BY <1>2, <2>1, NamesOfIs DEF Distinct
<1>6. CaseCollision(NamesOf(kusto)) \in BOOLEAN
  BY DEF CaseCollision, CaseTwins
<1>7. Types
  <2>1. cols \in Distinct
    BY <1>1, <1>5
  <2>2. refused \in BOOLEAN /\ doubt \in Doubts
    BY <1>1, <1>6 DEF Doubts
  <2>3. left \in 0 .. MaxTargets
    BY <1>1, NamesAssumption
  <2> QED
    BY <1>1, <1>2, <1>3, <2>1, <2>2, <2>3 DEF Types
<1>8. Knows
  BY <1>1, <1>3, <1>4 DEF Knows
<1>9. Agrees
  BY <1>1, <1>3, <1>4 DEF Agrees
<1> QED
  BY <1>7, <1>8, <1>9 DEF IInv

\* What the clauses are made of.
LEMMA FunctionsAre ==
    {"column"} \in SUBSET Word /\ Scalars \in SUBSET Word /\ {"sum"} \in SUBSET Word
BY DEF Word, Scalars

\* Every operator keeps the invariant.
LEMMA NextKeeps ==
    ASSUME IInv, [Next]_vars
    PROVE  IInv'
<1>1. CASE UNCHANGED vars
  <2>1. /\ kusto' = kusto /\ accepted' = accepted /\ duck' = duck /\ failed' = failed /\ cols' = cols
        /\ known' = known /\ refused' = refused /\ doubt' = doubt /\ left' = left
    BY <1>1 DEF vars
  <2>2. Types'
    BY <2>1 DEF IInv, Types, HasMissing, NamesOf
  <2>3. Knows'
    BY <2>1 DEF IInv, Knows, NamesOf, Told
  <2>4. Agrees'
    BY <2>1 DEF IInv, Agrees, Range, Told
  <2> QED
    BY <2>2, <2>3, <2>4 DEF IInv
<1>2. ASSUME NEW c \in Clauses({"column"}, {1}), c[1].name = NoName, Where(c[1]) PROVE IInv'
  <2>1. c \in Clause /\ InScope(c) /\ Len(c) = 1
    <3> DEFINE fns == {"column"}
               one == {1}
    <3>1. fns \in SUBSET Word /\ c \in Clauses(fns, one) /\ \A n \in one : n = 1
      BY FunctionsAre
    <3> HIDE DEF fns, one
    <3> QED
      BY <3>1, ClausesAre
  <2> DEFINE t == c[1]
  <2>2. <<t>> = c /\ DOMAIN c = {1}
    BY <2>1 DEF Clause
  <2>3. Range(c) = {t}
    BY <2>2 DEF Range
  <2>4. t.col \in Names
    BY <2>1, <2>3, ClauseIs
  <2>5. t.col \in Columns \cup {LetName}
    BY <1>2, <2>1, <2>3, <2>4, NamesAssumption DEF InScope
  <2> QED
    BY <1>2, <2>1, <2>2, <2>5, WhereKeeps
<1>3. ASSUME NEW c \in Clauses(Scalars, 1 .. 2), Project(c) PROVE IInv'
  BY <1>3, ClausesAre, FunctionsAre, ProjectKeeps
<1>4. ASSUME NEW c \in Clauses(Scalars, 1 .. 2), Extend(c) PROVE IInv'
  BY <1>4, ClausesAre, FunctionsAre, ExtendKeeps
<1>5. ASSUME NEW by \in Clauses(Scalars, 0 .. 1), NEW aggregates \in Clauses({"sum"}, 0 .. 1),
             Summarize(by, aggregates)
      PROVE  IInv'
  <2>1. by \in Clause /\ InScope(by) /\ aggregates \in Clause /\ InScope(aggregates)
    BY ClausesAre, FunctionsAre
  <2> QED
    BY <1>5, <2>1, SummarizeKeeps
<1>6. ASSUME NEW source \in Columns \cup {LetName}, NEW names \in BoundedSeq(Names, 2), Parse(source, names)
      PROVE  IInv'
  <2>1. names \in Seq(Names)
    <3>1. PICK n \in 0 .. 2 : names \in [1 .. n -> Names]
      BY DEF BoundedSeq, SeqOf
    <3> QED
      BY <3>1, SequenceIs
  <2> QED
    BY <1>6, <2>1, ParseKeeps
<1>7. ASSUME NEW c \in Clauses({"column"}, 1 .. 2), NEW index \in Spellings,
             IsInjective([i \in DOMAIN c |-> Base(c[i])]), {c[i].col : i \in DOMAIN c} \subseteq Columns,
             MvExpand(c, index)
      PROVE  IInv'
  <2>1. c \in Clause
    BY ClausesAre, FunctionsAre
  <2>2. \A t \in Range(c) : t.fn = "column" /\ t.col \in Columns
    <3>1. PICK n \in 1 .. 2 : c \in [1 .. n -> ReadsOf({"column"})]
      BY DEF Clauses
    <3>2. \A i \in DOMAIN c : c[i].fn = "column" /\ c[i].col \in Columns
      BY <1>7, <3>1 DEF ReadsOf
    <3> QED
      BY <3>2 DEF Range
  <2> QED
    BY <1>7, <2>1, <2>2, MvExpandKeeps
<1>8. ASSUME NEW names \in SUBSET Columns, ProjectAway(names) PROVE IInv'
  BY <1>8, ProjectAwayKeeps
<1>9. ASSUME NEW old \in Columns, NEW new \in Names \ Columns, ProjectRename(old, new) PROVE IInv'
  BY <1>9, ProjectRenameKeeps
<1>10. ASSUME NEW right \in Others, NEW kind \in {"left", "right", "both"}, Join(kind, right) PROVE IInv'
  BY <1>10, JoinKeeps
<1>11. ASSUME NEW right \in Others, NEW key, LookUp(right, key) PROVE IInv'
  BY <1>11, LookUpKeeps
<1>12. ASSUME NEW right \in Others, NEW kind \in {"inner", "outer"}, Union(kind, right) PROVE IInv'
  BY <1>12, UnionKeeps
<1> QED
  BY <1>1, <1>2, <1>3, <1>4, <1>5, <1>6, <1>7, <1>8, <1>9, <1>10, <1>11, <1>12 DEF Next

\* The invariant holds of every pipeline, of any number of targets.
LEMMA Invariance == Spec => []IInv
<1>1. Init => IInv
  BY InitIInv
<1>2. IInv /\ [Next]_vars => IInv'
  BY NextKeeps
<1> QED
  BY <1>1, <1>2, PTL DEF Spec

\* Every relation has its values and the translator's names no repeat
\* (Pipeline._columns in translate/__init__.py and the stages it emits).
THEOREM TypeCorrect == Spec => []TypeOK
<1>1. IInv => TypeOK
  BY DEF IInv, Types, TypeOK, Distinct
<1> QED
  BY <1>1, Invariance, PTL

\* A query translated with its columns known, and not refused, answers with the
\* columns and the values Kusto answers with, in their order, or fails as Kusto
\* does, until a join leaves names that differ in case only: render_operator
\* against the meaning of each operator.
THEOREM AnswersAsKustoDoes == Spec => []Faithful
<1>1. IInv => Faithful
  BY DEF IInv, Types, Knows, Faithful
<1> QED
  BY <1>1, Invariance, PTL

\* The names every operator is rendered from are those the stage before it has:
\* _operator_columns against render_operator and DuckDB's naming of a stage.
THEOREM BelievesWhatIs == Spec => []PredictedIsActual
<1>1. IInv => PredictedIsActual
  BY DEF IInv, Types, Knows, PredictedIsActual
<1> QED
  BY <1>1, Invariance, PTL

\* A query translated without its columns answers, if it does, with the right
\* columns and values in perhaps another order: the guard stage of a let, the
\* exact names told apart when the query runs, and EXCLUDE.
THEOREM OrderOnlyIsLost == Spec => []OnlyOrderIsLost
<1>1. IInv => OnlyOrderIsLost
  BY DEF IInv, Types, Agrees, OnlyOrderIsLost
<1> QED
  BY <1>1, Invariance, PTL
=============================================================================
