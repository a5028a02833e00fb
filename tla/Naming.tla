------------------------------- MODULE Naming -------------------------------
(***************************************************************************)
(* The names of an operator's output columns: the rules of                 *)
(* translate/naming.py for the columns a clause leaves unnamed, and those  *)
(* of schema.py for the columns two relations share.                       *)
(*                                                                         *)
(* A name is a stem, the prefix an aggregate put before it and a tail of   *)
(* digits: "sum_a1" is "sum_", "a" and <<1>>.  The same stem in another    *)
(* case is another name to KQL and the same to DuckDB.                     *)
(***************************************************************************)
EXTENDS Naturals, FiniteSets, SequencesExt

CONSTANTS
    Stems,      \* what names are made of
    Lower       \* each stem in lower case

ASSUME StemsAssumption ==
    /\ Lower \in [Stems -> STRING]
    /\ "Column" \in Stems

Plain(stem) == [prefix |-> "", stem |-> stem, tail |-> <<>>]

NoName == Plain("")

Name == [prefix : {"", "sum_"}, stem : Stems, tail : Seq(Nat)]

Numbered(name, k) == [name EXCEPT !.tail = Append(@, k)]

Fold(name) == [name EXCEPT !.stem = IF @ \in Stems THEN Lower[@] ELSE @]

CaseTwins(names) == \E x, y \in names : x # y /\ Fold(x) = Fold(y)

\* The first k for which `name` followed by k is not used.
FirstFree(name, used) ==
    CHOOSE k \in 1 .. Cardinality(used) + 1 :
        /\ Numbered(name, k) \notin used
        /\ \A j \in 1 .. k - 1 : Numbered(name, j) \in used

Disambiguate(name, taken) ==
    IF name \in taken THEN Numbered(name, FirstFree(name, taken)) ELSE name

\* The members of s that are in S, in their order.  SelectSeq, with a set in
\* the place of an operator.
Only(s, S) ==
    LET upTo[i \in 0 .. Len(s)] ==
            IF i = 0 THEN <<>>
            ELSE IF s[i] \in S THEN Append(upTo[i - 1], s[i]) ELSE upTo[i - 1]
    IN  upTo[Len(s)]

-----------------------------------------------------------------------------
\* Targets: an expression and the name spelled for it, if any.  "column" is a
\* bare column, "same" a function that keeps its argument's name (abs), "other"
\* one that does not (tolower, any operator), "sum" an aggregate.

Spelled(t) ==
    IF t.name # NoName THEN t.name
    ELSE IF t.fn = "column" THEN t.col ELSE NoName

\* The name of an unnamed expression, NoName for a positional ColumnN.
ExpressionName(t) ==
    CASE t.fn \in {"column", "same"} -> t.col
      [] t.fn = "sum" -> [t.col EXCEPT !.prefix = "sum_"]
      [] OTHER -> NoName

Base(t) == IF t.name # NoName THEN t.name ELSE ExpressionName(t)

Declared(targets) == {Spelled(t) : t \in Range(targets)} \ {NoName}

\* `project x, x` is refused; `project abs(x), x` is not.
DeclaredTwice(targets) ==
    \E i, j \in DOMAIN targets :
        i < j /\ Spelled(targets[i]) = Spelled(targets[j]) /\ Spelled(targets[i]) # NoName

\* The next ColumnN after p that no name in skip has.
Positional(p, skip) ==
    LET free == {q \in p + 1 .. p + 1 + Cardinality(skip) :
                 Numbered(Plain("Column"), q) \notin skip}
    IN  CHOOSE q \in free : \A r \in free : q <= r

Take(base, taken, reserved) ==
    IF base \in taken THEN Numbered(base, FirstFree(base, taken \cup reserved))
    ELSE base

\* Namer: the base name of each target from left to right, moved when an
\* earlier target already has it.
Namer(targets, reserved, skip) ==
    LET upTo[i \in 0 .. Len(targets)] ==
            IF i = 0 THEN [names |-> <<>>, positional |-> 0]
            ELSE LET before == upTo[i - 1]
                     generated == Base(targets[i]) = NoName
                     p == IF generated THEN Positional(before.positional, skip)
                          ELSE before.positional
                     base == IF generated THEN Numbered(Plain("Column"), p)
                             ELSE Base(targets[i])
                     name == Take(base, Range(before.names), reserved)
                 IN  [names |-> Append(before.names, name), positional |-> p]
    IN  upTo[Len(targets)].names

ProjectNames(targets) == Namer(targets, Declared(targets), {})

\* The names of `summarize` also step past the input's columns.
SummarizeNames(by, aggregates, cols) ==
    Namer(by \o aggregates,
          Declared(by) \cup ({a.name : a \in Range(aggregates)} \ {NoName}), cols)

\* `extend` never moves a name: equal to an input column it replaces it, equal
\* to another target's it is refused.
ExtendNames(targets, cols) ==
    LET Generated(i) == {j \in 1 .. i : Base(targets[j]) = NoName}
        positional[k \in 0 .. Len(targets)] ==
            IF k = 0 THEN 0 ELSE Positional(positional[k - 1], cols)
    IN  [i \in DOMAIN targets |->
            IF Base(targets[i]) # NoName THEN Base(targets[i])
            ELSE Numbered(Plain("Column"), positional[Cardinality(Generated(i))])]

-----------------------------------------------------------------------------
\* The columns of an operator's result, from those of its inputs (schema.py).

\* Mutant: a replaced column is written a second time.
ReplacingAppends(cols, names) == cols \o names

\* Mutant: a replaced column moves to the end.
ReplacingMoves(cols, names) == Only(cols, Range(cols) \ Range(names)) \o names

\* A name that exists is replaced where it stands, a new one goes on the end.
Replacing(cols, names) == cols \o Only(names, Range(names) \ Range(cols))

\* right after left, each name moved past those already there.
JoinColumns(left, right) ==
    LET upTo[i \in 0 .. Len(right)] ==
            IF i = 0 THEN left
            ELSE Append(upTo[i - 1], Disambiguate(right[i], Range(upTo[i - 1])))
    IN  upTo[Len(right)]

LookupColumns(left, right, keys) ==
    JoinColumns(left, Only(right, Range(right) \ keys))

UnionColumns(kind, left, right) ==
    IF kind = "inner" THEN Only(left, Range(right))
    ELSE Replacing(left, right)

MvExpandColumns(cols, names, index) ==
    LET out == Replacing(cols, names)
    IN  IF index = NoName THEN out ELSE Append(out, Disambiguate(index, Range(out)))
=============================================================================
