----------------------------- MODULE MCSharing -----------------------------
(* Expressions of two leaves and two or three operations over them, as the  *)
(* one expression of an operator or as the second of two.                   *)
EXTENDS Sharing

Operation(kind, args) == [kind |-> kind, args |-> args]

\* The operations over the nodes 1 .. n, the last of them read.
Over(n) ==
    {o \in {Operation("call", <<a, n>>) : a \in 1 .. n}
           \cup {Operation("coalesce", <<a, b>>) : a \in 1 .. n, b \in 1 .. n}
           \cup {Operation("case", <<a, b, c>>) : a \in 1 .. n, b \in 1 .. n, c \in 1 .. n}
       : n \in Range(o.args)}

Leaves == {<<Operation("column", <<>>), Operation(k, <<>>)>> :
           k \in {"call", "toscalar", "volatile"}}

Two == {Append(Append(l, a), b) : l \in Leaves, a \in Over(2), b \in Over(3)}

Three == {Append(Append(Append(l, a), b), c) :
          l \in {<<Operation("column", <<>>), Operation("call", <<>>)>>},
          a \in Over(2) , b \in Over(3), c \in Over(4)}

\* A case of two predicates, one of them or one of its values an operation.
Cases == {<<Operation("column", <<>>), Operation("call", <<>>), a,
            Operation("case", <<i, j, k, l, m>>)>> :
          a \in Over(2), i \in 1 .. 3, j \in 1 .. 3, k \in 1 .. 3, l \in 1 .. 3, m \in 1 .. 3}

MCExpressions ==
    {[nodes |-> d, exprs |-> <<4>>] : d \in Two}
    \cup {[nodes |-> d, exprs |-> <<3, 4>>] : d \in Two}
    \cup {[nodes |-> d, exprs |-> <<4>>] : d \in Cases}
    \cup {[nodes |-> d, exprs |-> <<5>>] : d \in Three}

Like(u) == [underscores |-> u, sameCase |-> TRUE]

MCColumns == {Like(1)}
=============================================================================
