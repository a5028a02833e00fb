----------------------------- MODULE MCClusters -----------------------------
(* Maps over a name that has two spellings and one that has none.           *)
EXTENDS Clusters

Entry(n, s, style, t) == [host |-> [name |-> n, suffixed |-> s], style |-> style,
                          database |-> "S", target |-> t]

Help(s, t)  == Entry("help", s, "plain", t)
Local(s, t) == Entry("localhost", s, "plain", t)

\* Nothing; one spelling; both, agreeing and disagreeing; a name that is not
\* completed, alone and beside what would be its completion; a host written in
\* two styles, beside its other spelling.
MCGiven ==
    {<<>>, <<Help(FALSE, "a")>>, <<Help(TRUE, "b")>>,
     <<Help(FALSE, "b"), Help(TRUE, "b")>>, <<Help(FALSE, "a"), Help(TRUE, "b")>>,
     <<Local(FALSE, "a")>>, <<Local(FALSE, "a"), Local(TRUE, "b")>>,
     <<Help(FALSE, "a"), Entry("help", FALSE, "url", "b"), Help(TRUE, "b")>>}
=============================================================================
