------------------------------ MODULE Pipeline ------------------------------
(***************************************************************************)
(* A pipeline of KQL operators, followed through three lists of columns at  *)
(* once: what the query means (kusto), the relation DuckDB has after each   *)
(* stage of the SQL (duck), and the names the translator believes that      *)
(* stage to have (cols), from which it renders the next one.  Nothing in    *)
(* the code compares the last two.                                          *)
(*                                                                         *)
(* A column is a name and a value; a value is where it comes from, as the   *)
(* column of a table and what was applied to it.                            *)
(***************************************************************************)
EXTENDS Naming

CONSTANTS
    Tables,         \* the sources, as sequences of columns
    Others,         \* what is joined, looked up or united
    Names,          \* the names a query spells
    LetName,        \* the one a scalar let binds
    MaxTargets      \* how many targets a pipeline's operators have in all

VARIABLES
    kusto,      \* the query's columns
    accepted,   \* Kusto accepts the query
    duck,       \* the columns of the last stage
    failed,     \* DuckDB refused the last stage
    cols,       \* what the translator believes the last stage's columns to be
    known,      \* a schema was given
    refused,    \* the translator refused the query
    doubt,      \* what the query did that names alone cannot tell apart, if anything
    left        \* targets the pipeline may still have

vars == <<kusto, accepted, duck, failed, cols, known, refused, doubt, left>>

Column(name, value) == [name |-> name, value |-> value]

NamesOf(rel) == [i \in DOMAIN rel |-> rel[i].name]

\* A value is never empty: it says at least where it comes from.
Value == Seq(STRING) \ {<<>>}

Missing == <<"missing">>

LetValue == <<"let">>

Null == <<"null">>

HasMissing(rel) == \E i \in DOMAIN rel : rel[i].value = Missing

ASSUME NamesAssumption ==
    /\ Names \subseteq Name \ {NoName}
    /\ LetName \in Names
    /\ MaxTargets \in Nat

\* The columns of a table have names of their own, in one case or another.
ASSUME TablesAssumption ==
    \A rel \in Tables \cup Others :
        /\ rel \in Seq([name : Name, value : Value])
        /\ ~HasMissing(rel)
        /\ IsInjective(NamesOf(rel))

\* rel, unless there is none for a reason other than a name.
Unless(bad, rel) == IF bad THEN <<Column(NoName, Missing)>> ELSE rel

\* The columns of rel that have none of the names.
Without(rel, names) == Only(rel, {c \in Range(rel) : c.name \notin names})

\* rel with the columns new in it, each in the place of one of that name.
InPlace(rel, new) ==
    LET Of(name) == {i \in DOMAIN new : new[i].name = name}
    IN  [i \in DOMAIN rel |->
            IF Of(rel[i].name) = {} THEN rel[i] ELSE new[CHOOSE j \in Of(rel[i].name) : TRUE]]
        \o Without(new, Range(NamesOf(rel)))

-----------------------------------------------------------------------------
\* Kusto: exact names, of the operator's input only, and a column before a let.

Means(name) ==
    LET found == {i \in DOMAIN kusto : kusto[i].name = name}
    IN  IF found # {} THEN kusto[CHOOSE i \in found : TRUE].value
        ELSE IF name = LetName THEN LetValue ELSE Missing

Applied(fn, value) == IF fn = "column" \/ value = Missing THEN value ELSE Append(value, fn)

Meaning(targets, names) ==
    [i \in DOMAIN targets |-> Column(names[i], Applied(targets[i].fn, Means(targets[i].col)))]

Filtered(rel, value) == [i \in DOMAIN rel |-> [rel[i] EXCEPT !.value = @ \o <<"where">> \o value]]

United(names, l, r) ==
    LET Of(rel, n) == LET found == {i \in DOMAIN rel : rel[i].name = n}
                      IN  IF found = {} THEN Null ELSE rel[CHOOSE i \in found : TRUE].value
    IN  [i \in DOMAIN names |->
            Column(names[i], <<"union">> \o Of(l, names[i]) \o Of(r, names[i]))]

-----------------------------------------------------------------------------
\* DuckDB: names without their case, of the input first and then of the columns
\* named earlier in the same SELECT.

Lookup(rel, name) ==
    LET hits == {i \in DOMAIN rel : Fold(rel[i].name) = Fold(name)}
    IN  IF hits = {} THEN Missing
        ELSE rel[CHOOSE i \in hits : \A j \in hits : i <= j].value

\* An item is a function, what it reads (a column or the value of the let), and
\* the name it is given.
Item(fn, col, as) == [fn |-> fn, col |-> col, let |-> FALSE, as |-> as]

Same(name) == Item("column", name, name)

Select(rel, items) ==
    LET upTo[i \in 0 .. Len(items)] ==
            IF i = 0 THEN <<>>
            ELSE LET before == upTo[i - 1]
                     t == items[i]
                     read == IF t.let THEN LetValue
                             ELSE IF Lookup(rel, t.col) # Missing THEN Lookup(rel, t.col)
                             ELSE Lookup(before, t.col)
                 IN  Append(before, Column(t.as, Applied(t.fn, read)))
    IN  upTo[Len(items)]

\* A stage has no two columns whose names fold alike: the later is renamed.
Underscore == 0

Stage(list) ==
    LET upTo[i \in 0 .. Len(list)] ==
            IF i = 0 THEN <<>>
            ELSE LET before == upTo[i - 1]
                     used == {Fold(before[j].name) : j \in DOMAIN before}
                     name == list[i].name
                     under == Numbered(name, Underscore)
                 IN  Append(before, [list[i] EXCEPT !.name =
                        IF Fold(name) \notin used THEN name
                        ELSE Numbered(under, FirstFree(Fold(under), used))])
    IN  upTo[Len(list)]

\* SELECT * EXCLUDE (names), which must all be there, in any case.
Excluding(rel, names) ==
    Unless(\E n \in names : Lookup(rel, n) = Missing,
           Only(rel, {c \in Range(rel) : \A n \in names : Fold(c.name) # Fold(n)}))

UnionByName(l, r) ==
    LET both == l \o Only(r, {c \in Range(r) : Lookup(l, c.name) = Missing})
        Or(value) == IF value = Missing THEN Null ELSE value
    IN  [i \in DOMAIN both |->
            Column(both[i].name, <<"union">> \o Or(Lookup(l, both[i].name))
                                             \o Or(Lookup(r, both[i].name)))]

-----------------------------------------------------------------------------
\* The translator.

ReadsLet(targets) == \E t \in Range(targets) : t.col = LetName

\* Mutant: a let is substituted whatever the input's columns.
LetAlways(name) == name = LetName

\* A let-bound name is the column of that name where the input has one; where
\* the columns are not known it is taken for the value.
IsValue(name) == name = LetName /\ (known => ~Contains(cols, name))

\* Mutant: nothing checks what was assumed.
Unguarded(targets) == FALSE

\* ... and a guard stage fails if the input has the column after all.
ShadowGuard(targets) ==
    ~known /\ ReadsLet(targets) /\ Contains(NamesOf(duck), LetName)

RenderAs(targets, names) ==
    [i \in DOMAIN targets |->
        [Item(targets[i].fn, targets[i].col, names[i]) EXCEPT !.let = IsValue(targets[i].col)]]

\* A name the clause spells out is no input column, and the clause reads it.
ForwardReference(targets) ==
    known /\ \E t, u \in Range(targets) :
        /\ u.name # NoName /\ ~Contains(cols, u.name)
        /\ t.col = u.name /\ ~IsValue(t.col)

\* _no_case_collision, where a column list is computed.
CaseCollision(names) == CaseTwins(Range(names))

-----------------------------------------------------------------------------
Doubts == {"none", "own", "joined", "numbered"}

TypeOK ==
    /\ ~HasMissing(kusto) /\ ~HasMissing(duck)
    /\ IsInjective(cols)
    /\ {accepted, failed, known, refused} \subseteq BOOLEAN
    /\ doubt \in Doubts
    /\ left \in 0 .. MaxTargets

Init ==
    /\ kusto \in Tables
    /\ duck = Stage(kusto)
    /\ known \in BOOLEAN
    /\ cols = IF known THEN NamesOf(kusto) ELSE <<>>
    /\ refused = (known /\ CaseCollision(NamesOf(kusto)))
    /\ doubt = IF CaseCollision(NamesOf(kusto)) THEN "own" ELSE "none"
    /\ accepted = TRUE
    /\ failed = FALSE
    /\ left = MaxTargets

\* One operator of n targets: what it means, the SQL it is rendered to and the
\* columns the translator expects of it.  "joined" is an operator whose columns
\* are not checked for case.
Operator(n, kind, meaning, refusal, sql, predicted) ==
    /\ accepted /\ ~refused /\ ~failed
    /\ n <= left
    /\ left' = left - n
    /\ accepted' = ~HasMissing(meaning)
    /\ kusto' = IF accepted' THEN meaning ELSE kusto
    /\ refused' = (refusal \/ (known /\ kind # "joined" /\ CaseCollision(predicted)))
    /\ failed' = (~refused' /\ HasMissing(sql))
    /\ duck' = IF refused' \/ failed' THEN duck ELSE Stage(sql)
    /\ cols' = IF known /\ ~refused' THEN predicted ELSE cols
    /\ doubt' = IF doubt = "none" /\ (kind = "numbered" \/ CaseCollision(NamesOf(kusto')))
                THEN kind ELSE doubt
    /\ UNCHANGED known

\* where, and sort and top, which pass every column through.
Where(t) ==
    LET read == IF IsValue(t.col) THEN LetValue ELSE Lookup(duck, t.col)
    IN  Operator(1, "own",
                 Unless(Means(t.col) = Missing, Filtered(kusto, Means(t.col))),
                 FALSE,
                 Unless(ShadowGuard(<<t>>) \/ read = Missing, Filtered(duck, read)),
                 cols)

\* project, and distinct, which answers the same columns.
Project(targets) ==
    LET names == ProjectNames(targets)
        twice == DeclaredTwice(targets)
    IN  Operator(Len(targets), "own",
                 Unless(twice, Meaning(targets, names)),
                 twice \/ ForwardReference(targets),
                 Unless(ShadowGuard(targets), Select(duck, RenderAs(targets, names))),
                 names)

\* The columns a ColumnN steps past are those the translator knows of.
Numbering(mine, theirs) == IF mine = theirs THEN "own" ELSE "numbered"

Summarize(by, aggregates) ==
    LET all == by \o aggregates
        named == {a \in Range(aggregates) : a.name # NoName}
        twice == DeclaredTwice(by \o Only(aggregates, named))
        mine == SummarizeNames(by, aggregates, Range(cols))
        theirs == SummarizeNames(by, aggregates, Range(NamesOf(kusto)))
    IN  Operator(Len(all), Numbering(mine, theirs),
                 Unless(twice, Meaning(all, theirs)),
                 twice \/ ForwardReference(all),
                 Unless(ShadowGuard(all), Select(duck, RenderAs(all, mine))),
                 mine)

\* With the columns known they are written out, a replaced one where it stands.
Written(names, items) ==
    LET Of(c) == {i \in DOMAIN items : names[i] = c}
    IN  [i \in DOMAIN cols |-> IF Of(cols[i]) = {} THEN Same(cols[i])
                               ELSE items[CHOOSE j \in Of(cols[i]) : TRUE]]
        \o Only(items, {t \in Range(items) : t.as \notin Range(cols)})

\* Otherwise what stays is told apart when the query runs, by the exact name
\* (SELECT COLUMNS(lambda x: x NOT IN (names))), and comes first.
Extended(names, items) ==
    IF known THEN Select(duck, Written(names, items))
    ELSE LET kept == Without(duck, Range(names))
         IN  Unless(kept = <<>>, kept \o Select(duck, items))

Extend(targets) ==
    LET mine == ExtendNames(targets, Range(cols))
        theirs == ExtendNames(targets, Range(NamesOf(kusto)))
    IN  Operator(Len(targets), Numbering(mine, theirs),
                 Unless(~IsInjective(theirs), InPlace(kusto, Meaning(targets, theirs))),
                 ~IsInjective(mine) \/ ForwardReference(targets),
                 Unless(ShadowGuard(targets), Extended(mine, RenderAs(targets, mine))),
                 Replacing(cols, mine))

\* parse source with ... names: the captures are a column of a stage of their
\* own, so a name the pattern declares is not in scope for the source.
Parse(source, names) ==
    LET targets == [i \in DOMAIN names |-> [name |-> names[i], fn |-> "parse", col |-> source]]
        unread == ~IsValue(source) /\ Lookup(duck, source) = Missing
    IN  Operator(Len(names), "own",
                 Unless(~IsInjective(names), InPlace(kusto, Meaning(targets, names))),
                 ~IsInjective(names),
                 Unless(unread \/ ShadowGuard(targets),
                        Extended(names, RenderAs(targets, names))),
                 Replacing(cols, names))

\* mv-expand; an alias or an index needs the columns known.
MvExpand(targets, index) ==
    LET names == [i \in DOMAIN targets |-> Base(targets[i])]
        items == [i \in DOMAIN targets |-> Item("item", targets[i].col, names[i])]
        Indexed(rel, before) ==
            IF index = NoName THEN rel
            ELSE Append(rel, Column(Disambiguate(index, Range(Replacing(before, names))), <<"index">>))
        aliased == index # NoName \/ \E t \in Range(targets) : t.name # NoName
    IN  Operator(Len(targets), "own",
                 Indexed(InPlace(kusto, [i \in DOMAIN items |->
                                            Column(names[i], Applied("item", Means(items[i].col)))]),
                         NamesOf(kusto)),
                 ~known /\ aliased,
                 IF known THEN Indexed(Select(duck, Written(names, items)), cols)
                 ELSE Excluding(duck, Range(names)) \o Select(duck, items),
                 MvExpandColumns(cols, names, index))

ProjectAway(names) ==
    Operator(1, "own", Without(kusto, names), FALSE, Excluding(duck, names),
             Only(cols, Range(cols) \ names))

Renamed(names, old, new) == [i \in DOMAIN names |-> IF names[i] = old THEN new ELSE names[i]]

\* The columns of these names, all called new.
Called(rel, names, new) ==
    [i \in DOMAIN rel |-> IF rel[i].name \in names THEN Column(new, rel[i].value) ELSE rel[i]]

ProjectRename(old, new) ==
    LET folded == {n \in Range(NamesOf(duck)) : Fold(n) = Fold(old)}
    IN  Operator(1, "own", Called(kusto, {old}, new), FALSE,
                 Unless(Lookup(duck, old) = Missing, Called(duck, folded, new)),
                 Renamed(cols, old, new))

-----------------------------------------------------------------------------
\* join, lookup and union: only with the columns of both sides known, and those
\* of the right side, a query of its own, checked for case.

Unjoinable(right) == ~known \/ CaseCollision(NamesOf(right))

Sides(right, names) ==
    Select(duck, [i \in DOMAIN cols |-> Same(cols[i])])
        \o Select(Stage(right), [i \in DOMAIN right |->
                                    Item("column", right[i].name, names[Len(cols) + i])])

Beside(right, names) ==
    kusto \o [i \in DOMAIN right |-> Column(names[Len(kusto) + i], right[i].value)]

\* The semi and anti kinds answer one side.
Join(kind, right) ==
    LET rightNames == NamesOf(right)
        After(l) == CASE kind = "left" -> l
                       [] kind = "right" -> rightNames
                       [] OTHER -> JoinColumns(l, rightNames)
    IN  Operator(1, "joined",
                 CASE kind = "left" -> kusto
                   [] kind = "right" -> right
                   [] OTHER -> Beside(right, After(NamesOf(kusto))),
                 Unjoinable(right),
                 CASE kind = "left" -> duck
                   [] kind = "right" -> Stage(right)
                   [] OTHER -> Sides(right, After(cols)),
                 After(cols))

LookUp(right, key) ==
    LET After(l) == LookupColumns(l, NamesOf(right), {key})
        kept == Without(right, {key})
    IN  Operator(1, "joined", Beside(kept, After(NamesOf(kusto))), Unjoinable(right),
                 Sides(kept, After(cols)), After(cols))

Union(kind, right) ==
    LET After(l) == UnionColumns(kind, l, NamesOf(right))
    IN  Operator(1, "joined",
                 United(After(NamesOf(kusto)), kusto, right),
                 Unjoinable(right),
                 Select(UnionByName(duck, Stage(right)),
                        [i \in DOMAIN After(cols) |-> Same(After(cols)[i])]),
                 After(cols))

-----------------------------------------------------------------------------
\* What a query may say.  A clause reads its input's columns, the let, and of
\* all other names only those it assigns.

Columns == Range(NamesOf(kusto))

Spellings == Names \cup {NoName}

ReadsOf(fns) ==
    {t \in [name : Spellings, fn : fns, col : Names] :
        t.col = LetName => t.fn \in {"column", "other"}}

InScope(targets) ==
    \A t \in Range(targets) :
        \/ t.col \in Columns \cup {LetName}
        \/ \E u \in Range(targets) : u.name = t.col

Clauses(fns, sizes) ==
    {c \in UNION {[1 .. n -> ReadsOf(fns)] : n \in sizes \cap 0 .. left} : InScope(c)}

Scalars == {"column", "same", "other"}

Next ==
    \/ \E c \in Clauses({"column"}, {1}) : c[1].name = NoName /\ Where(c[1])
    \/ \E c \in Clauses(Scalars, 1 .. 2) : Project(c)
    \/ \E c \in Clauses(Scalars, 1 .. 2) : Extend(c)
    \/ \E by \in Clauses(Scalars, 0 .. 1), aggregates \in Clauses({"sum"}, 0 .. 1) :
        by \o aggregates # <<>> /\ Summarize(by, aggregates)
    \/ \E source \in Columns \cup {LetName}, names \in BoundedSeq(Names, 2) :
        names # <<>> /\ Parse(source, names)
    \/ \E c \in Clauses({"column"}, 1 .. 2), index \in Spellings :
        /\ IsInjective([i \in DOMAIN c |-> Base(c[i])])
        /\ {c[i].col : i \in DOMAIN c} \subseteq Columns
        /\ MvExpand(c, index)
    \/ \E names \in SUBSET Columns \ {{}, Columns} : ProjectAway(names)
    \/ \E old \in Columns, new \in Names \ Columns : ProjectRename(old, new)
    \/ \E right \in Others :
        \/ \E kind \in {"left", "right", "both"} : Join(kind, right)
        \/ \E key \in Columns \cap Range(NamesOf(right)) : LookUp(right, key)
        \/ \E kind \in {"inner", "outer"} : Union(kind, right)

Spec == Init /\ [][Next]_vars

-----------------------------------------------------------------------------
\* A query translated with its columns known is refused, or answers with the
\* columns and the values Kusto answers with; one that Kusto refuses is refused
\* or fails.
Faithful ==
    known /\ ~refused /\ doubt # "joined" =>
        /\ accepted = ~failed
        /\ accepted => duck = kusto

\* The names every stage is rendered from are those the stage before it has:
\* nothing in the code compares the two (_operator_columns against
\* render_operator and DuckDB's own naming).
PredictedIsActual ==
    known /\ ~refused /\ ~failed /\ doubt # "joined" => cols = NamesOf(duck)

\* Without the columns a query is answered with the right columns and values in
\* perhaps another order, or not at all, unless the input has names that differ
\* in case only or a ColumnN the translator could not step past.
OnlyOrderIsLost ==
    ~known /\ ~refused /\ ~failed /\ accepted /\ doubt = "none" => Range(duck) = Range(kusto)
=============================================================================
