---------------------------- MODULE MC_GTestFormat ----------------------------
(***************************************************************************)
(* Five test names, one of each shape: type- and value-parametrized, a    *)
(* plain name with two prefixes, a Java name and one no regexp matches.   *)
(* Up to two iterations of up to two names, one run each.                 *)
(***************************************************************************)
EXTENDS GTestFormat, FiniteSets

W(s) == <<s>>   \* a word without prefixes

TypeName ==     \* Inst/Suite/1.MANUAL_PRE_Bar
    [words |-> <<W("Inst"), W("Suite"), W("1"), <<"MANUAL_", "PRE_", "Bar">>>>,
     seps |-> <<"/", "/", ".">>]
ValueName ==    \* Suite.Baz/2
    [words |-> <<W("Suite"), W("Baz"), W("2")>>, seps |-> <<".", "/">>]
PlainName ==    \* Suite.PRE_MANUAL_Foo
    [words |-> <<W("Suite"), <<"PRE_", "MANUAL_", "Foo">>>>, seps |-> <<".">>]
BadName ==      \* Suite/Foo
    [words |-> <<W("Suite"), W("Foo")>>, seps |-> <<"/">>]
JavaName ==     \* org.Foo#bar
    [words |-> <<W("org"), W("Foo"), W("bar")>>, seps |-> <<".", "#">>]

(* Byte order of the names above.                                         *)
MCNameRank ==
    (TypeName :> 1) @@ (ValueName :> 2) @@ (PlainName :> 3)
        @@ (BadName :> 4) @@ (JavaName :> 5)

Runs == {<<"SUCCESS">>, <<"NOTRUN">>, <<"BOGUS">>}

Iteration ==
    UNION {[d -> Runs] : d \in {d \in SUBSET DOMAIN MCNameRank : Cardinality(d) <= 2}}

MCInputs ==
    {[allTests |-> FALSE, iterations |-> <<>>, globalTags |-> {}]}
    \cup [allTests : {TRUE}, iterations : {<<>>} \cup [1..1 -> Iteration]
                                              \cup [1..2 -> Iteration],
          globalTags : {{"t"}}]

=============================================================================
