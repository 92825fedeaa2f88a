------------------------------ MODULE MCRouter ------------------------------
EXTENDS Router

\* "/" and one name are enough to build nested, equal and unrelated prefixes;
\* "." makes the parts that are skipped, and the suffixes.
MCParts == {"/", "a", "."}
MCUrls ==
    UNION {[1 .. n -> {"/", "a"}] : n \in 0 .. 2}
    \cup {<<"/", "a", "/">>, <<"/", ".", ".", "/", "a">>, <<"/", "a", "/", ".", ".">>,
          <<"/", ".", "/", "a">>, <<"/", "/", ".", ".", ".">>, <<"/", "a", ".", "a", "/", "a">>,
          <<"/", "a", "/", "a", ".", "a">>, <<"/", "a", ".", "/", ".">>}
MCIndex == <<"a">>
MCRuleUrls == {<<>>, <<"/">>, <<"/", "a">>}
MCRules ==
    {[name |-> "Debug", prefix |-> <<>>], [name |-> "unknown", prefix |-> <<>>]}
    \cup {[name |-> "Normal", prefix |-> p] : p \in {<<>>, <<"/">>, <<"a">>}}
=============================================================================
