-------------------------- MODULE MCScriptOperator --------------------------
(***************************************************************************)
(* Values for TLC.                                                         *)
(***************************************************************************)
EXTENDS ScriptOperator

CONSTANTS a, b, h1, h2

X == Text(<<"x">>)
Y == Text(<<"y">>)

\* Two scripts, and the second of them alone with another interpreter.
Both == <<Script(<<"s1">>, <<>>, <<X>>), Script(<<"s2">>, <<>>, <<Y>>)>>
Second == <<Script(<<"s2">>, <<"/bin/bash">>, <<Y>>)>>
PlainSpecs == {Both, Second}

\* A script that writes a line like a footer, and one whose interpreter has
\* an argument.
WithMarker == <<Script(<<"s1">>, <<>>, <<X, Footer, Y>>)>>
WithArgument == <<Script(<<"s1">>, <<"/usr/bin/env", "bash">>, <<X>>)>>
OddSpecs == {WithMarker, WithArgument}
WithSpacedName == <<Script(<<"first", "script">>, <<>>, <<X>>)>>

\* Plain specs survive the journey and no others do.
ASSUME PlainSpecsSplitBack ==
    \A s \in PlainSpecs \cup OddSpecs \cup {WithSpacedName} :
        ParseScripts(renderScripts(s)) = Asked(s) <=> \A i \in DOMAIN s : Plain(s[i])

TwoHashes == {h1, h2}
PlainConfigs == {renderScripts(s) : s \in PlainSpecs}
HashOfPlain == [c \in PlainConfigs |-> IF c = renderScripts(Both) THEN h1 ELSE h2]
OddConfigs == {renderScripts(s) : s \in OddSpecs}
HashOfOdd == [c \in OddConfigs |-> IF c = renderScripts(WithMarker) THEN h1 ELSE h2]
=============================================================================
