-------------------------- MODULE MCSysctlOperator --------------------------
(***************************************************************************)
(* Values for TLC.                                                         *)
(***************************************************************************)
EXTENDS DocumentedBehaviour, TLC

CONSTANTS a, b, c1, c2, h1, h2

OneConfig == {c1}
TwoConfigs == {c1, c2}
OneHash == {h1}
TwoHashes == {h1, h2}
HashOfOne == c1 :> h1
HashOfTwo == (c1 :> h1) @@ (c2 :> h2)

NodeSymmetry == Permutations(Nodes)
=============================================================================
