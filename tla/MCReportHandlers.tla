-------------------------- MODULE MCReportHandlers --------------------------
(***************************************************************************)
(* Values for TLC: a failure and a success of the SysctlProfile and a      *)
(* failure of the ScriptProfile, on one node.                              *)
(***************************************************************************)
EXTENDS ReportHandlers, TLC

CONSTANTS a, c1, h1, r1, r2

OneConfig == {c1}
OneHash == {h1}
HashOfOne == c1 :> h1

Sent(id, kind, success) ==
    [id |-> id, kind |-> kind, node |-> a, hash |-> h1, success |-> success]

TwoKinds ==
    {Sent(1, "SysctlProfile", FALSE), Sent(2, "SysctlProfile", TRUE),
     Sent(3, "ScriptProfile", FALSE)}

ReplicaSymmetry == Permutations(Replicas)
=============================================================================
