------------------------- MODULE DocumentedBehaviour -------------------------
(***************************************************************************)
(* What the README, the API types and the comments say of the operator and *)
(* the code does not do.  Each formula is the documented behaviour; a run  *)
(* shows a behaviour of the system that violates it.                       *)
(***************************************************************************)
EXTENDS SysctlOperator

\* README: the drift check runs "a CronJob whose pods inspect the live values
\* and report drift back".  While there is a CronJob, a pod of it gets to run.
DriftCheckRuns ==
    cronJob # None ~>
        (cronJob = None \/ \E p \in pods : p.kind = "drift" /\ p.pc # "creating")

\* README: "a changed hash automatically triggers a fresh rollout".  When
\* everything is at rest after a rollout, that config is in force.
RolledOutIsLive ==
    Settled /\ pods = {} /\ reports = {} /\ RolloutComplete =>
        \A n \in SelectedNow : live[n] = profile.spec

\* README: "Once every selected node has reported success at the current config
\* hash, the operator tears the DaemonSet down".
AllReported ==
    /\ profile # None
    /\ ~profile.deleting
    /\ allNodesApplied(profile.status, SelectedNow, hashContent(renderSysctlConf(profile)))

TornDownOnceReported == AllReported ~> daemonSet = None

\* API: "appliedNodes is the number of nodes at the desired config hash", when
\* the manager has nothing left to do.
AppliedNodesAtHash ==
    Settled /\ profile # None =>
        profile.status.appliedNodes =
            Cardinality(AppliedAt(profile.status, profile.status.observedHash))
=============================================================================
