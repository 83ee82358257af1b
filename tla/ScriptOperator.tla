--------------------------- MODULE ScriptOperator ---------------------------
(***************************************************************************)
(* The whole system for one ScriptProfile: the same cluster, manager and   *)
(* report API as in SysctlOperator, with the other controller and with     *)
(* workers in script mode.                                                 *)
(***************************************************************************)
EXTENDS SysctlOperator, ScriptProfileController, ScriptWorker

CONSTANT ScriptSpecs    \* the lists of scripts a user may write

ASSUME ScriptSpecsAssumption ==
    \A s \in ScriptSpecs : s \in Seq(ScriptType) /\ renderScripts(s) \in Configs

\* A file is a sequence of lines, whatever is in it.
ASSUME ScriptFilesAssumption == \A c \in Configs : c \in Seq(Line)

\* Its spec is a list of scripts; it has no schedule.
ScriptProfile ==
    [spec       : ScriptSpecs,
     driftCheck : {FALSE},
     generation : Nat,
     deleting   : BOOLEAN,
     finalizer  : BOOLEAN,
     status     : Status]

MaybeScriptProfile == ScriptProfile \cup {None}

ASSUME NoScriptProfileAssumption == None \notin ScriptProfile

allVars == <<vars, scriptVars>>

ScriptInit ==
    /\ Init
    /\ ran = [n \in Nodes |-> [i \in 1 .. MaxPodsPerNode |-> Fresh]]
    /\ completed = [n \in Nodes |-> {}]

ScriptUserNext ==
    \/ \E s \in ScriptSpecs : CreateProfile(s, FALSE) \/ EditSpec(s)
    \/ DeleteProfile

ScriptFailureNext ==
    \/ \E n \in Nodes, kind \in {"join", "relabel"}, label \in NodeLabels :
           ChangeNode(n, kind, label)
    \/ \E p \in pods : CrashContainer(p)
    \/ \E r \in reports : LoseReport(r)
    \/ RestartManager
    \/ ReconcileError

ScriptClusterNext ==
    \/ \E n \in Nodes : SchedulePod(n)
    \/ \E p \in pods : KillPod(p) \/ StartContainer(p)

ScriptManagerNext ==
    \/ SyncProfile
    \/ \E n \in Nodes : NodeCacheSync(n)
    \/ ScriptReconcileStep
    \/ \E r \in reports : applyScriptReport(r)

ScriptNext ==
    \/ /\ ScriptUserNext \/ ScriptFailureNext \/ ScriptClusterNext \/ ScriptManagerNext
       /\ UNCHANGED scriptVars
    \/ \E p \in pods : ScriptWorkerNext(p)

ScriptSpec == ScriptInit /\ [][ScriptNext]_allVars

----------------------------------------------------------------------------
\* Properties.

ScriptProfileTypeOK ==
    /\ profile \in MaybeScriptProfile
    /\ cache \in MaybeScriptProfile
    /\ cacheFresh \in BOOLEAN

ScriptReconcileTypeOK ==
    /\ queued \in BOOLEAN
    /\ pc \in ReconcilePC \ {"cronJob", "cleanupCronJob"}
    /\ snap \in MaybeScriptProfile
    /\ (snap = None) <=> (pc = "idle")
    /\ snapFresh \in BOOLEAN
    /\ selected \subseteq Nodes

RunsTypeOK ==
    /\ ran \in [Nodes -> [1 .. MaxPodsPerNode -> [log : Seq(ScriptType), failed : BOOLEAN]]]
    /\ completed \in [Nodes -> SUBSET Seq(ScriptType)]

\* What a process has run is a beginning of its list of scripts, in order.
RunsInOrder ==
    \A p \in pods : p.pc = "apply" => IsPrefix(Running(p).log, ParseScripts(p.content))

\* Every variable has its type; no step belongs to a CronJob and there is
\* none; and a process runs its scripts in order.
ScriptTypeOK ==
    /\ ScriptProfileTypeOK
    /\ ScriptReconcileTypeOK
    /\ OwnedTypeOK
    /\ cronJob = None
    /\ NodesTypeOK
    /\ HostsTypeOK
    /\ EnvTypeOK
    /\ RunsTypeOK
    /\ RunsInOrder

\* A node recorded Applied has run, in one process, in order and without a
\* failure, exactly the scripts of the spec with the recorded hash: not the
\* ones a crashed container left half done, nor a list the file was split
\* into differently.
AppliedRanScripts ==
    profile # None =>
        \A n \in Nodes :
            profile.status.nodeStatuses[n].phase = "Applied" =>
                \E s \in ScriptSpecs :
                    /\ hashContent(renderScripts(s)) =
                           profile.status.nodeStatuses[n].appliedHash
                    /\ Asked(s) \in completed[n]

\* Whenever the manager rests, ConfigMap, DaemonSet and status are what the
\* scripts, the nodes and the reports call for.
ScriptSettledMatchesSpec ==
    Settled /\ profile # None => MatchesSpec(profile, renderScripts(profile.spec))

\* Comment of renderScripts: "Each script is emitted as a block the worker can
\* split back apart".  What a node has run is what some spec asks for.
ScriptsSplitBackApart ==
    \A n \in Nodes : completed[n] \subseteq {Asked(s) : s \in ScriptSpecs}
=============================================================================
