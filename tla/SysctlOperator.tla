--------------------------- MODULE SysctlOperator ---------------------------
(***************************************************************************)
(* The whole system for one SysctlProfile: users and nodes, the manager    *)
(* (controller and report API), the cluster's controllers, and the workers *)
(* on the nodes.                                                           *)
(***************************************************************************)
EXTENDS SysctlProfileController, Worker, ReportServer

Init ==
    /\ profile = None
    /\ cache = None
    /\ cacheFresh = TRUE
    /\ queued = FALSE
    /\ pc = "idle"
    /\ snap = None
    /\ snapFresh = FALSE
    /\ selected = {}
    /\ configMap = [m \in ConfigMapNames |-> None]
    /\ cronJob = None
    /\ daemonSet = None
    /\ rendered = {}
    /\ nodes \in [Nodes -> InitLabels]
    /\ nodeCache = nodes
    /\ pods = {}
    /\ live = [n \in Nodes |-> None]
    /\ written = [n \in Nodes |-> {}]
    /\ reports = {}
    /\ env = 0
    /\ mishap = FALSE

UserNext ==
    \/ \E c \in Configs, drift \in DriftChecks : CreateProfile(c, drift)
    \/ \E c \in Configs : EditSpec(c)
    \/ EditSchedule
    \/ DeleteProfile

FailureNext ==
    \/ \E n \in Nodes, kind \in {"join", "relabel", "remove"}, label \in NodeLabels :
           ChangeNode(n, kind, label)
    \/ \E n \in Nodes : LoseLiveValues(n)
    \/ \E p \in pods : CrashContainer(p)
    \/ \E r \in reports : LoseReport(r)
    \/ RestartManager
    \/ ReconcileError
    \/ Resync

ClusterNext ==
    \/ \E n \in Nodes : SchedulePod(n) \/ RunCronJob(n)
    \/ \E p \in pods : KillPod(p) \/ StartContainer(p)

ManagerNext ==
    \/ SyncProfile
    \/ \E n \in Nodes : NodeCacheSync(n)
    \/ ReconcileStep
    \/ \E r \in reports : applyReport(r)

Next ==
    \/ UserNext
    \/ FailureNext
    \/ ClusterNext
    \/ ManagerNext
    \/ \E p \in pods : WorkerNext(p)

Spec == Init /\ [][Next]_vars

\* Informers deliver, work queues and request handlers are served, the
\* DaemonSet controller, the garbage collector and the kubelets run, cron
\* schedules fire, a running process takes its next step.  Nothing is assumed
\* of users, nodes and failures, nor of the copy of a ConfigMap a kubelet
\* mounts while the ConfigMap is not the one the pod wants.
Fairness ==
    /\ WF_vars(ReconcileStep)
    /\ WF_vars(SyncProfile)
    /\ WF_vars(\E r \in reports : applyReport(r))
    /\ \A n \in Nodes :
        /\ WF_vars(NodeCacheSync(n))
        /\ WF_vars(SchedulePod(n))
        /\ WF_vars(RunCronJob(n))
        /\ \A i \in 1 .. MaxPodsPerNode :
            WF_vars(\E p \in pods : p.node = n /\ p.id = i /\
                        (KillPod(p) \/ StartContainer(p) \/ WorkerStep(p)))

FairSpec == Spec /\ Fairness

----------------------------------------------------------------------------
\* Safety.

ProfileTypeOK ==
    /\ profile \in MaybeProfile
    /\ cache \in MaybeProfile
    /\ cacheFresh \in BOOLEAN

ReconcileTypeOK ==
    /\ queued \in BOOLEAN
    /\ pc \in ReconcilePC
    /\ snap \in MaybeProfile
    /\ (snap = None) <=> (pc = "idle")
    /\ snapFresh \in BOOLEAN
    /\ selected \subseteq Nodes

OwnedTypeOK ==
    /\ configMap \in [ConfigMapNames -> Configs \cup {None}]
    /\ cronJob \in MaybeHash
    /\ daemonSet \in MaybeHash
    /\ rendered \subseteq Configs

NodesTypeOK ==
    /\ nodes \in [Nodes -> NodeLabels]
    /\ nodeCache \in [Nodes -> NodeLabels]

HostsTypeOK ==
    /\ pods \subseteq Pod
    /\ \A p \in pods : p.pc \in {"apply", "sendOk", "sendFailed"} => p.content # None
    /\ live \in [Nodes -> Configs \cup {None}]
    /\ written \in [Nodes -> SUBSET Hashes]

EnvTypeOK ==
    /\ reports \subseteq InFlight
    /\ env \in 0 .. MaxEnv
    /\ mishap \in BOOLEAN

\* Every variable has the type its declaration names; Reconcile has a working
\* copy exactly while it runs; a worker that applies or reports has loaded a
\* config; no report is attempted more than MaxTries times.
TypeOK ==
    /\ ProfileTypeOK
    /\ ReconcileTypeOK
    /\ OwnedTypeOK
    /\ NodesTypeOK
    /\ HostsTypeOK
    /\ EnvTypeOK

\* A copy of the profile claims only what happened: a node recorded Applied
\* at a hash has had that config written completely.  The claim passes
\* through the worker, a report that may be late, the handler's cached copy
\* and the controller's working copy.
Truthful(copy) ==
    copy # None =>
        \A n \in Nodes :
            copy.status.nodeStatuses[n].phase = "Applied" =>
                copy.status.nodeStatuses[n].appliedHash \in written[n]

AppliedWasWritten == Truthful(profile) /\ Truthful(cache) /\ Truthful(snap)

\* The finalizer is added before anything is created and removed after
\* everything is deleted, so a profile that is gone leaves nothing behind,
\* whatever stale copy, crash or re-creation came between.
NothingOrphaned ==
    profile = None =>
        /\ \A m \in ConfigMapNames : configMap[m] = None
        /\ cronJob = None
        /\ daemonSet = None

\* Creation writes the ConfigMap first and cleanup deletes it last: no
\* DaemonSet ever names a ConfigMap that does not exist.
DaemonSetHasConfigMap == daemonSet # None => configMap[resourceName] # None

\* A DaemonSet goes away only with its profile, or when its work is done:
\* Reconcile tears it down from an old list of nodes and an old copy of the
\* status, yet every node of that list, and there is one, has had the config
\* of that copy written completely.
TeardownIsEarned ==
    [][daemonSet # None /\ daemonSet' = None =>
          \/ snap.deleting
          \/ /\ selected # {}
             /\ \A n \in selected : hashContent(renderSysctlConf(snap)) \in written[n]]_vars

\* A node's entry changes only because a report of that node is consumed:
\* the controller's status write, made from a copy read earlier, undoes no
\* report.
ReportsAreNotOverwritten ==
    [][\A n \in Nodes :
          (profile # None /\ profile' # None /\
           profile'.status.nodeStatuses[n] # profile.status.nodeStatuses[n])
          => \E r \in reports \ reports' : r.node = n]_vars

\* The manager has nothing to do and nothing to learn.
Settled ==
    /\ pc = "idle"
    /\ ~queued
    /\ cacheFresh
    /\ nodeCache = nodes

SelectedNow == {n \in Nodes : nodes[n] = "full"}

\* What the objects of a profile that renders to content should be for its
\* nodes and the reports so far.
MatchesSpec(p, content) ==
    LET hash     == hashContent(content)
        complete == allNodesApplied(p.status, SelectedNow, hash)
    IN  /\ p.finalizer
        /\ ~p.deleting
        /\ configMap[resourceName] = content
        /\ cronJob = IF p.driftCheck THEN hash ELSE None
        /\ daemonSet = IF complete THEN None ELSE hash
        /\ p.status.observedHash = hash
        /\ p.status.desiredNodes = Cardinality(SelectedNow)
        /\ p.status.readyGeneration = p.generation
        /\ p.status.ready = IF complete THEN "RolloutComplete" ELSE "RollingOut"

\* Whenever the manager rests, the world is as the profile says: no event
\* that mattered was filtered out, coalesced away or lost in a restart, no
\* conflict or error was forgotten.
SettledMatchesSpec == 
    Settled /\ profile # None => MatchesSpec(profile, renderSysctlConf(profile))

\* Two writers update the status, Reconcile the verdict and desiredNodes, the
\* report API the counters.  Whenever the manager rests they agree: of a
\* rollout that is called complete, at least as many nodes are counted as
\* applied as are desired.
CompleteIsCounted ==
    Settled /\ profile # None /\ profile.status.ready = "RolloutComplete" =>
        profile.status.appliedNodes >= profile.status.desiredNodes

----------------------------------------------------------------------------
\* Liveness.

\* The rollout of the current spec is over: the DaemonSet is gone and every
\* selected node is recorded at the current hash.
RolledOut(content) ==
    /\ daemonSet = None
    /\ profile.status.teardownHash = hashContent(content)
    /\ SelectedNow \subseteq AppliedAt(profile.status, hashContent(content))

RolloutComplete == profile # None /\ RolledOut(renderSysctlConf(profile))

\* If no write fails, no report is lost and none takes back a success, then
\* once the users and the nodes rest, a profile that selects some node is
\* rolled out and its DaemonSet torn down for good, although pods of deleted
\* DaemonSets may go on writing and reporting.  Nodes may join but not be
\* removed: the predicate drops that event, and when the removed node was the
\* last one missing nothing tears the DaemonSet down.
RolloutCompletes ==
    ([]~mishap) =>
        <>[](profile = None \/ profile.deleting \/ SelectedNow = {} \/ RolloutComplete)

\* A profile that is being deleted goes away, whatever fails on the way.
DeletionCompletes ==
    (profile # None /\ profile.deleting) ~> (profile = None)

\* Reconciling and writing status never feed each other forever.
Quiescence == <>[](pc = "idle" /\ ~queued)
=============================================================================
