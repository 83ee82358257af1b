------------------------------ MODULE Cluster ------------------------------
(***************************************************************************)
(* The Kubernetes cluster around one profile, a SysctlProfile or a         *)
(* ScriptProfile: the objects in the API server, the manager's informer    *)
(* caches and work queue, the nodes, and the controllers and kubelets that *)
(* turn a DaemonSet and a CronJob into pods.  None of this is the          *)
(* repository's code: it is modelled from what the operator and the worker *)
(* rely on.                                                                *)
(*                                                                         *)
(* Resource versions are two flags.  A write of the profile makes every    *)
(* copy of it out of date; an Update made from a copy that is out of date  *)
(* is a conflict.                                                          *)
(***************************************************************************)
EXTENDS NodeStatuses

CONSTANTS
    EnvKinds,       \* which environment moves this model allows
    MaxEnv,         \* bound on the number of environment moves
    InitLabels,     \* labels the nodes may start with
    DriftChecks,    \* whether a profile is created with a driftCheck schedule
    MaxPodsPerNode, \* bound on the pods alive on one node
    MaxTries        \* retry.DefaultRetry: attempts of one report (5)

ASSUME BoundsAssumption ==
    /\ MaxEnv \in Nat
    /\ MaxPodsPerNode \in Nat
    /\ MaxTries \in Nat \ {0}

\* What a node's labels match.  "full": the whole nodeSelector.  "labels":
\* its matchLabels but not its matchExpressions.  "other": neither.
NodeLabels == {"full", "labels", "other", "gone"}

ASSUME InitAssumption ==
    /\ InitLabels \subseteq NodeLabels
    /\ DriftChecks \subseteq BOOLEAN

VARIABLES
    profile,    \* the profile in the API server, or None
    cache,      \* the informer's copy of it
    cacheFresh, \* the informer has seen the last write
    queued,     \* the profile's key is in the work queue
    pc,         \* where the reconcile worker is
    snap,       \* the copy Reconcile works on
    snapFresh,  \* no write since that copy was read
    selected,   \* the nodes it listed
    configMap,  \* content of each ConfigMap, or None
    cronJob,    \* hash in the CronJob's pod template, or None
    daemonSet,  \* hash in the DaemonSet's pod template, or None
    rendered,   \* contents a kubelet may have a copy of
    nodes,      \* labels of each node
    nodeCache,  \* the informer's copy of the nodes
    pods,       \* worker pods
    live,       \* config in force in each node's kernel, or None
    written,    \* hashes applied without failure on each node name, ever
    reports,    \* POSTs on their way or being handled
    env,        \* environment moves made
    mishap      \* a report failed or was dropped, or took back a success

profileVars == <<profile, cache, cacheFresh>>
reconcileVars == <<pc, snap, snapFresh, selected>>
ownedVars == <<configMap, cronJob, daemonSet, rendered>>
nodeVars == <<nodes, nodeCache>>
hostVars == <<live, written>>
envVars == <<env, mishap>>
vars == <<profileVars, queued, reconcileVars, ownedVars, nodeVars, pods,
          hostVars, reports, envVars>>

SysctlProfile ==
    [spec       : Configs,  \* what spec.sysctls renders to
     driftCheck : BOOLEAN,  \* spec.schedule.driftCheck # ""
     generation : Nat,      \* counts the writes of the spec
     deleting   : BOOLEAN,
     finalizer  : BOOLEAN,
     status     : Status]

MaybeProfile == SysctlProfile \cup {None}

\* None is not a profile.
ASSUME NoProfileAssumption == None \notin SysctlProfile

\* Suffixes of the names derived from the profile's name.
resourceName == "sysctl"
cronJobName == "drift"
ConfigMapNames == {resourceName, cronJobName}

PodKind == {"applier", "drift"}
PodPC == {"creating", "load", "crashed", "apply", "sendOk", "sendFailed", "wait"}
Pod ==
    [node    : Nodes,
     id      : 1 .. MaxPodsPerNode,
     kind    : PodKind,
     hash    : Hashes,          \* CONFIG_HASH
     volume  : ConfigMapNames,  \* ConfigMap behind the config volume
     orphan  : BOOLEAN,         \* its owner is deleted
     pc      : PodPC,
     content : Configs \cup {None}]

InFlight == [node : Nodes, hash : Hashes, success : BOOLEAN, tries : 0 .. MaxTries - 1]

ReconcilePC ==
    {"idle", "addFinalizer", "cleanupDaemonSet", "cleanupCronJob",
     "cleanupConfigMap", "removeFinalizer", "configMap", "cronJob",
     "selectedNodes", "daemonSet", "status"}

----------------------------------------------------------------------------
\* The API server and the informers.

\* A write of the profile, seen by no copy yet.
WriteProfile(p) ==
    /\ profile' = p
    /\ cacheFresh' = FALSE
    /\ snapFresh' = FALSE
    /\ UNCHANGED cache

\* The server counts the writes that change the spec or start deletion.
NextGeneration(p) == [p EXCEPT !.generation = @ + 1]

\* Mutant: no optimistic concurrency, the last writer wins.
LastWriterWins(fresh) == profile # None

\* An Update from a copy is accepted only if the copy is up to date.
UpToDate(fresh) == fresh /\ profile # None

\* Owns(): an object the profile owns changed.  The event reaches the queue
\* now, or later as a Resync.
OwnedChanged == queued' \in {queued, TRUE}

\* The informer delivers the profile, and For() enqueues its key.
SyncProfile ==
    /\ ~cacheFresh
    /\ cache' = profile
    /\ cacheFresh' = TRUE
    /\ queued' = TRUE
    /\ UNCHANGED <<profile, reconcileVars, ownedVars, nodeVars, pods, hostVars,
                   reports, envVars>>

Matches(label) == label \in {"full", "labels"}
Alive(label) == label # "gone"

Orphaned(kind) ==
    {IF p.kind = kind THEN [p EXCEPT !.orphan = TRUE] ELSE p : p \in pods}

----------------------------------------------------------------------------
\* The environment: users, nodes and failures.

Env(kind) ==
    /\ kind \in EnvKinds
    /\ env < MaxEnv
    /\ env' = env + 1

CreateProfile(c, drift) ==
    /\ profile = None
    /\ Env("create")
    /\ WriteProfile([spec |-> c, driftCheck |-> drift, generation |-> 1,
                     deleting |-> FALSE, finalizer |-> FALSE, status |-> EmptyStatus])
    /\ UNCHANGED <<queued, pc, snap, selected, ownedVars, nodeVars, pods, hostVars,
                   reports, mishap>>

EditSpec(c) ==
    /\ profile # None
    /\ c # profile.spec
    /\ Env("edit")
    /\ WriteProfile(NextGeneration([profile EXCEPT !.spec = c]))
    /\ UNCHANGED <<queued, pc, snap, selected, ownedVars, nodeVars, pods, hostVars,
                   reports, mishap>>

EditSchedule ==
    /\ profile # None
    /\ Env("schedule")
    /\ WriteProfile(NextGeneration([profile EXCEPT !.driftCheck = ~ @]))
    /\ UNCHANGED <<queued, pc, snap, selected, ownedVars, nodeVars, pods, hostVars,
                   reports, mishap>>

\* With a finalizer the object only gets its deletionTimestamp.
DeleteProfile ==
    /\ profile # None
    /\ ~profile.deleting
    /\ Env("delete")
    /\ WriteProfile(IF profile.finalizer
                    THEN NextGeneration([profile EXCEPT !.deleting = TRUE])
                    ELSE None)
    /\ UNCHANGED <<queued, pc, snap, selected, ownedVars, nodeVars, pods, hostVars,
                   reports, mishap>>

\* A node joins, is relabelled or is removed; a removed node takes its pods
\* and its kernel with it.  A DaemonSet that gains or loses a node has its
\* status updated, and Owns(DaemonSet) enqueues its owner.  The informer has
\* seen a node's last change before the next one.
ChangeNode(n, kind, label) ==
    /\ nodeCache[n] = nodes[n]
    /\ label # nodes[n]
    /\ kind = IF Alive(nodes[n]) THEN IF Alive(label) THEN "relabel" ELSE "remove"
                                 ELSE "join"
    /\ Env(kind)
    /\ nodes' = [nodes EXCEPT ![n] = label]
    /\ pods' = {p \in pods : p.node = n => Alive(label)}
    /\ live' = IF Alive(label) THEN live ELSE [live EXCEPT ![n] = None]
    /\ IF daemonSet # None /\ Matches(label) # Matches(nodes[n])
       THEN OwnedChanged
       ELSE UNCHANGED queued
    /\ UNCHANGED <<profileVars, reconcileVars, ownedVars, nodeCache, written,
                   reports, mishap>>

\* A reboot, or another writer of the kernel's values: the node is no longer
\* at any config, and the containers on it start again.
LoseLiveValues(n) ==
    /\ live[n] # None
    /\ Env("reboot")
    /\ live' = [live EXCEPT ![n] = None]
    /\ pods' = {IF p.node = n /\ p.pc # "creating"
                THEN [p EXCEPT !.pc = "crashed", !.content = None]
                ELSE p : p \in pods}
    /\ UNCHANGED <<profileVars, queued, reconcileVars, ownedVars, nodeVars,
                   written, reports, mishap>>

\* The worker's container dies and is started again.
CrashContainer(p) ==
    /\ p.pc # "creating"
    /\ Env("crash")
    /\ pods' = (pods \ {p}) \cup {[p EXCEPT !.pc = "crashed", !.content = None]}
    /\ UNCHANGED <<profileVars, queued, reconcileVars, ownedVars, nodeVars,
                   hostVars, reports, mishap>>

\* A late event of an owned object, or the informers' periodic resync.
Resync ==
    /\ Env("resync")
    /\ cache # None
    /\ queued' = TRUE
    /\ UNCHANGED <<profileVars, reconcileVars, ownedVars, nodeVars, pods,
                   hostVars, reports, mishap>>

\* The manager is restarted: its queue and working copy are lost, the
\* requests it was serving fail, and the informers' first list enqueues
\* whatever exists.
RestartManager ==
    /\ Env("restart")
    /\ cache' = profile
    /\ cacheFresh' = TRUE
    /\ nodeCache' = nodes
    /\ queued' = (profile # None)
    /\ pc' = "idle"
    /\ snap' = None
    /\ snapFresh' = FALSE
    /\ selected' = {}
    /\ reports' = {}
    /\ mishap' = (mishap \/ reports # {})
    /\ UNCHANGED <<profile, ownedVars, nodes, pods, hostVars>>

\* A report is lost on the way, or the handler gets an error other than a
\* conflict and answers 500; the worker does not send it again.
LoseReport(r) ==
    /\ Env("lose")
    /\ reports' = reports \ {r}
    /\ mishap' = TRUE
    /\ UNCHANGED <<profileVars, queued, reconcileVars, ownedVars, nodeVars,
                   pods, hostVars>>

----------------------------------------------------------------------------
\* The DaemonSet and Job controllers, the garbage collector.

FreeIds(n) == {i \in 1 .. MaxPodsPerNode :
                 \A p \in pods : ~(p.node = n /\ p.id = i)}

NewPod(n, kind, hash, volume) ==
    [node |-> n, id |-> CHOOSE i \in FreeIds(n) : TRUE,
     kind |-> kind, hash |-> hash, volume |-> volume,
     orphan |-> FALSE, pc |-> "creating", content |-> None]

\* One pod per node that matches the template's nodeSelector.
SchedulePod(n) ==
    /\ daemonSet # None
    /\ Matches(nodes[n])
    /\ \A p \in pods : ~(p.node = n /\ p.kind = "applier" /\ ~p.orphan)
    /\ FreeIds(n) # {}
    /\ pods' = pods \cup {NewPod(n, "applier", daemonSet, resourceName)}
    /\ OwnedChanged
    /\ UNCHANGED <<profileVars, reconcileVars, ownedVars, nodeVars, hostVars,
                   reports, envVars>>

\* The schedule fires; ForbidConcurrent skips it while a job is running.
\* The pod's config volume is the ConfigMap named like the CronJob.
RunCronJob(n) ==
    /\ cronJob # None
    /\ Matches(nodes[n])
    /\ \A p \in pods : ~(p.kind = "drift" /\ ~p.orphan)
    /\ FreeIds(n) # {}
    /\ pods' = pods \cup {NewPod(n, "drift", cronJob, cronJobName)}
    /\ UNCHANGED <<profileVars, queued, reconcileVars, ownedVars, nodeVars,
                   hostVars, reports, envVars>>

\* Pods of a deleted owner are collected, pods of an older template are
\* replaced, pods of nodes that no longer match are evicted.
Unwanted(p) ==
    \/ p.orphan
    \/ p.kind = "applier" /\ (p.hash # daemonSet \/ ~Matches(nodes[p.node]))

KillPod(p) ==
    /\ Unwanted(p)
    /\ pods' = pods \ {p}
    /\ IF p.orphan THEN UNCHANGED queued ELSE OwnedChanged
    /\ UNCHANGED <<profileVars, reconcileVars, ownedVars, nodeVars, hostVars,
                   reports, envVars>>

\* The kubelet starts the container once its ConfigMap volume can be mounted.
StartContainer(p) ==
    /\ p.pc = "creating"
    /\ configMap[p.volume] # None
    /\ pods' = (pods \ {p}) \cup {[p EXCEPT !.pc = "load"]}
    /\ UNCHANGED <<profileVars, queued, reconcileVars, ownedVars, nodeVars,
                   hostVars, reports, envVars>>
=============================================================================
