----------------------- MODULE SysctlProfileController -----------------------
(***************************************************************************)
(* SysctlProfileReconciler: the events that enqueue a profile and the      *)
(* steps of Reconcile.  One step is one call to the API server; between    *)
(* two steps anything else may happen.  controller-runtime runs at most    *)
(* one Reconcile per key at a time and only on the elected leader, so      *)
(* there is one pc.  A call that fails ends Reconcile and requeues the     *)
(* key; what it has done so far stays done.                                *)
(***************************************************************************)
EXTENDS Cluster

\* Return, with or without an error.
Done ==
    /\ pc' = "idle"
    /\ snap' = None
    /\ snapFresh' = FALSE
    /\ selected' = {}

\* Mutant: an error is swallowed.
FailSilently == Done /\ UNCHANGED queued

\* An error requeues the key.
Fail == Done /\ queued' = TRUE

Goto(step) ==
    /\ pc' = step
    /\ UNCHANGED <<snap, snapFresh, selected>>

----------------------------------------------------------------------------
\* Events.

\* Mutant: only what a node looks like now is mapped to profiles.
nodeEventNewOnly(old, new) == Alive(new) /\ new = "full"

\* nodeLabelChanged lets creations and label changes through and drops
\* deletions; profilesForNode maps the old and the new object of an event to
\* the profiles whose whole selector matches it.
nodeEvent(old, new) == Alive(new) /\ "full" \in {old, new}

\* The informer delivers a change of node n.
NodeCacheSync(n) ==
    /\ nodeCache[n] # nodes[n]
    /\ nodeCache' = [nodeCache EXCEPT ![n] = nodes[n]]
    /\ queued' = (queued \/ (cache # None /\ nodeEvent(nodeCache[n], nodes[n])))
    /\ UNCHANGED <<profileVars, reconcileVars, ownedVars, nodes, pods, hostVars,
                   reports, envVars>>

----------------------------------------------------------------------------
\* Reconcile.

\* Mutant: the ConfigMap is deleted before the DaemonSet that mounts it.
afterCleanupConfigMapFirst(step) ==
    CASE step = "start"            -> "cleanupConfigMap"
      [] step = "cleanupConfigMap" -> "cleanupDaemonSet"
      [] step = "cleanupDaemonSet" -> "cleanupCronJob"
      [] step = "cleanupCronJob"   -> "removeFinalizer"

\* The order of cleanup.
afterCleanup(step) ==
    CASE step = "start"            -> "cleanupDaemonSet"
      [] step = "cleanupDaemonSet" -> "cleanupCronJob"
      [] step = "cleanupCronJob"   -> "cleanupConfigMap"
      [] step = "cleanupConfigMap" -> "removeFinalizer"

\* Mutant: resources are created before the finalizer is there.
entryPointNoFinalizer(p) ==
    IF p.deleting THEN afterCleanup("start") ELSE "configMap"

entryPoint(p) ==
    IF p.deleting THEN afterCleanup("start")
    ELSE IF ~p.finalizer THEN "addFinalizer"
    ELSE "configMap"

\* Get, from the cache.  Nothing is left to do for a profile that is gone or
\* whose finalizer is.
ReconcileStart ==
    /\ pc = "idle"
    /\ queued
    /\ queued' = FALSE
    /\ IF cache = None \/ (cache.deleting /\ ~cache.finalizer)
       THEN UNCHANGED reconcileVars
       ELSE /\ pc' = entryPoint(cache)
            /\ snap' = cache
            /\ snapFresh' = cacheFresh
            /\ UNCHANGED selected
    /\ UNCHANGED <<profileVars, ownedVars, nodeVars, pods, hostVars, reports,
                   envVars>>

\* Any call to the API server may fail.
ReconcileError ==
    /\ pc # "idle"
    /\ Env("error")
    /\ Fail
    /\ UNCHANGED <<profileVars, ownedVars, nodeVars, pods, hostVars, reports,
                   mishap>>

\* The last call of a Reconcile is an Update of the profile.
UpdateProfile(p) ==
    /\ IF UpToDate(snapFresh)
       THEN /\ profile' = p
            /\ cacheFresh' = FALSE
            /\ Done
            /\ UNCHANGED <<cache, queued>>
       ELSE /\ Fail
            /\ UNCHANGED profileVars
    /\ UNCHANGED <<ownedVars, nodeVars, pods, hostVars, reports, envVars>>

AddFinalizer ==
    /\ pc = "addFinalizer"
    /\ UpdateProfile([snap EXCEPT !.finalizer = TRUE])

\* Without its last finalizer an object being deleted is gone.
RemoveFinalizer ==
    /\ pc = "removeFinalizer"
    /\ UpdateProfile(None)

UpdateStatus ==
    /\ pc = "status"
    /\ UpdateProfile([profile EXCEPT !.status = snap.status])

\* Deleting an object orphans its pods; the garbage collector removes them
\* later.
deleteDaemonSet ==
    /\ daemonSet' = None
    /\ pods' = IF daemonSet # None THEN Orphaned("applier") ELSE pods
    /\ IF daemonSet # None THEN OwnedChanged ELSE UNCHANGED queued

ensureDaemonSet(hash) ==
    /\ daemonSet' = hash
    /\ IF daemonSet # hash THEN OwnedChanged ELSE UNCHANGED queued
    /\ UNCHANGED pods

ensureNoCronJob ==
    /\ cronJob' = None
    /\ pods' = IF cronJob # None THEN Orphaned("drift") ELSE pods
    /\ IF cronJob # None THEN OwnedChanged ELSE UNCHANGED queued

ensureCronJob(hash) ==
    /\ cronJob' = hash
    /\ IF cronJob # hash THEN OwnedChanged ELSE UNCHANGED queued
    /\ UNCHANGED pods

CleanupDaemonSet ==
    /\ pc = "cleanupDaemonSet"
    /\ deleteDaemonSet
    /\ Goto(afterCleanup(pc))
    /\ UNCHANGED <<profileVars, configMap, cronJob, rendered, nodeVars,
                   hostVars, reports, envVars>>

CleanupCronJob ==
    /\ pc = "cleanupCronJob"
    /\ ensureNoCronJob
    /\ Goto(afterCleanup(pc))
    /\ UNCHANGED <<profileVars, configMap, daemonSet, rendered, nodeVars,
                   hostVars, reports, envVars>>

CleanupConfigMap ==
    /\ pc = "cleanupConfigMap"
    /\ configMap' = [configMap EXCEPT ![resourceName] = None]
    /\ IF configMap[resourceName] # None THEN OwnedChanged ELSE UNCHANGED queued
    /\ Goto(afterCleanup(pc))
    /\ UNCHANGED <<profileVars, cronJob, daemonSet, rendered, nodeVars, pods,
                   hostVars, reports, envVars>>

\* The spec of the working copy never changes, so content and hash are
\* recomputed where they are used.  A content stands for the list of names and
\* values; that a line of the file is read back as the entry it was made from
\* is not modelled here.
renderSysctlConf(p) == p.spec

EnsureConfigMap ==
    /\ pc = "configMap"
    /\ LET content == renderSysctlConf(snap) IN
       /\ configMap' = [configMap EXCEPT ![resourceName] = content]
       /\ rendered' = rendered \cup {content}
       /\ IF configMap[resourceName] # content
          THEN OwnedChanged
          ELSE UNCHANGED queued
    /\ Goto("cronJob")
    /\ UNCHANGED <<profileVars, cronJob, daemonSet, nodeVars, pods, hostVars,
                   reports, envVars>>

ReconcileCronJob ==
    /\ pc = "cronJob"
    /\ IF snap.driftCheck
       THEN ensureCronJob(hashContent(renderSysctlConf(snap)))
       ELSE ensureNoCronJob
    /\ Goto("selectedNodes")
    /\ UNCHANGED <<profileVars, configMap, daemonSet, rendered, nodeVars,
                   hostVars, reports, envVars>>

selectedNodeNames == {n \in Nodes : nodeCache[n] = "full"}

SelectNodes ==
    /\ pc = "selectedNodes"
    /\ selected' = selectedNodeNames
    /\ pc' = "daemonSet"
    /\ UNCHANGED <<profileVars, queued, snap, snapFresh, ownedVars, nodeVars,
                   pods, hostVars, reports, envVars>>

\* The status Reconcile wants to see.
newStatus(st, generation, hash, complete) ==
    [st EXCEPT !.teardownHash = IF complete THEN hash ELSE @,
               !.ready        = IF complete THEN "RolloutComplete" ELSE "RollingOut",
               !.readyGeneration = generation,
               !.observedHash = hash,
               !.desiredNodes = Cardinality(selected)]

\* Mutant: the status is written back whether or not it changed.
alwaysChanged(old, new) == TRUE

statusChanged(old, new) == old # new

\* Roll out or tear down.
ReconcileDaemonSet ==
    /\ pc = "daemonSet"
    /\ LET hash     == hashContent(renderSysctlConf(snap))
           complete == allNodesApplied(snap.status, selected, hash)
           status   == newStatus(snap.status, snap.generation, hash, complete)
       IN  /\ IF complete THEN deleteDaemonSet ELSE ensureDaemonSet(hash)
           /\ IF statusChanged(snap.status, status)
              THEN /\ pc' = "status"
                   /\ snap' = [snap EXCEPT !.status = status]
                   /\ UNCHANGED <<snapFresh, selected>>
              ELSE Done
    /\ UNCHANGED <<profileVars, configMap, cronJob, rendered, nodeVars,
                   hostVars, reports, envVars>>

ReconcileStep ==
    \/ ReconcileStart
    \/ AddFinalizer
    \/ CleanupDaemonSet
    \/ CleanupCronJob
    \/ CleanupConfigMap
    \/ RemoveFinalizer
    \/ EnsureConfigMap
    \/ ReconcileCronJob
    \/ SelectNodes
    \/ ReconcileDaemonSet
    \/ UpdateStatus
=============================================================================
