----------------------- MODULE ScriptProfileController -----------------------
(***************************************************************************)
(* ScriptProfileReconciler.  Its Reconcile has the skeleton of the other   *)
(* controller's, without a CronJob: the steps that are the same code again *)
(* are taken from there, the others are spelt out.  The profile's spec is  *)
(* its list of scripts; ConfigMap and DaemonSet share one name.            *)
(***************************************************************************)
EXTENDS SysctlProfileController, ScriptBlocks

scriptResourceName == resourceName

scriptAllNodesApplied(st, names, hash) == allNodesApplied(st, names, hash)

scriptSelectedNodeNames == selectedNodeNames

\* Mutant: a DaemonSet that is there is left as it is.
ensureScriptDaemonSetOnce(hash) ==
    ensureDaemonSet(IF daemonSet = None THEN hash ELSE daemonSet)

\* The pod template sets MODE=script and takes only the matchLabels of the
\* selector.
ensureScriptDaemonSet(hash) == ensureDaemonSet(hash)

deleteScriptDaemonSet == deleteDaemonSet

\* Mutant: the finalizer is dropped before the ConfigMap is deleted.
afterCleanupScriptShort(step) == "removeFinalizer"

\* The order of cleanupScript.
afterCleanupScript(step) ==
    IF step = "cleanupDaemonSet" THEN "cleanupConfigMap" ELSE "removeFinalizer"

\* Get, deletion and the finalizer.
ScriptReconcileStart == ReconcileStart

CleanupScriptDaemonSet ==
    /\ pc = "cleanupDaemonSet"
    /\ deleteScriptDaemonSet
    /\ Goto(afterCleanupScript(pc))
    /\ UNCHANGED <<profileVars, configMap, cronJob, rendered, nodeVars,
                   hostVars, reports, envVars>>

CleanupScriptConfigMap ==
    /\ pc = "cleanupConfigMap"
    /\ configMap' = [configMap EXCEPT ![scriptResourceName] = None]
    /\ IF configMap[scriptResourceName] # None THEN OwnedChanged ELSE UNCHANGED queued
    /\ Goto(afterCleanupScript(pc))
    /\ UNCHANGED <<profileVars, cronJob, daemonSet, rendered, nodeVars, pods,
                   hostVars, reports, envVars>>

EnsureScriptConfigMap ==
    /\ pc = "configMap"
    /\ LET content == renderScripts(snap.spec) IN
       /\ configMap' = [configMap EXCEPT ![scriptResourceName] = content]
       /\ rendered' = rendered \cup {content}
       /\ IF configMap[scriptResourceName] # content
          THEN OwnedChanged
          ELSE UNCHANGED queued
    /\ Goto("selectedNodes")
    /\ UNCHANGED <<profileVars, cronJob, daemonSet, nodeVars, pods, hostVars,
                   reports, envVars>>

SelectScriptNodes ==
    /\ pc = "selectedNodes"
    /\ selected' = scriptSelectedNodeNames
    /\ pc' = "daemonSet"
    /\ UNCHANGED <<profileVars, queued, snap, snapFresh, ownedVars, nodeVars,
                   pods, hostVars, reports, envVars>>

\* Roll out or tear down.
ReconcileScriptDaemonSet ==
    /\ pc = "daemonSet"
    /\ LET hash     == hashContent(renderScripts(snap.spec))
           complete == scriptAllNodesApplied(snap.status, selected, hash)
           status   == newStatus(snap.status, snap.generation, hash, complete)
       IN  /\ IF complete THEN deleteScriptDaemonSet ELSE ensureScriptDaemonSet(hash)
           /\ IF statusChanged(snap.status, status)
              THEN /\ pc' = "status"
                   /\ snap' = [snap EXCEPT !.status = status]
                   /\ UNCHANGED <<snapFresh, selected>>
              ELSE Done
    /\ UNCHANGED <<profileVars, configMap, cronJob, rendered, nodeVars,
                   hostVars, reports, envVars>>

ScriptReconcileStep ==
    \/ ScriptReconcileStart
    \/ AddFinalizer
    \/ CleanupScriptDaemonSet
    \/ CleanupScriptConfigMap
    \/ RemoveFinalizer
    \/ EnsureScriptConfigMap
    \/ SelectScriptNodes
    \/ ReconcileScriptDaemonSet
    \/ UpdateStatus
=============================================================================
