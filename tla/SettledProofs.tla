---------------------------- MODULE SettledProofs ----------------------------
(***************************************************************************)
(* Proof that a manager at rest has done what the profile says, for every  *)
(* cluster whose nodes are not removed.  (The predicate drops the event of *)
(* a removed node, so the nodes counted may be stale after one.)           *)
(*                                                                         *)
(* The invariant follows Reconcile: unless the manager is going to look    *)
(* again, what it has done so far is right for the profile as it is.       *)
(***************************************************************************)
EXTENDS SysctlOperatorProofs

\* Reconcile will run (again): the key is queued, or the informer will queue it.
LooksAgain == queued \/ ~cacheFresh

WantedCronJob == IF profile.driftCheck THEN hashContent(renderSysctlConf(profile)) ELSE None

\* MatchesSpec, for the nodes the manager has seen.
MatchesSeen ==
    LET p        == profile
        hash     == hashContent(renderSysctlConf(p))
        complete == allNodesApplied(p.status, selectedNodeNames, hash)
    IN  /\ p.finalizer
        /\ ~p.deleting
        /\ configMap[resourceName] = renderSysctlConf(p)
        /\ cronJob = WantedCronJob
        /\ daemonSet = IF complete THEN None ELSE hash
        /\ p.status.observedHash = hash
        /\ p.status.desiredNodes = Cardinality(selectedNodeNames)
        /\ p.status.readyGeneration = p.generation
        /\ p.status.ready = IF complete THEN "RolloutComplete" ELSE "RollingOut"

\* Work on an outdated copy is done again.
StaleIsRedone == pc # "idle" /\ ~snapFresh => LooksAgain

\* A profile without its finalizer is deleted at once.
DeletingHasFinalizer == profile # None /\ profile.deleting => profile.finalizer

\* No node is removed.
NoneRemoved == \A n \in Nodes : nodes[n] = "gone" => nodeCache[n] = "gone"

\* Creation in progress, and the end of it.
DoneSoFar ==
    profile # None /\ ~LooksAgain =>
        /\ pc \in Creating => profile.finalizer /\ ~profile.deleting
        /\ pc \in {"cronJob", "selectedNodes", "daemonSet"} =>
              configMap[resourceName] = renderSysctlConf(profile)
        /\ pc \in {"selectedNodes", "daemonSet"} => cronJob = WantedCronJob
        /\ pc = "daemonSet" => selected = selectedNodeNames
        /\ pc = "idle" => MatchesSeen

RestInv ==
    /\ StaleIsRedone
    /\ DeletingHasFinalizer
    /\ NoneRemoved
    /\ DoneSoFar

----------------------------------------------------------------------------
\* Steps that leave the profile, its copies and the owned objects alone queue
\* the key, if they touch the queue at all.
LEMMA QuietFrame ==
    ASSUME TypeOK, [Next]_vars
    PROVE  \/ /\ UNCHANGED <<profileVars, reconcileVars, ownedVars, nodeCache>>
              /\ ~queued' => ~queued
           \/ \E n \in Nodes : NodeCacheSync(n)
           \/ UserNext
           \/ SyncProfile
           \/ ReconcileStep
           \/ RestartManager
           \/ ReconcileError
           \/ \E r \in reports : RecordReport(r)
<1>0. queued \in BOOLEAN
  BY DEF TypeOK, ReconcileTypeOK
<1>1. CASE UNCHANGED vars
  BY <1>1 DEF vars, nodeVars
<1>2. CASE FailureNext
  <2>1. ASSUME NEW n \in Nodes, NEW kind, NEW label, ChangeNode(n, kind, label)
        PROVE  /\ UNCHANGED <<profileVars, reconcileVars, ownedVars, nodeCache>>
               /\ ~queued' => ~queued
    BY <1>0, <2>1 DEF ChangeNode, OwnedChanged
  <2>2. CASE \/ \E n \in Nodes : LoseLiveValues(n)
             \/ \E p \in pods : CrashContainer(p)
             \/ \E r \in reports : LoseReport(r)
             \/ Resync
    BY <2>2 DEF LoseLiveValues, CrashContainer, LoseReport, Resync, nodeVars
  <2> QED BY <1>2, <2>1, <2>2 DEF FailureNext
<1>3. CASE ClusterNext
  BY <1>0, <1>3 DEF ClusterNext, SchedulePod, RunCronJob, KillPod, StartContainer, OwnedChanged,
                    nodeVars
<1>4. CASE ManagerNext
  BY <1>4 DEF ManagerNext, applyReport, IgnoreReport, ConflictOnReport, nodeVars
<1>5. CASE \E p \in pods : WorkerNext(p)
  BY <1>5 DEF WorkerNext, Load, LoadRefused, Apply, ApplyFails, sendReport, nodeVars
<1> QED BY <1>1, <1>2, <1>3, <1>4, <1>5 DEF Next

----------------------------------------------------------------------------
\* The nodes.

LEMMA NodesStep ==
    ASSUME "remove" \notin EnvKinds, TypeOK, NoneRemoved, [Next]_vars
    PROVE  NoneRemoved'
<1>0. nodes \in [Nodes -> NodeLabels] /\ nodeCache \in [Nodes -> NodeLabels]
  BY DEF TypeOK, NodesTypeOK
<1>1. CASE UNCHANGED <<nodes, nodeCache>>
  BY <1>1 DEF NoneRemoved
<1>2. ASSUME NEW n \in Nodes, NEW kind, NEW label, ChangeNode(n, kind, label)
      PROVE  NoneRemoved'
  <2>1. nodes[n] # "gone" => label # "gone"
    BY <1>2 DEF ChangeNode, Env, Alive
  <2>2. nodes' = [nodes EXCEPT ![n] = label] /\ nodeCache' = nodeCache /\ label # nodes[n]
    BY <1>2 DEF ChangeNode
  <2> QED BY <1>0, <2>1, <2>2 DEF NoneRemoved
<1>3. ASSUME NEW n \in Nodes, NodeCacheSync(n) PROVE NoneRemoved'
  BY <1>0, <1>3 DEF NodeCacheSync, NoneRemoved
<1>4. CASE RestartManager
  BY <1>4 DEF RestartManager, NoneRemoved
<1>5. CASE UserNext
  BY <1>1, <1>5 DEF UserNext, CreateProfile, EditSpec, EditSchedule, DeleteProfile, nodeVars
<1>6. CASE ReconcileStep
  BY <1>1, <1>6 DEF ReconcileStep, ReconcileStart, AddFinalizer, RemoveFinalizer, UpdateStatus,
         UpdateProfile, CleanupDaemonSet, CleanupCronJob, CleanupConfigMap, EnsureConfigMap,
         ReconcileCronJob, SelectNodes, ReconcileDaemonSet, nodeVars
<1>7. CASE SyncProfile \/ ReconcileError \/ \E r \in reports : applyReport(r)
  BY <1>1, <1>7 DEF SyncProfile, ReconcileError, applyReport, IgnoreReport, RecordReport,
         RecordStatus, ConflictOnReport, nodeVars
<1>8. CASE ClusterNext
  BY <1>1, <1>8 DEF ClusterNext, SchedulePod, RunCronJob, KillPod, StartContainer, nodeVars
<1>9. CASE \E p \in pods : WorkerNext(p)
  BY <1>1, <1>9 DEF WorkerNext, Load, LoadRefused, Apply, ApplyFails, sendReport, nodeVars
<1>10. CASE FailureNext
  BY <1>1, <1>2, <1>4, <1>7, <1>10
     DEF FailureNext, LoseLiveValues, CrashContainer, LoseReport, Resync, nodeVars
<1>11. CASE UNCHANGED vars
  BY <1>1, <1>11 DEF vars, nodeVars
<1> QED BY <1>3, <1>5, <1>6, <1>7, <1>8, <1>9, <1>10, <1>11 DEF Next, ManagerNext

\* A change of a node that queues nothing leaves the selected nodes as they are.
LEMMA NodeCacheSyncSelects ==
    ASSUME NodesTypeOK, queued \in BOOLEAN, NoneRemoved, NEW n \in Nodes, NodeCacheSync(n)
    PROVE  /\ UNCHANGED <<profileVars, reconcileVars, ownedVars>>
           /\ ~queued' => ~queued
           /\ ~queued' /\ cache # None => selectedNodeNames' = selectedNodeNames
<1>0. nodes \in [Nodes -> NodeLabels] /\ nodeCache \in [Nodes -> NodeLabels]
  BY DEF NodesTypeOK
<1>1. /\ nodeCache' = [nodeCache EXCEPT ![n] = nodes[n]]
      /\ queued' = (queued \/ (cache # None /\ nodeEvent(nodeCache[n], nodes[n])))
      /\ UNCHANGED <<profileVars, reconcileVars, ownedVars>>
      /\ nodeCache[n] # nodes[n]
  BY DEF NodeCacheSync
<1>2. ~queued' => ~queued /\ ~(cache # None /\ nodeEvent(nodeCache[n], nodes[n]))
  BY <1>1, Zenon
<1>3. nodes[n] # "gone"
  BY <1>1 DEF NoneRemoved
<1>4. ~nodeEvent(nodeCache[n], nodes[n]) => nodeCache[n] # "full" /\ nodes[n] # "full"
  BY <1>3 DEF nodeEvent, Alive
<1>5. nodeCache[n] # "full" /\ nodes[n] # "full" => selectedNodeNames' = selectedNodeNames
  BY <1>0, <1>1 DEF selectedNodeNames
<1> QED BY <1>1, <1>2, <1>4, <1>5

----------------------------------------------------------------------------
\* Deletion.

LEMMA DeletingStep ==
    ASSUME TypeOK, DeletingHasFinalizer, [Next]_vars
    PROVE  DeletingHasFinalizer'
<1>0. /\ profile # None => profile \in SysctlProfile
      /\ cache # None => cache \in SysctlProfile
      /\ pc # "idle" => snap \in SysctlProfile
  BY DEF TypeOK, ProfileTypeOK, ReconcileTypeOK, MaybeProfile
<1>1. CASE UNCHANGED profile
  BY <1>1 DEF DeletingHasFinalizer
<1>2. CASE UserNext
  <2>1. ASSUME NEW c \in Configs, NEW drift \in DriftChecks, CreateProfile(c, drift)
        PROVE  DeletingHasFinalizer'
    BY <2>1 DEF CreateProfile, WriteProfile, DeletingHasFinalizer
  <2>2. ASSUME NEW p \in SysctlProfile, profile # None,
               p.finalizer = profile.finalizer, p.deleting = profile.deleting,
               WriteProfile(NextGeneration(p))
        PROVE  DeletingHasFinalizer'
    BY <2>2 DEF WriteProfile, NextGeneration, SysctlProfile, DeletingHasFinalizer
  <2>3. ASSUME NEW c \in Configs, EditSpec(c) PROVE DeletingHasFinalizer'
    BY <1>0, <2>2, <2>3 DEF EditSpec, SysctlProfile
  <2>4. CASE EditSchedule
    BY <1>0, <2>2, <2>4 DEF EditSchedule, SysctlProfile
  <2>5. CASE DeleteProfile
    <3>1. CASE ~profile.finalizer
      BY <2>5, <3>1 DEF DeleteProfile, WriteProfile, DeletingHasFinalizer
    <3>2. CASE profile.finalizer
      <4>1. profile' = NextGeneration([profile EXCEPT !.deleting = TRUE])
        BY <2>5, <3>2 DEF DeleteProfile, WriteProfile
      <4>2. profile \in SysctlProfile
        BY <1>0, <2>5 DEF DeleteProfile
      <4>3. profile'.finalizer = profile.finalizer
        BY <4>1, <4>2 DEF NextGeneration, SysctlProfile
      <4> QED BY <3>2, <4>3 DEF DeletingHasFinalizer
    <3> QED BY <3>1, <3>2
  <2> QED BY <1>2, <2>1, <2>3, <2>4, <2>5 DEF UserNext
<1>3. ASSUME NEW r \in reports, RecordReport(r) PROVE DeletingHasFinalizer'
  <2>1. profile \in SysctlProfile /\ profile # None
    BY <1>0, <1>3 DEF RecordReport, RecordStatus, UpToDate
  <2>2. \E st : profile' = [profile EXCEPT !.status = st]
    BY <1>3 DEF RecordReport, RecordStatus, WriteProfile
  <2> QED BY <2>1, <2>2 DEF SysctlProfile, DeletingHasFinalizer
<1>4. CASE AddFinalizer
  <2>1. profile' = profile \/ profile' = [snap EXCEPT !.finalizer = TRUE]
    BY <1>4 DEF AddFinalizer, UpdateProfile, profileVars
  <2>2. snap \in SysctlProfile
    BY <1>0, <1>4 DEF AddFinalizer
  <2> QED BY <1>1, <2>1, <2>2 DEF SysctlProfile, DeletingHasFinalizer
<1>5. CASE RemoveFinalizer
  <2>1. profile' = profile \/ profile' = None
    BY <1>5 DEF RemoveFinalizer, UpdateProfile, profileVars
  <2> QED BY <1>1, <2>1 DEF DeletingHasFinalizer
<1>6. CASE UpdateStatus
  <2>1. profile' = profile \/ (profile # None /\ profile' = [profile EXCEPT !.status = snap.status])
    BY <1>6 DEF UpdateStatus, UpdateProfile, UpToDate, profileVars
  <2> QED BY <1>0, <1>1, <2>1 DEF SysctlProfile, DeletingHasFinalizer
<1>7. CASE ReconcileStep
  BY <1>1, <1>4, <1>5, <1>6, <1>7
     DEF ReconcileStep, ReconcileStart, CleanupDaemonSet, CleanupCronJob, CleanupConfigMap,
         EnsureConfigMap, ReconcileCronJob, SelectNodes, ReconcileDaemonSet, profileVars
<1>8. CASE SyncProfile \/ RestartManager \/ ReconcileError
  BY <1>1, <1>8 DEF SyncProfile, RestartManager, ReconcileError, profileVars
<1> QED BY <1>1, <1>2, <1>3, <1>7, <1>8, ManagerFrame DEF profileVars

----------------------------------------------------------------------------
\* Copies.

\* The last Update of a Reconcile, accepted or not, makes the manager look again.
LEMMA UpdateLooksAgain ==
    ASSUME NEW p, UpdateProfile(p)
    PROVE  LooksAgain' /\ pc' = "idle"
BY DEF UpdateProfile, LooksAgain, Done, Fail

\* The steps of Reconcile before its last two.
Working == CleanupDaemonSet \/ CleanupCronJob \/ CleanupConfigMap
           \/ EnsureConfigMap \/ ReconcileCronJob \/ SelectNodes

LEMMA WorkingFrame ==
    ASSUME TypeOK, Working
    PROVE  /\ UNCHANGED <<profileVars, snap, snapFresh, nodeCache>>
           /\ ~queued' => ~queued
           /\ pc # "idle" /\ pc' # "idle"
<1>0. queued \in BOOLEAN
  BY DEF TypeOK, ReconcileTypeOK
<1>1. UNCHANGED <<profileVars, snap, snapFresh, nodeCache>>
  BY DEF Working, CleanupDaemonSet, CleanupCronJob, CleanupConfigMap, EnsureConfigMap,
         ReconcileCronJob, SelectNodes, Goto, nodeVars
<1>2. pc # "idle" /\ pc' # "idle"
  BY DEF Working, CleanupDaemonSet, CleanupCronJob, CleanupConfigMap, EnsureConfigMap,
         ReconcileCronJob, SelectNodes, Goto, afterCleanup
<1>3. ~queued' => ~queued
  BY <1>0 DEF Working, CleanupDaemonSet, CleanupCronJob, CleanupConfigMap, EnsureConfigMap,
         ReconcileCronJob, SelectNodes, deleteDaemonSet, ensureCronJob, ensureNoCronJob,
         OwnedChanged
<1> QED BY <1>1, <1>2, <1>3

LEMMA StaleStep ==
    ASSUME TypeOK, StaleIsRedone, [Next]_vars
    PROVE  StaleIsRedone'
<1>0. queued \in BOOLEAN
  BY DEF TypeOK, ReconcileTypeOK
<1>1. ASSUME UNCHANGED <<pc, snapFresh, cacheFresh>>, ~queued' => ~queued
      PROVE  StaleIsRedone'
  BY <1>1 DEF StaleIsRedone, LooksAgain
<1>2. CASE LooksAgain' \/ pc' = "idle"
  BY <1>2 DEF StaleIsRedone
<1>3. CASE \E n \in Nodes : NodeCacheSync(n)
  <2>1. ~queued' => ~queued
    BY <1>3, Zenon DEF NodeCacheSync
  <2> QED BY <1>1, <1>3, <2>1 DEF NodeCacheSync, profileVars, reconcileVars
<1>4. CASE UserNext
  BY <1>2, <1>4, UserFrame DEF LooksAgain
<1>5. CASE SyncProfile \/ RestartManager \/ ReconcileError
  BY <1>2, <1>5 DEF SyncProfile, RestartManager, ReconcileError, Fail, Done, LooksAgain
<1>6. ASSUME NEW r \in reports, RecordReport(r) PROVE StaleIsRedone'
  BY <1>2, <1>6 DEF RecordReport, RecordStatus, WriteProfile, LooksAgain
<1>7. CASE ReconcileStep
  <2>1. CASE ReconcileStart
    <3>1. pc' = "idle" \/ (snapFresh' = cacheFresh /\ cacheFresh' = cacheFresh)
      BY <2>1 DEF ReconcileStart, reconcileVars, profileVars
    <3> QED BY <3>1 DEF StaleIsRedone, LooksAgain
  <2>2. CASE AddFinalizer \/ RemoveFinalizer \/ UpdateStatus
    BY <1>2, <2>2, UpdateLooksAgain DEF AddFinalizer, RemoveFinalizer, UpdateStatus
  <2>3. CASE Working
    BY <2>3, WorkingFrame DEF StaleIsRedone, LooksAgain, profileVars
  <2>4. CASE ReconcileDaemonSet
    <3>1. pc = "daemonSet" /\ cacheFresh' = cacheFresh /\ (pc' = "idle" \/ snapFresh' = snapFresh)
      BY <2>4 DEF ReconcileDaemonSet, Done, profileVars
    <3>2. ~queued' => ~queued
      BY <1>0, <2>4 DEF ReconcileDaemonSet, deleteDaemonSet, ensureDaemonSet, OwnedChanged
    <3> QED BY <3>1, <3>2 DEF StaleIsRedone, LooksAgain
  <2> QED BY <1>7, <2>1, <2>2, <2>3, <2>4 DEF ReconcileStep, Working
<1> QED BY <1>1, <1>3, <1>4, <1>5, <1>6, <1>7, QuietFrame DEF profileVars, reconcileVars

----------------------------------------------------------------------------
\* What Reconcile has done so far.

\* Under the invariant, a Reconcile that nothing will follow works on the
\* profile as it is.
LEMMA WorksOnProfile ==
    ASSUME TypeOK, CopyInv, StaleIsRedone, ~LooksAgain, pc \notin {"idle", "status"}
    PROVE  snap = profile /\ cache = profile /\ profile \in SysctlProfile
BY DEF TypeOK, ReconcileTypeOK, MaybeProfile, CopyInv, StaleIsRedone, LooksAgain

\* The status Reconcile wants to see says what it did.
LEMMA NewStatusSays ==
    ASSUME NEW st \in Status, NEW generation, NEW hash, NEW complete \in BOOLEAN
    PROVE  LET new == newStatus(st, generation, hash, complete)
           IN  /\ new.observedHash = hash
               /\ new.desiredNodes = Cardinality(selected)
               /\ new.readyGeneration = generation
               /\ new.ready = IF complete THEN "RolloutComplete" ELSE "RollingOut"
BY DEF newStatus, Status

LEMMA DoneStep ==
    ASSUME ControllerInv, RestInv, [Next]_vars
    PROVE  DoneSoFar'
<1>0. /\ TypeOK /\ CopyInv /\ FinalizerInv
      /\ StaleIsRedone /\ DeletingHasFinalizer /\ NoneRemoved /\ DoneSoFar
      /\ queued \in BOOLEAN
      /\ configMap \in [ConfigMapNames -> Configs \cup {None}]
      /\ resourceName \in ConfigMapNames
      /\ cache # None => cache \in SysctlProfile
  BY DEF ControllerInv, RestInv, TypeOK, ReconcileTypeOK, OwnedTypeOK, ConfigMapNames,
         ProfileTypeOK, MaybeProfile
<1> USE DEF Creating
\* Nothing is claimed when the manager will look again.
<1>1. CASE LooksAgain' \/ profile' = None
  BY <1>1 DEF DoneSoFar
\* A step that touches nothing of it.
<1>2. ASSUME UNCHANGED <<profile, cacheFresh, reconcileVars, ownedVars>>, ~queued' => ~queued,
             ~LooksAgain' /\ profile # None => selectedNodeNames' = selectedNodeNames
      PROVE  DoneSoFar'
  <2>1. SUFFICES ASSUME profile # None, ~LooksAgain' PROVE DoneSoFar'
    BY <1>1, <1>2
  <2>2. ~LooksAgain
    BY <1>2, <2>1 DEF LooksAgain
  <2>3. selectedNodeNames' = selectedNodeNames
    BY <1>2, <2>1
  <2>4. MatchesSeen => MatchesSeen'
    <3> DEFINE names == selectedNodeNames
    <3> HIDE DEF names
    <3>1. names' = names
      BY <2>3 DEF names
    <3> QED BY <1>2, <3>1 DEF MatchesSeen, WantedCronJob, renderSysctlConf, ownedVars, names
  <2> QED BY <1>0, <1>2, <2>1, <2>2, <2>3, <2>4
          DEF DoneSoFar, WantedCronJob, renderSysctlConf, reconcileVars, ownedVars
<1>3. CASE UNCHANGED <<profileVars, reconcileVars, ownedVars, nodeCache>> /\ (~queued' => ~queued)
  <2>1. selectedNodeNames' = selectedNodeNames
    BY <1>3 DEF selectedNodeNames
  <2> QED BY <1>2, <1>3, <2>1 DEF profileVars
<1>4. ASSUME NEW n \in Nodes, NodeCacheSync(n) PROVE DoneSoFar'
  <2>1. /\ UNCHANGED <<profileVars, reconcileVars, ownedVars>>
        /\ ~queued' => ~queued
        /\ ~queued' /\ cache # None => selectedNodeNames' = selectedNodeNames
    BY <1>0, <1>4, NodeCacheSyncSelects DEF TypeOK
  <2>2. ~LooksAgain' /\ profile # None => ~queued' /\ cache # None
    BY <1>0, <2>1 DEF LooksAgain, CopyInv, profileVars
  <2> QED BY <1>2, <2>1, <2>2 DEF profileVars
<1>5. CASE UserNext
  BY <1>1, <1>5, UserFrame DEF LooksAgain
<1>6. CASE SyncProfile \/ RestartManager \/ ReconcileError
  BY <1>1, <1>6 DEF SyncProfile, RestartManager, ReconcileError, Fail, LooksAgain
<1>7. ASSUME NEW r \in reports, RecordReport(r) PROVE DoneSoFar'
  BY <1>1, <1>7 DEF RecordReport, RecordStatus, WriteProfile, LooksAgain
<1>8. CASE ReconcileStart
  <2>1. SUFFICES ASSUME profile' # None, ~LooksAgain' PROVE DoneSoFar'
    BY <1>1
  <2>2. UNCHANGED <<profile, cache, cacheFresh>>
    BY <1>8 DEF ReconcileStart, profileVars
  <2>3. cache = profile /\ profile \in SysctlProfile
    BY <1>0, <2>1, <2>2 DEF LooksAgain, CopyInv, TypeOK, ProfileTypeOK, MaybeProfile
  <2>4. pc' = entryPoint(profile)
    BY <1>0, <1>8, <2>1, <2>2, <2>3 DEF ReconcileStart, DeletingHasFinalizer
  <2>5. \/ pc' \notin Creating \cup {"idle"}
        \/ pc' = "configMap" /\ profile.finalizer /\ ~profile.deleting
    BY <2>4 DEF entryPoint, afterCleanup
  <2> QED BY <2>2, <2>5 DEF DoneSoFar
<1>9. CASE AddFinalizer \/ RemoveFinalizer \/ UpdateStatus
  BY <1>1, <1>9, UpdateLooksAgain DEF AddFinalizer, RemoveFinalizer, UpdateStatus
<1>10. CASE Working
  <2>1. SUFFICES ASSUME profile # None, ~LooksAgain PROVE DoneSoFar'
    BY <1>0, <1>1, <1>10, WorkingFrame DEF LooksAgain, profileVars
  <2>2. UNCHANGED <<profile, nodeCache>> /\ pc # "idle" /\ pc' # "idle"
    BY <1>0, <1>10, WorkingFrame DEF profileVars
  <2>3. pc # "status"
    BY <1>10 DEF Working, CleanupDaemonSet, CleanupCronJob, CleanupConfigMap, EnsureConfigMap,
                 ReconcileCronJob, SelectNodes
  <2>4. snap = profile
    BY <1>0, <2>1, <2>2, <2>3, WorksOnProfile
  <2>5. WantedCronJob' = WantedCronJob /\ renderSysctlConf(profile)' = renderSysctlConf(profile)
    BY <2>2 DEF WantedCronJob, renderSysctlConf
  <2>6. CASE CleanupDaemonSet \/ CleanupCronJob \/ CleanupConfigMap
    <3>1. pc' \in {"cleanupCronJob", "cleanupConfigMap", "removeFinalizer"}
      BY <2>6 DEF CleanupDaemonSet, CleanupCronJob, CleanupConfigMap, Goto, afterCleanup
    <3> QED BY <3>1 DEF DoneSoFar
  <2>7. CASE EnsureConfigMap
    <3>1. pc = "configMap" /\ pc' = "cronJob"
          /\ configMap' = [configMap EXCEPT ![resourceName] = renderSysctlConf(snap)]
      BY <2>7 DEF EnsureConfigMap, Goto
    <3>2. configMap'[resourceName] = renderSysctlConf(profile)
      BY <1>0, <2>4, <3>1
    <3> QED BY <1>0, <2>1, <2>2, <2>5, <3>1, <3>2 DEF DoneSoFar
  <2>8. CASE ReconcileCronJob
    <3>1. pc = "cronJob" /\ pc' = "selectedNodes" /\ configMap' = configMap
      BY <2>8 DEF ReconcileCronJob, Goto
    <3>2. cronJob' = WantedCronJob
      BY <2>4, <2>8 DEF ReconcileCronJob, ensureCronJob, ensureNoCronJob, WantedCronJob
    <3> QED BY <1>0, <2>1, <2>2, <2>5, <3>1, <3>2 DEF DoneSoFar
  <2>9. CASE SelectNodes
    <3>1. pc = "selectedNodes" /\ pc' = "daemonSet" /\ UNCHANGED <<configMap, cronJob>>
          /\ selected' = selectedNodeNames
      BY <2>9 DEF SelectNodes, ownedVars
    <3>2. selectedNodeNames' = selectedNodeNames
      BY <2>2 DEF selectedNodeNames
    <3> QED BY <1>0, <2>1, <2>2, <2>5, <3>1, <3>2 DEF DoneSoFar
  <2> QED BY <1>10, <2>6, <2>7, <2>8, <2>9 DEF Working
<1>11. CASE ReconcileDaemonSet
  <2> DEFINE hash     == hashContent(renderSysctlConf(snap))
             complete == allNodesApplied(snap.status, selected, hash)
             status   == newStatus(snap.status, snap.generation, hash, complete)
  <2>1. /\ pc = "daemonSet"
        /\ UNCHANGED <<profileVars, configMap, cronJob, nodeCache>>
        /\ daemonSet' = IF complete THEN None ELSE hash
        /\ IF statusChanged(snap.status, status) THEN pc' = "status" ELSE pc' = "idle"
    BY <1>11 DEF ReconcileDaemonSet, deleteDaemonSet, ensureDaemonSet, Done, nodeVars
  <2>2. ~queued' => ~queued
    BY <1>0, <1>11 DEF ReconcileDaemonSet, deleteDaemonSet, ensureDaemonSet, OwnedChanged
  <2>3. SUFFICES ASSUME profile # None, ~LooksAgain PROVE DoneSoFar'
    BY <1>1, <2>1, <2>2 DEF LooksAgain, profileVars
  <2>4. snap = profile /\ profile \in SysctlProfile
    BY <1>0, <2>1, <2>3, WorksOnProfile
  <2>5. /\ profile.finalizer /\ ~profile.deleting
        /\ configMap[resourceName] = renderSysctlConf(profile)
        /\ cronJob = WantedCronJob
        /\ selected = selectedNodeNames
    BY <1>0, <2>1, <2>3 DEF DoneSoFar
  <2>6. UNCHANGED <<profile, configMap, cronJob>> /\ WantedCronJob' = WantedCronJob
        /\ renderSysctlConf(profile)' = renderSysctlConf(profile)
        /\ selectedNodeNames' = selectedNodeNames
    BY <2>1 DEF WantedCronJob, renderSysctlConf, selectedNodeNames, profileVars
  <2>7. CASE statusChanged(snap.status, status)
    <3>1. pc' = "status"
      BY <2>1, <2>7
    <3> QED BY <2>5, <2>6, <3>1 DEF DoneSoFar
  <2>8. CASE ~statusChanged(snap.status, status)
    <3>1. pc' = "idle"
      BY <2>1, <2>8
    <3>2. profile.status = status /\ complete \in BOOLEAN
      BY <2>4, <2>8 DEF statusChanged, allNodesApplied
    <3>3. profile.status \in Status
      BY <2>4 DEF SysctlProfile
    <3>4. /\ profile.status.observedHash = hash
          /\ profile.status.desiredNodes = Cardinality(selected)
          /\ profile.status.readyGeneration = snap.generation
          /\ profile.status.ready = IF complete THEN "RolloutComplete" ELSE "RollingOut"
      BY <2>4, <3>2, <3>3, NewStatusSays
    <3>5. MatchesSeen'
      <4> DEFINE all == allNodesApplied(profile.status, selectedNodeNames,
                                        hashContent(renderSysctlConf(profile)))
      <4>1. complete = all /\ all' = all
        BY <2>4, <2>5, <2>6
      <4>2. /\ daemonSet' = IF all THEN None ELSE hashContent(renderSysctlConf(profile))
            /\ profile.status.observedHash = hashContent(renderSysctlConf(profile))
            /\ profile.status.desiredNodes = Cardinality(selectedNodeNames)
            /\ profile.status.readyGeneration = profile.generation
            /\ profile.status.ready = IF all THEN "RolloutComplete" ELSE "RollingOut"
        BY <2>1, <2>4, <2>5, <3>4, <4>1
      <4> HIDE DEF all
      <4>3. MatchesSeen' <=>
              /\ profile'.finalizer
              /\ ~profile'.deleting
              /\ configMap'[resourceName] = renderSysctlConf(profile)'
              /\ cronJob' = WantedCronJob'
              /\ daemonSet' = IF all' THEN None ELSE hashContent(renderSysctlConf(profile)')
              /\ profile'.status.observedHash = hashContent(renderSysctlConf(profile)')
              /\ profile'.status.desiredNodes = Cardinality(selectedNodeNames')
              /\ profile'.status.readyGeneration = profile'.generation
              /\ profile'.status.ready = IF all' THEN "RolloutComplete" ELSE "RollingOut"
        BY DEF MatchesSeen, all
      <4> QED BY <2>5, <2>6, <4>1, <4>2, <4>3
    <3> QED BY <3>1, <3>5 DEF DoneSoFar
  <2> QED BY <2>7, <2>8
<1>12. CASE ReconcileStep
  BY <1>8, <1>9, <1>10, <1>11, <1>12 DEF ReconcileStep, Working
<1> QED BY <1>0, <1>3, <1>4, <1>5, <1>6, <1>7, <1>12, QuietFrame

----------------------------------------------------------------------------
LEMMA RestInit == Init => RestInv
BY DEF Init, RestInv, StaleIsRedone, DeletingHasFinalizer, NoneRemoved, DoneSoFar

\* Unless it is going to look again, what the manager has done so far is right
\* for the profile as it is and the nodes as it has seen them.
THEOREM RestCorrect ==
    ASSUME "remove" \notin EnvKinds
    PROVE  Spec => []RestInv
<1>1. ControllerInv /\ RestInv /\ [Next]_vars => RestInv'
  BY NodesStep, DeletingStep, StaleStep, DoneStep DEF RestInv, ControllerInv
<1> QED BY <1>1, RestInit, ControllerCorrect, PTL DEF Spec

\* Whenever the manager rests, the ConfigMap, the CronJob, the DaemonSet and
\* the status are what the profile, the nodes and the reports so far call for,
\* if no node is ever removed.
THEOREM SettledCorrect ==
    ASSUME "remove" \notin EnvKinds
    PROVE  Spec => []SettledMatchesSpec
<1>1. RestInv => SettledMatchesSpec
  <2> SUFFICES ASSUME RestInv, Settled, profile # None
               PROVE  MatchesSpec(profile, renderSysctlConf(profile))
    BY DEF SettledMatchesSpec
  <2>1. MatchesSeen
    BY DEF RestInv, DoneSoFar, Settled, LooksAgain
  <2>2. selectedNodeNames = SelectedNow
    BY DEF Settled, selectedNodeNames, SelectedNow
  <2> QED BY <2>1, <2>2 DEF MatchesSeen, MatchesSpec, WantedCronJob
<1> QED BY <1>1, RestCorrect, PTL

\* Where a complete rollout matches the spec and the counters are those of the
\* entries, every desired node is among the nodes counted.
LEMMA MatchedIsCounted ==
    ASSUME NEW p, NEW content, MatchesSpec(p, content), CountsOf(p.status),
           p.status.ready = "RolloutComplete"
    PROVE  p.status.appliedNodes >= p.status.desiredNodes
<1> DEFINE Applied == InPhase(p.status, "Applied")
<1>1. allNodesApplied(p.status, SelectedNow, hashContent(content))
  BY DEF MatchesSpec
<1>2. SelectedNow \subseteq Applied
  BY <1>1 DEF allNodesApplied, AppliedAt
<1>3. IsFiniteSet(Applied)
  BY NodesAssumption, FS_Subset DEF InPhase
<1>4. p.status.appliedNodes = Cardinality(Applied)
  BY DEF CountsOf
<1>5. p.status.desiredNodes = Cardinality(SelectedNow)
  BY DEF MatchesSpec
<1> HIDE DEF Applied
<1>6. /\ Cardinality(SelectedNow) <= Cardinality(Applied)
      /\ Cardinality(SelectedNow) \in Nat
      /\ Cardinality(Applied) \in Nat
  BY <1>2, <1>3, FS_Subset, FS_CardinalityType
<1> QED BY <1>4, <1>5, <1>6

\* Whenever the manager rests, a rollout that is called complete is counted
\* complete, if no node is ever removed, although Reconcile writes the verdict
\* and the report API the counters.
THEOREM CompleteIsCountedCorrect ==
    ASSUME "remove" \notin EnvKinds
    PROVE  Spec => []CompleteIsCounted
<1>1. SettledMatchesSpec /\ CountsMatch => CompleteIsCounted
  BY MatchedIsCounted DEF SettledMatchesSpec, CompleteIsCounted, CountsMatch, CountsAgree
<1> QED BY <1>1, SettledCorrect, CountsMatchCorrect, PTL
=============================================================================
