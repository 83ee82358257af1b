------------------------ MODULE ScriptOperatorProofs ------------------------
(***************************************************************************)
(* Theorems about the system for a ScriptProfile, for any number of nodes, *)
(* any specs, environment moves, pods per node and report attempts.        *)
(*                                                                         *)
(* The controller is not the other one: it has its own cleanup order and   *)
(* fewer steps, and reports are recorded otherwise.  The invariants about  *)
(* copies of the profile, the finalizer and progress are the same; they    *)
(* are shown here for the steps of this system.                            *)
(***************************************************************************)
EXTENDS ScriptOperator, SettledProofs, ScriptBlocksProofs

----------------------------------------------------------------------------
\* The inductive invariant.

\* Two pods on a node have different ids, so no process continues the log of
\* another.
PodsApart ==
    \A p, q \in pods : p.node = q.node /\ p.id = q.id => p = q

ScriptControllerInv ==
    /\ ScriptTypeOK
    /\ PodsApart
    /\ CopyInv
    /\ ProgressInv
    /\ FinalizerInv

\* Files are rendered specs, in ConfigMaps, volumes and processes.
RenderedSpecs == {renderScripts(s) : s \in ScriptSpecs}
FilesAreSpecs ==
    /\ rendered \subseteq RenderedSpecs
    /\ \A p \in pods : p.content # None => p.content \in RenderedSpecs

\* A hash counts as written on a node once a process has run that file to the
\* end without a failure.
RanToTheEnd(n, hash) ==
    \E c \in RenderedSpecs : hashContent(c) = hash /\ ParseScripts(c) \in completed[n]

\* Claims on their way from a process to the status.
ScriptClaimInv ==
    /\ FilesAreSpecs
    /\ ClaimInv
    /\ \A n \in Nodes : \A hash \in written[n] : RanToTheEnd(n, hash)

\* MatchesSpec, for the nodes the manager has seen.
ScriptMatchesSeen ==
    LET p        == profile
        hash     == hashContent(renderScripts(p.spec))
        complete == allNodesApplied(p.status, selectedNodeNames, hash)
    IN  /\ p.finalizer
        /\ ~p.deleting
        /\ configMap[resourceName] = renderScripts(p.spec)
        /\ daemonSet = IF complete THEN None ELSE hash
        /\ p.status.observedHash = hash
        /\ p.status.desiredNodes = Cardinality(selectedNodeNames)
        /\ p.status.readyGeneration = p.generation
        /\ p.status.ready = IF complete THEN "RolloutComplete" ELSE "RollingOut"

\* Creation in progress, and the end of it.
ScriptDoneSoFar ==
    profile # None /\ ~LooksAgain =>
        /\ pc \in Creating => profile.finalizer /\ ~profile.deleting
        /\ pc \in {"selectedNodes", "daemonSet"} =>
              configMap[resourceName] = renderScripts(profile.spec)
        /\ pc = "daemonSet" => selected = selectedNodeNames
        /\ pc = "idle" => ScriptMatchesSeen

ScriptRestInv ==
    /\ StaleIsRedone
    /\ DeletingHasFinalizer
    /\ NoneRemoved
    /\ ScriptDoneSoFar

----------------------------------------------------------------------------
\* Lemmas about records.

\* A user's write gives a profile, and leaves the finalizer and the status.
LEMMA ScriptUserWrites ==
    ASSUME NEW p \in ScriptProfile, NEW s \in ScriptSpecs
    PROVE  \A q \in {[p EXCEPT !.spec = s], [p EXCEPT !.deleting = TRUE]} :
               /\ NextGeneration(q) \in ScriptProfile
               /\ NextGeneration(q).finalizer = p.finalizer
               /\ NextGeneration(q).deleting = q.deleting
               /\ NextGeneration(q).status = p.status
<1> SUFFICES ASSUME NEW q \in {[p EXCEPT !.spec = s], [p EXCEPT !.deleting = TRUE]}
             PROVE  /\ NextGeneration(q) \in ScriptProfile
                    /\ NextGeneration(q).finalizer = p.finalizer
                    /\ NextGeneration(q).deleting = q.deleting
                    /\ NextGeneration(q).status = p.status
  OBVIOUS
<1>1. q \in ScriptProfile /\ q.finalizer = p.finalizer /\ q.status = p.status
  BY DEF ScriptProfile
<1>2. q.generation + 1 \in Nat
  BY <1>1 DEF ScriptProfile
<1> QED BY <1>1, <1>2 DEF NextGeneration, ScriptProfile

\* What the report API makes of a status is a status.  Only the entry of the
\* node that reports changes: a success is recorded with its hash, a failure
\* as a failure.
LEMMA ScriptRecordedType ==
    ASSUME NEW st \in Status, NEW r \in InFlight
    PROVE  /\ ScriptRecorded(st, r) \in Status
           /\ \A n \in Nodes \ {r.node} :
                ScriptRecorded(st, r).nodeStatuses[n] = st.nodeStatuses[n]
           /\ ScriptRecorded(st, r).nodeStatuses[r.node].phase = "Applied" =>
                /\ r.success
                /\ ScriptRecorded(st, r).nodeStatuses[r.node].appliedHash = r.hash
<1> DEFINE o == st.nodeStatuses[r.node]
           e == IF r.success THEN Succeeded(r.hash) ELSE Failed(o)
           f == [st.nodeStatuses EXCEPT ![r.node] = e]
           u == upsertScriptNodeStatus(st, r)
<1>1. r.node \in Nodes /\ r.hash \in Hashes /\ r.success \in BOOLEAN
  BY DEF InFlight
<1>2. o \in NodeStatus
  BY <1>1 DEF Status
<1>3. Succeeded(r.hash) \in NodeStatus
  BY <1>1 DEF Succeeded, NodeStatus, NodePhase, MaybeHash
<1>4. Failed(o) \in NodeStatus
  <2>1. o.failCount + 1 \in Nat /\ o.appliedHash \in MaybeHash
    BY <1>2 DEF NodeStatus
  <2> QED BY <2>1 DEF Failed, NodeStatus, NodePhase
<1>5. e \in NodeStatus
  BY <1>3, <1>4
<1>6. e.phase = "Applied" => r.success /\ e.appliedHash = r.hash
  BY DEF Succeeded, Failed
<1> HIDE DEF e
<1>7. f \in [Nodes -> NodeStatus] /\ f[r.node] = e
      /\ \A n \in Nodes \ {r.node} : f[n] = st.nodeStatuses[n]
  BY <1>1, <1>5 DEF Status
<1>8. u = [st EXCEPT !.nodeStatuses = f]
  BY DEF upsertScriptNodeStatus, e
<1> HIDE DEF f
<1>9. u \in Status /\ u.nodeStatuses = f
  BY <1>7, <1>8 DEF Status
<1>10. Cardinality(InPhase(u, "Applied")) \in Nat /\ Cardinality(InPhase(u, "Failed")) \in Nat
  BY NodeCountType DEF InPhase
<1> HIDE DEF u
<1>11. recomputeCounts(u) \in Status /\ recomputeCounts(u).nodeStatuses = f
  BY <1>9, <1>10 DEF recomputeCounts, Status
<1>12. ScriptRecorded(st, r) = recomputeCounts(u)
  BY DEF ScriptRecorded, recomputeScriptCounts, u
<1> QED BY <1>6, <1>7, <1>11, <1>12

\* Files and their hashes.
LEMMA ScriptFileType ==
    ASSUME NEW s \in ScriptSpecs
    PROVE  /\ renderScripts(s) \in Configs
           /\ renderScripts(s) # None
           /\ renderScripts(s) \in RenderedSpecs
           /\ hashContent(renderScripts(s)) \in Hashes
BY ScriptSpecsAssumption, NoneAssumption, HashType DEF RenderedSpecs, hashContent

\* A file, whatever is in it, is split into some list of scripts.
LEMMA FileParsed ==
    ASSUME NEW c \in Configs
    PROVE  ParseScripts(c) \in Seq(ScriptType)
<1>1. c \in Seq(Line)
  BY ScriptFilesAssumption
<1>2. ParseScripts(c) \in Seq(PlainScript)
  BY <1>1, ParsedArePlain
<1>3. PlainScript \subseteq ScriptType
  BY DEF PlainScript
<1> QED BY <1>2, <1>3

----------------------------------------------------------------------------
\* The steps of the system, sorted by what they touch.

\* Everything but the workers' steps.
OthersNext ==
    /\ ScriptUserNext \/ ScriptFailureNext \/ ScriptClusterNext \/ ScriptManagerNext
    /\ UNCHANGED scriptVars

\* Steps that leave the profile, its copies and the owned objects alone queue
\* the key, if they touch the queue at all.
LEMMA ScriptFrame ==
    ASSUME ScriptTypeOK, [ScriptNext]_allVars
    PROVE  \/ /\ UNCHANGED <<profileVars, reconcileVars, ownedVars, nodeCache>>
              /\ ~queued' => ~queued
              /\ queued' \in BOOLEAN
           \/ \E n \in Nodes : NodeCacheSync(n)
           \/ ScriptUserNext
           \/ SyncProfile
           \/ ScriptReconcileStep
           \/ RestartManager
           \/ ReconcileError
           \/ \E r \in reports : RecordScriptReport(r)
<1>0. queued \in BOOLEAN
  BY DEF ScriptTypeOK, ScriptReconcileTypeOK
<1>1. CASE UNCHANGED allVars
  BY <1>0, <1>1 DEF allVars, vars, nodeVars
<1>2. CASE ScriptFailureNext
  <2>1. ASSUME NEW n \in Nodes, NEW kind, NEW label, ChangeNode(n, kind, label)
        PROVE  /\ UNCHANGED <<profileVars, reconcileVars, ownedVars, nodeCache>>
               /\ ~queued' => ~queued
               /\ queued' \in BOOLEAN
    BY <1>0, <2>1 DEF ChangeNode, OwnedChanged
  <2>2. CASE \/ \E p \in pods : CrashContainer(p)
             \/ \E r \in reports : LoseReport(r)
    BY <1>0, <2>2 DEF CrashContainer, LoseReport, nodeVars
  <2> QED BY <1>2, <2>1, <2>2 DEF ScriptFailureNext
<1>3. CASE ScriptClusterNext
  BY <1>0, <1>3 DEF ScriptClusterNext, SchedulePod, KillPod, StartContainer, OwnedChanged, nodeVars
<1>4. CASE ScriptManagerNext
  BY <1>0, <1>4 DEF ScriptManagerNext, applyScriptReport, IgnoreReport, ConflictOnReport, nodeVars
<1>5. CASE \E p \in pods : ScriptWorkerNext(p)
  <2>1. ASSUME NEW p \in pods, NEW c \in rendered, LoadScripts(p, c) \/ LoadRefused(p, c)
        PROVE  UNCHANGED <<profileVars, queued, reconcileVars, ownedVars, nodeVars>>
    BY <2>1 DEF LoadScripts, Load, LoadRefused
  <2>2. ASSUME NEW p \in pods, NEW ok \in BOOLEAN, RunScript(p, ok)
        PROVE  UNCHANGED <<profileVars, queued, reconcileVars, ownedVars, nodeVars>>
    BY <2>2 DEF RunScript
  <2>3. ASSUME NEW p \in pods, ScriptsDone(p) \/ sendReport(p)
        PROVE  UNCHANGED <<profileVars, queued, reconcileVars, ownedVars, nodeVars>>
    BY <2>3 DEF ScriptsDone, sendReport
  <2>4. UNCHANGED <<profileVars, queued, reconcileVars, ownedVars, nodeVars>>
    BY <1>5, <2>1, <2>2, <2>3 DEF ScriptWorkerNext
  <2> QED BY <1>0, <2>4 DEF nodeVars
<1> QED BY <1>1, <1>2, <1>3, <1>4, <1>5 DEF ScriptNext

\* A user's write leaves the copies and the owned objects alone.
LEMMA ScriptUserFrame ==
    ASSUME ScriptUserNext
    PROVE  /\ cacheFresh' = FALSE /\ snapFresh' = FALSE
           /\ UNCHANGED <<cache, queued, pc, snap, selected, ownedVars, nodeVars, pods,
                          hostVars, reports, mishap>>
BY DEF ScriptUserNext, CreateProfile, EditSpec, DeleteProfile, WriteProfile

\* What it writes.
LEMMA ScriptUserWrite ==
    ASSUME ScriptTypeOK, ScriptUserNext
    PROVE  /\ profile' \in MaybeScriptProfile
           /\ Protected' <=> Protected
           /\ DeletingHasFinalizer => DeletingHasFinalizer'
           /\ profile' # None =>
                \/ profile # None /\ profile'.status = profile.status
                \/ profile'.status = EmptyStatus
<1>0. profile # None => profile \in ScriptProfile
  BY DEF ScriptTypeOK, ScriptProfileTypeOK, MaybeScriptProfile
<1> USE DEF MaybeScriptProfile, Protected, DeletingHasFinalizer, WriteProfile
<1> USE NoScriptProfileAssumption
<1>1. CASE \E s \in ScriptSpecs : CreateProfile(s, FALSE)
  <2>1. PICK s \in ScriptSpecs : CreateProfile(s, FALSE)
    BY <1>1
  <2>2. profile' \in ScriptProfile /\ ~profile'.finalizer /\ ~profile'.deleting
        /\ profile'.status = EmptyStatus /\ profile = None
    BY <2>1, EmptyStatusType DEF CreateProfile, ScriptProfile
  <2> QED BY <2>2
<1>2. CASE \E s \in ScriptSpecs : EditSpec(s)
  <2>1. PICK s \in ScriptSpecs : EditSpec(s)
    BY <1>2
  <2>2. profile # None /\ profile' = NextGeneration([profile EXCEPT !.spec = s])
    BY <2>1 DEF EditSpec
  <2>3. [profile EXCEPT !.spec = s].deleting = profile.deleting
    BY <1>0, <2>2 DEF ScriptProfile
  <2>4. profile' \in ScriptProfile /\ profile'.finalizer = profile.finalizer
        /\ profile'.deleting = profile.deleting /\ profile'.status = profile.status
    BY <1>0, <2>2, <2>3, ScriptUserWrites
  <2> QED BY <2>2, <2>4
<1>3. CASE DeleteProfile
  <2>1. CASE ~profile.finalizer
    BY <1>3, <2>1 DEF DeleteProfile
  <2>2. CASE profile.finalizer
    <3>1. profile # None /\ profile' = NextGeneration([profile EXCEPT !.deleting = TRUE])
      BY <1>3, <2>2 DEF DeleteProfile
    <3>2. profile.spec \in ScriptSpecs
      BY <1>0, <3>1 DEF ScriptProfile
    <3>3. profile' \in ScriptProfile /\ profile'.finalizer = profile.finalizer
          /\ profile'.status = profile.status
      BY <1>0, <3>1, <3>2, ScriptUserWrites
    <3> QED BY <2>2, <3>1, <3>3
  <2> QED BY <2>1, <2>2
<1> QED BY <1>1, <1>2, <1>3 DEF ScriptUserNext

\* A recorded report changes nothing but the status.
LEMMA ScriptReportWrite ==
    ASSUME ScriptTypeOK, NEW r \in reports, RecordScriptReport(r)
    PROVE  /\ profile \in ScriptProfile /\ cache \in ScriptProfile /\ r \in InFlight
           /\ profile' \in ScriptProfile
           /\ profile'.finalizer = profile.finalizer
           /\ profile'.deleting = profile.deleting
           /\ profile'.status = ScriptRecorded(cache.status, r)
           /\ cacheFresh /\ cacheFresh' = FALSE /\ snapFresh' = FALSE
           /\ UNCHANGED <<cache, queued, pc, snap, selected, ownedVars, nodeVars, pods, hostVars>>
           /\ reports' = reports \ {r}
<1>1. profile \in ScriptProfile /\ cache \in ScriptProfile /\ r \in InFlight
  BY DEF ScriptTypeOK, ScriptProfileTypeOK, EnvTypeOK, MaybeScriptProfile, RecordScriptReport,
         RecordStatus, UpToDate
<1>2. ScriptRecorded(cache.status, r) \in Status
  BY <1>1, ScriptRecordedType DEF ScriptProfile
<1>3. profile' = [profile EXCEPT !.status = ScriptRecorded(cache.status, r)]
  BY DEF RecordScriptReport, RecordStatus, WriteProfile
<1>4. profile' \in ScriptProfile /\ profile'.finalizer = profile.finalizer
      /\ profile'.deleting = profile.deleting
      /\ profile'.status = ScriptRecorded(cache.status, r)
  BY <1>1, <1>2, <1>3 DEF ScriptProfile
<1> QED BY <1>1, <1>4 DEF RecordScriptReport, RecordStatus, WriteProfile, UpToDate

----------------------------------------------------------------------------
\* Types of the profile, its copies and the owned objects.

LEMMA ScriptTypeDone ==
    ASSUME Done, queued' \in BOOLEAN
    PROVE  ScriptReconcileTypeOK'
<1>1. pc' \in ReconcilePC \ {"cronJob", "cleanupCronJob"} /\ snap' \in MaybeScriptProfile
  BY DEF Done, ReconcilePC, MaybeScriptProfile
<1>2. (snap' = None) <=> (pc' = "idle")
  BY DEF Done
<1> QED BY <1>1, <1>2 DEF ScriptReconcileTypeOK, Done

\* The last Update of a Reconcile.
LEMMA ScriptTypeUpdate ==
    ASSUME ScriptTypeOK, NEW p \in MaybeScriptProfile, UpdateProfile(p)
    PROVE  ScriptProfileTypeOK' /\ ScriptReconcileTypeOK' /\ UNCHANGED ownedVars
<1>1. CASE UpToDate(snapFresh)
  <2>1. ScriptProfileTypeOK'
    BY <1>1 DEF UpdateProfile, ScriptTypeOK, ScriptProfileTypeOK
  <2>2. ScriptReconcileTypeOK'
    BY <1>1, ScriptTypeDone DEF UpdateProfile, ScriptTypeOK, ScriptReconcileTypeOK
  <2> QED BY <2>1, <2>2 DEF UpdateProfile
<1>2. CASE ~UpToDate(snapFresh)
  <2>1. ScriptProfileTypeOK'
    BY <1>2 DEF UpdateProfile, ScriptTypeOK, ScriptProfileTypeOK, profileVars
  <2>2. ScriptReconcileTypeOK'
    BY <1>2, ScriptTypeDone DEF UpdateProfile, Fail
  <2> QED BY <2>1, <2>2 DEF UpdateProfile
<1> QED BY <1>1, <1>2

\* A step that goes on to another one.
LEMMA ScriptTypeGoto ==
    ASSUME ScriptTypeOK, NEW step \in ReconcilePC \ {"cronJob", "cleanupCronJob", "idle"},
           Goto(step), pc # "idle", queued' \in BOOLEAN
    PROVE  ScriptReconcileTypeOK'
BY DEF ScriptTypeOK, ScriptReconcileTypeOK, Goto

\* Reconcile keeps the types of what it writes.
LEMMA ScriptTypeReconcile ==
    ASSUME ScriptTypeOK, ScriptReconcileStep
    PROVE  /\ ScriptProfileTypeOK'
           /\ ScriptReconcileTypeOK'
           /\ OwnedTypeOK'
           /\ cronJob' = None
<1>0. /\ queued \in BOOLEAN /\ profile \in MaybeScriptProfile /\ cache \in MaybeScriptProfile
      /\ cacheFresh \in BOOLEAN /\ selected \subseteq Nodes /\ cronJob = None
      /\ ScriptProfile \subseteq MaybeScriptProfile /\ None \in MaybeScriptProfile
      /\ pc # "idle" => snap \in ScriptProfile
      /\ OwnedTypeOK /\ ScriptProfileTypeOK
  BY DEF ScriptTypeOK, ScriptReconcileTypeOK, ScriptProfileTypeOK, MaybeScriptProfile
<1>h. pc # "idle" => /\ snap.spec \in ScriptSpecs
                     /\ renderScripts(snap.spec) \in Configs
                     /\ hashContent(renderScripts(snap.spec)) \in Hashes
  BY <1>0, ScriptFileType DEF ScriptProfile
<1>p. UNCHANGED profileVars => ScriptProfileTypeOK'
  BY <1>0 DEF ScriptProfileTypeOK, profileVars
<1>o. UNCHANGED ownedVars => OwnedTypeOK' /\ cronJob' = None
  BY <1>0 DEF OwnedTypeOK, ownedVars
<1>1. CASE ReconcileStart
  <2>1. ScriptReconcileTypeOK'
    <3>1. CASE UNCHANGED reconcileVars
      BY <1>1, <3>1 DEF ReconcileStart, ScriptTypeOK, ScriptReconcileTypeOK, reconcileVars
    <3>2. CASE ~(UNCHANGED reconcileVars)
      <4>1. entryPoint(cache) \in ReconcilePC \ {"cronJob", "cleanupCronJob", "idle"}
        BY DEF entryPoint, afterCleanup, ReconcilePC
      <4>2. pc' = entryPoint(cache) /\ snap' = cache /\ cache # None
            /\ queued' = FALSE /\ snapFresh' = cacheFresh /\ selected' = selected
        BY <1>1, <3>2 DEF ReconcileStart
      <4> QED BY <1>0, <4>1, <4>2 DEF ScriptReconcileTypeOK
    <3> QED BY <3>1, <3>2
  <2> QED BY <1>1, <1>p, <1>o, <2>1 DEF ReconcileStart
<1>2. CASE AddFinalizer
  <2>1. [snap EXCEPT !.finalizer = TRUE] \in MaybeScriptProfile
    BY <1>0, <1>2 DEF AddFinalizer, ScriptProfile
  <2> QED BY <1>2, <1>o, <2>1, ScriptTypeUpdate DEF AddFinalizer
<1>3. CASE RemoveFinalizer
  BY <1>0, <1>o, <1>3, ScriptTypeUpdate DEF RemoveFinalizer
<1>4. CASE UpdateStatus
  <2>1. CASE profile = None
    <3>1. ScriptReconcileTypeOK'
      BY <1>4, <2>1, ScriptTypeDone DEF UpdateStatus, UpdateProfile, UpToDate, Fail
    <3> QED BY <1>4, <1>p, <1>o, <2>1, <3>1 DEF UpdateStatus, UpdateProfile, UpToDate
  <2>2. CASE profile # None
    <3>1. profile \in ScriptProfile /\ snap.status \in Status
      BY <1>0, <1>4, <2>2 DEF UpdateStatus, ScriptProfile, MaybeScriptProfile
    <3>2. [profile EXCEPT !.status = snap.status] \in MaybeScriptProfile
      BY <1>0, <3>1 DEF ScriptProfile
    <3> QED BY <1>4, <1>o, <3>2, ScriptTypeUpdate DEF UpdateStatus
  <2> QED BY <2>1, <2>2
<1>5. CASE CleanupScriptDaemonSet
  <2>1. ScriptReconcileTypeOK'
    BY <1>0, <1>5, ScriptTypeGoto
       DEF CleanupScriptDaemonSet, deleteScriptDaemonSet, deleteDaemonSet, afterCleanupScript,
           ReconcilePC, OwnedChanged
  <2>2. OwnedTypeOK' /\ cronJob' = None
    BY <1>0, <1>5
       DEF CleanupScriptDaemonSet, deleteScriptDaemonSet, deleteDaemonSet, OwnedTypeOK, MaybeHash
  <2> QED BY <1>5, <1>p, <2>1, <2>2 DEF CleanupScriptDaemonSet
<1>6. CASE CleanupScriptConfigMap
  <2>1. ScriptReconcileTypeOK'
    BY <1>0, <1>6, ScriptTypeGoto
       DEF CleanupScriptConfigMap, afterCleanupScript, ReconcilePC, OwnedChanged
  <2>2. OwnedTypeOK' /\ cronJob' = None
    BY <1>0, <1>6 DEF CleanupScriptConfigMap, OwnedTypeOK
  <2> QED BY <1>6, <1>p, <2>1, <2>2 DEF CleanupScriptConfigMap
<1>7. CASE EnsureScriptConfigMap
  <2>1. ScriptReconcileTypeOK'
    BY <1>0, <1>7, ScriptTypeGoto DEF EnsureScriptConfigMap, ReconcilePC, OwnedChanged
  <2>2. OwnedTypeOK' /\ cronJob' = None
    BY <1>0, <1>h, <1>7 DEF EnsureScriptConfigMap, OwnedTypeOK
  <2> QED BY <1>7, <1>p, <2>1, <2>2 DEF EnsureScriptConfigMap
<1>8. CASE SelectScriptNodes
  <2>1. ScriptReconcileTypeOK'
    BY <1>8 DEF SelectScriptNodes, scriptSelectedNodeNames, selectedNodeNames, ScriptTypeOK,
                ScriptReconcileTypeOK, ReconcilePC
  <2> QED BY <1>8, <1>p, <1>o, <2>1 DEF SelectScriptNodes
<1>9. CASE ReconcileScriptDaemonSet
  <2> DEFINE hash     == hashContent(renderScripts(snap.spec))
             complete == scriptAllNodesApplied(snap.status, selected, hash)
             status   == newStatus(snap.status, snap.generation, hash, complete)
  <2>1. /\ snap \in ScriptProfile /\ snap.status \in Status /\ snap.generation \in Nat
        /\ hash \in Hashes /\ complete \in BOOLEAN
    BY <1>0, <1>h, <1>9
       DEF ReconcileScriptDaemonSet, ScriptProfile, scriptAllNodesApplied, allNodesApplied
  <2>2. status \in Status
    BY <1>0, <2>1, NewStatusType
  <2>3. [snap EXCEPT !.status = status] \in ScriptProfile
    BY <2>1, <2>2 DEF ScriptProfile
  <2>4. queued' \in BOOLEAN
    BY <1>0, <1>9 DEF ReconcileScriptDaemonSet, deleteScriptDaemonSet, ensureScriptDaemonSet,
                      deleteDaemonSet, ensureDaemonSet, OwnedChanged
  <2>5. OwnedTypeOK' /\ cronJob' = None
    BY <1>0, <2>1, <1>9 DEF ReconcileScriptDaemonSet, deleteScriptDaemonSet,
            ensureScriptDaemonSet, deleteDaemonSet, ensureDaemonSet, OwnedTypeOK, MaybeHash
  <2>6. ScriptReconcileTypeOK'
    <3>1. CASE statusChanged(snap.status, status)
      <4>1. pc' = "status" /\ snap' = [snap EXCEPT !.status = status]
            /\ UNCHANGED <<snapFresh, selected>>
        BY <1>9, <3>1 DEF ReconcileScriptDaemonSet
      <4> QED BY <2>3, <2>4, <4>1, NoScriptProfileAssumption
              DEF ScriptTypeOK, ScriptReconcileTypeOK, ReconcilePC, MaybeScriptProfile
    <3>2. CASE ~statusChanged(snap.status, status)
      <4>1. Done
        BY <1>9, <3>2 DEF ReconcileScriptDaemonSet
      <4> QED BY <2>4, <4>1, ScriptTypeDone
    <3> QED BY <3>1, <3>2
  <2> QED BY <1>9, <1>p, <2>5, <2>6 DEF ReconcileScriptDaemonSet
<1> QED BY <1>1, <1>2, <1>3, <1>4, <1>5, <1>6, <1>7, <1>8, <1>9
        DEF ScriptReconcileStep, ScriptReconcileStart

\* And so does everybody else.
LEMMA ScriptTypeProfile ==
    ASSUME ScriptTypeOK, [ScriptNext]_allVars
    PROVE  /\ ScriptProfileTypeOK'
           /\ ScriptReconcileTypeOK'
           /\ OwnedTypeOK'
           /\ cronJob' = None
<1>0. ScriptProfileTypeOK /\ ScriptReconcileTypeOK /\ OwnedTypeOK /\ cronJob = None
      /\ queued \in BOOLEAN /\ profile \in MaybeScriptProfile
  BY DEF ScriptTypeOK, ScriptReconcileTypeOK, ScriptProfileTypeOK
<1>p. UNCHANGED profileVars => ScriptProfileTypeOK'
  BY <1>0 DEF ScriptProfileTypeOK, profileVars
<1>r. UNCHANGED reconcileVars /\ queued' \in BOOLEAN => ScriptReconcileTypeOK'
  BY <1>0 DEF ScriptReconcileTypeOK, reconcileVars
<1>o. UNCHANGED ownedVars => OwnedTypeOK' /\ cronJob' = None
  BY <1>0 DEF OwnedTypeOK, ownedVars
\* Someone other than Reconcile writes the profile.
<1>w. ASSUME profile' \in MaybeScriptProfile, cacheFresh' = FALSE, snapFresh' = FALSE,
             UNCHANGED <<cache, queued, pc, snap, selected>>
      PROVE  ScriptProfileTypeOK' /\ ScriptReconcileTypeOK'
  BY <1>0, <1>w DEF ScriptProfileTypeOK, ScriptReconcileTypeOK
<1>1. CASE UNCHANGED <<profileVars, reconcileVars, ownedVars>> /\ queued' \in BOOLEAN
  BY <1>1, <1>p, <1>r, <1>o
<1>2. ASSUME NEW n \in Nodes, NodeCacheSync(n)
      PROVE  UNCHANGED <<profileVars, reconcileVars, ownedVars>> /\ queued' \in BOOLEAN
  <2>1. queued' \in BOOLEAN
    BY <1>2 DEF NodeCacheSync
  <2> QED BY <1>2, <2>1 DEF NodeCacheSync
<1>3. CASE ScriptUserNext
  BY <1>3, <1>o, <1>w, ScriptUserFrame, ScriptUserWrite
<1>4. CASE SyncProfile
  <2>1. ScriptProfileTypeOK' /\ queued' \in BOOLEAN
    BY <1>0, <1>4 DEF SyncProfile, ScriptProfileTypeOK
  <2> QED BY <1>4, <2>1, <1>r, <1>o DEF SyncProfile
<1>5. CASE RestartManager
  <2>1. ScriptProfileTypeOK'
    BY <1>0, <1>5 DEF RestartManager, ScriptProfileTypeOK
  <2>2. ScriptReconcileTypeOK'
    BY <1>5, ScriptTypeDone DEF RestartManager, Done
  <2> QED BY <1>5, <2>1, <2>2, <1>o DEF RestartManager
<1>6. CASE ReconcileError
  BY <1>6, <1>p, <1>o, ScriptTypeDone DEF ReconcileError, Fail
<1>7. ASSUME NEW r \in reports, RecordScriptReport(r)
      PROVE  ScriptProfileTypeOK' /\ ScriptReconcileTypeOK' /\ OwnedTypeOK' /\ cronJob' = None
  BY <1>7, <1>o, <1>w, ScriptReportWrite DEF MaybeScriptProfile
<1> QED BY <1>1, <1>2, <1>3, <1>4, <1>5, <1>6, <1>7, ScriptFrame, ScriptTypeReconcile

----------------------------------------------------------------------------
\* Pods.

\* What becomes of the pods when no worker takes a step: a pod goes on as it
\* was, or it is one that has yet to load its file.
PodsMove ==
    /\ pods' \subseteq Pod
    /\ PodsApart'
    /\ \A q \in pods' :
        \/ \E p \in pods : p.node = q.node /\ p.id = q.id /\ p.pc = q.pc /\ p.content = q.content
        \/ /\ q.pc \in {"creating", "load", "crashed"}
           /\ q.content = None \/ \E p \in pods : p.content = q.content

LEMMA PodsFewer ==
    ASSUME pods \subseteq Pod, PodsApart, pods' \subseteq pods
    PROVE  PodsMove
BY DEF PodsMove, PodsApart

\* A pod is replaced by a later state of it.
LEMMA PodReplaced ==
    ASSUME pods \subseteq Pod, PodsApart, NEW p \in pods, NEW q \in Pod,
           q.node = p.node, q.id = p.id, pods' = (pods \ {p}) \cup {q}
    PROVE  PodsApart' /\ pods' \subseteq Pod
BY DEF PodsApart

LEMMA PodRestarted ==
    ASSUME pods \subseteq Pod, PodsApart, NEW p \in pods, NEW q \in Pod,
           q.node = p.node, q.id = p.id, pods' = (pods \ {p}) \cup {q},
           q.pc \in {"creating", "load", "crashed"}, q.content = None \/ q.content = p.content
    PROVE  PodsMove
<1>1. PodsApart' /\ pods' \subseteq Pod
  BY PodReplaced
<1> QED BY <1>1 DEF PodsMove

LEMMA PodsOrphaned ==
    ASSUME pods \subseteq Pod, PodsApart, pods' = Orphaned("applier")
    PROVE  PodsMove
<1>1. \A p \in Pod : LET q == [p EXCEPT !.orphan = TRUE]
                     IN  /\ q \in Pod
                         /\ p.node = q.node /\ p.id = q.id /\ p.pc = q.pc /\ p.content = q.content
  BY DEF Pod
<1> DEFINE o(p) == IF p.kind = "applier" THEN [p EXCEPT !.orphan = TRUE] ELSE p
<1>2. pods' = {o(p) : p \in pods}
  BY DEF Orphaned
<1>3. \A p \in pods : /\ o(p) \in Pod
                      /\ p.node = o(p).node /\ p.id = o(p).id
                      /\ p.pc = o(p).pc /\ p.content = o(p).content
  BY <1>1
<1> HIDE DEF o
<1>4. PodsApart'
  <2> SUFFICES ASSUME NEW p \in pods', NEW q \in pods', p.node = q.node, p.id = q.id
               PROVE  p = q
    BY DEF PodsApart
  <2>1. PICK p0 \in pods, q0 \in pods : p = o(p0) /\ q = o(q0)
    BY <1>2
  <2>2. p0 = q0
    BY <1>3, <2>1 DEF PodsApart
  <2> QED BY <2>1, <2>2
<1> QED BY <1>2, <1>3, <1>4 DEF PodsMove

\* A new pod takes a free id.
LEMMA PodAdded ==
    ASSUME pods \subseteq Pod, PodsApart, NEW n \in Nodes, FreeIds(n) # {}, NEW hash \in Hashes,
           pods' = pods \cup {NewPod(n, "applier", hash, resourceName)}
    PROVE  PodsMove
<1> DEFINE q == NewPod(n, "applier", hash, resourceName)
<1>1. PICK i : i = (CHOOSE k \in FreeIds(n) : TRUE)
  OBVIOUS
<1>2. i \in FreeIds(n)
  BY <1>1
<1>3. i \in 1 .. MaxPodsPerNode /\ \A p \in pods : ~(p.node = n /\ p.id = i)
  BY <1>2 DEF FreeIds
<1>4. q = [node |-> n, id |-> i, kind |-> "applier", hash |-> hash, volume |-> resourceName,
           orphan |-> FALSE, pc |-> "creating", content |-> None]
  BY <1>1 DEF NewPod
<1> HIDE DEF q
<1>5. q \in Pod /\ q.node = n /\ q.id = i /\ q.pc = "creating" /\ q.content = None
  BY <1>3, <1>4 DEF Pod, PodPC, PodKind, ConfigMapNames
<1>6. pods' = pods \cup {q}
  BY DEF q
<1>7. PodsApart'
  BY <1>3, <1>5, <1>6 DEF PodsApart
<1>8. pods' \subseteq Pod
  BY <1>5, <1>6
<1> QED BY <1>5, <1>6, <1>7, <1>8 DEF PodsMove

\* What is not a worker's step moves the pods so, and writes nothing.
LEMMA OthersPods ==
    ASSUME ScriptTypeOK, PodsApart, OthersNext \/ UNCHANGED allVars
    PROVE  /\ PodsMove
           /\ written' = written
           /\ live' \in [Nodes -> Configs \cup {None}]
           /\ UNCHANGED scriptVars
<1>0. /\ pods \subseteq Pod /\ live \in [Nodes -> Configs \cup {None}]
      /\ daemonSet # None => daemonSet \in Hashes
  BY DEF ScriptTypeOK, HostsTypeOK, OwnedTypeOK, MaybeHash
<1> DEFINE Goal == PodsMove /\ written' = written /\ live' \in [Nodes -> Configs \cup {None}]
<1> SUFFICES Goal
  BY DEF OthersNext, allVars
<1>1. CASE UNCHANGED <<pods, hostVars>>
  BY <1>0, <1>1, PodsFewer DEF hostVars
<1>2. CASE UNCHANGED allVars
  BY <1>1, <1>2 DEF allVars, vars
<1>3. CASE ScriptUserNext
  BY <1>1, <1>3, ScriptUserFrame
<1>4. ASSUME NEW n \in Nodes, NEW kind, NEW label, ChangeNode(n, kind, label)
      PROVE  Goal
  <2>1. pods' \subseteq pods /\ written' = written
    BY <1>4 DEF ChangeNode
  <2>2. live' \in [Nodes -> Configs \cup {None}]
    BY <1>0, <1>4 DEF ChangeNode
  <2> QED BY <1>0, <2>1, <2>2, PodsFewer
<1>5. ASSUME NEW p \in pods, CrashContainer(p) PROVE Goal
  <2> DEFINE q == [p EXCEPT !.pc = "crashed", !.content = None]
  <2>1. q \in Pod /\ q.node = p.node /\ q.id = p.id /\ q.pc = "crashed" /\ q.content = None
    BY <1>0 DEF Pod, PodPC
  <2>2. pods' = (pods \ {p}) \cup {q} /\ UNCHANGED hostVars
    BY <1>5 DEF CrashContainer
  <2> HIDE DEF q
  <2> QED BY <1>0, <2>1, <2>2, PodRestarted DEF hostVars
<1>6. CASE (\E r \in reports : LoseReport(r)) \/ RestartManager \/ ReconcileError
  BY <1>1, <1>6 DEF LoseReport, RestartManager, ReconcileError
<1>7. ASSUME NEW n \in Nodes, SchedulePod(n) PROVE Goal
  BY <1>0, <1>7, PodAdded DEF SchedulePod, hostVars
<1>8. ASSUME NEW p \in pods, KillPod(p) PROVE Goal
  BY <1>0, <1>8, PodsFewer DEF KillPod, hostVars
<1>9. ASSUME NEW p \in pods, StartContainer(p) PROVE Goal
  <2> DEFINE q == [p EXCEPT !.pc = "load"]
  <2>1. q \in Pod /\ q.node = p.node /\ q.id = p.id /\ q.pc = "load" /\ q.content = p.content
    BY <1>0 DEF Pod, PodPC
  <2>2. pods' = (pods \ {p}) \cup {q} /\ UNCHANGED hostVars
    BY <1>9 DEF StartContainer
  <2> HIDE DEF q
  <2> QED BY <1>0, <2>1, <2>2, PodRestarted DEF hostVars
<1>10. CASE SyncProfile \/ (\E n \in Nodes : NodeCacheSync(n))
            \/ \E r \in reports : applyScriptReport(r)
  BY <1>1, <1>10 DEF SyncProfile, NodeCacheSync, applyScriptReport, IgnoreReport,
                     RecordScriptReport, RecordStatus, ConflictOnReport
<1>11. CASE ScriptReconcileStep
  <2>1. UNCHANGED hostVars
    BY <1>11 DEF ScriptReconcileStep, ScriptReconcileStart, ReconcileStart, AddFinalizer,
           RemoveFinalizer, UpdateStatus, UpdateProfile, CleanupScriptDaemonSet,
           CleanupScriptConfigMap, EnsureScriptConfigMap, SelectScriptNodes,
           ReconcileScriptDaemonSet
  <2>2. pods' = pods \/ pods' = Orphaned("applier")
    BY <1>11 DEF ScriptReconcileStep, ScriptReconcileStart, ReconcileStart, AddFinalizer,
           RemoveFinalizer, UpdateStatus, UpdateProfile, CleanupScriptDaemonSet,
           CleanupScriptConfigMap, EnsureScriptConfigMap, SelectScriptNodes,
           ReconcileScriptDaemonSet, deleteScriptDaemonSet, ensureScriptDaemonSet,
           deleteDaemonSet, ensureDaemonSet
  <2> QED BY <1>0, <1>1, <2>1, <2>2, PodsOrphaned DEF hostVars
<1>12. CASE ScriptFailureNext
  BY <1>4, <1>5, <1>6, <1>12 DEF ScriptFailureNext
<1>13. CASE ScriptClusterNext
  BY <1>7, <1>8, <1>9, <1>13 DEF ScriptClusterNext
<1>14. CASE ScriptManagerNext
  BY <1>10, <1>11, <1>14 DEF ScriptManagerNext
<1> QED BY <1>2, <1>3, <1>12, <1>13, <1>14 DEF OthersNext

----------------------------------------------------------------------------
\* Nodes, reports and the environment.

LEMMA ScriptTypeNodes ==
    ASSUME ScriptTypeOK, [ScriptNext]_allVars
    PROVE  NodesTypeOK' /\ (NoneRemoved => NoneRemoved')
<1>0. nodes \in [Nodes -> NodeLabels] /\ nodeCache \in [Nodes -> NodeLabels]
  BY DEF ScriptTypeOK, NodesTypeOK
<1>1. CASE UNCHANGED <<nodes, nodeCache>>
  BY <1>0, <1>1 DEF NodesTypeOK, NoneRemoved
<1>2. CASE UNCHANGED allVars
  BY <1>1, <1>2 DEF allVars, vars, nodeVars
<1>3. CASE ScriptUserNext
  BY <1>1, <1>3, ScriptUserFrame DEF nodeVars
<1>4. ASSUME NEW n \in Nodes, NEW kind \in {"join", "relabel"}, NEW label \in NodeLabels,
             ChangeNode(n, kind, label)
      PROVE  NodesTypeOK' /\ (NoneRemoved => NoneRemoved')
  <2>1. nodes[n] # "gone" => label # "gone"
    BY <1>4 DEF ChangeNode, Alive
  <2>2. nodes' = [nodes EXCEPT ![n] = label] /\ nodeCache' = nodeCache /\ label # nodes[n]
    BY <1>4 DEF ChangeNode
  <2> QED BY <1>0, <2>1, <2>2 DEF NodesTypeOK, NoneRemoved
<1>5. ASSUME NEW n \in Nodes, NodeCacheSync(n)
      PROVE  NodesTypeOK' /\ (NoneRemoved => NoneRemoved')
  BY <1>0, <1>5 DEF NodeCacheSync, NodesTypeOK, NoneRemoved
<1>6. CASE RestartManager
  BY <1>0, <1>6 DEF RestartManager, NodesTypeOK, NoneRemoved
<1>7. CASE SyncProfile \/ ReconcileError \/ (\E r \in reports : LoseReport(r))
           \/ (\E p \in pods : CrashContainer(p)) \/ \E r \in reports : applyScriptReport(r)
  BY <1>1, <1>7 DEF SyncProfile, ReconcileError, LoseReport, CrashContainer, applyScriptReport,
         IgnoreReport, RecordScriptReport, RecordStatus, ConflictOnReport, nodeVars
<1>8. CASE ScriptReconcileStep
  BY <1>1, <1>8 DEF ScriptReconcileStep, ScriptReconcileStart, ReconcileStart, AddFinalizer,
         RemoveFinalizer, UpdateStatus, UpdateProfile, CleanupScriptDaemonSet,
         CleanupScriptConfigMap, EnsureScriptConfigMap, SelectScriptNodes,
         ReconcileScriptDaemonSet, nodeVars
<1>9. CASE ScriptClusterNext
  BY <1>1, <1>9 DEF ScriptClusterNext, SchedulePod, KillPod, StartContainer, nodeVars
<1>10. CASE \E p \in pods : ScriptWorkerNext(p)
  BY <1>1, <1>10 DEF ScriptWorkerNext, LoadScripts, Load, LoadRefused, RunScript, ScriptsDone,
                     sendReport, nodeVars
<1>11. CASE ScriptFailureNext
  BY <1>4, <1>6, <1>7, <1>11 DEF ScriptFailureNext
<1>12. CASE ScriptManagerNext
  BY <1>5, <1>7, <1>8, <1>12 DEF ScriptManagerNext
<1> QED BY <1>2, <1>3, <1>9, <1>10, <1>11, <1>12 DEF ScriptNext

\* A report on its way says what it said before, or is the one just sent.
LEMMA ScriptReports ==
    ASSUME ScriptTypeOK, [ScriptNext]_allVars
    PROVE  /\ EnvTypeOK'
           /\ \A q \in reports' :
                \/ \E r \in reports :
                      q.node = r.node /\ q.hash = r.hash /\ q.success = r.success
                \/ \E p \in pods :
                      /\ p.pc \in {"sendOk", "sendFailed"}
                      /\ q.node = p.node
                      /\ q.hash = HashBytes(p.content)
                      /\ q.success <=> p.pc = "sendOk"
<1> DEFINE Same(q) == \E r \in reports :
                         q.node = r.node /\ q.hash = r.hash /\ q.success = r.success
           Sent(q) == \E p \in pods :
                         /\ p.pc \in {"sendOk", "sendFailed"}
                         /\ q.node = p.node
                         /\ q.hash = HashBytes(p.content)
                         /\ q.success <=> p.pc = "sendOk"
<1>0. reports \subseteq InFlight /\ env \in 0 .. MaxEnv /\ mishap \in BOOLEAN /\ pods \subseteq Pod
  BY DEF ScriptTypeOK, EnvTypeOK, HostsTypeOK
<1>1. CASE UNCHANGED <<reports, env, mishap>>
  BY <1>0, <1>1 DEF EnvTypeOK
<1>2. ASSUME NEW kind, Env(kind), reports' \subseteq reports, mishap' \in BOOLEAN
      PROVE  EnvTypeOK' /\ \A q \in reports' : Same(q)
  <2>1. env' \in 0 .. MaxEnv
    BY <1>0, <1>2, BoundsAssumption DEF Env
  <2> QED BY <1>0, <1>2, <2>1 DEF EnvTypeOK
<1>3. CASE UNCHANGED allVars
  BY <1>1, <1>3 DEF allVars, vars, envVars
<1>4. CASE ScriptUserNext
  <2>1. \E kind : Env(kind)
    BY <1>4 DEF ScriptUserNext, CreateProfile, EditSpec, DeleteProfile
  <2> QED BY <1>0, <1>2, <1>4, <2>1, ScriptUserFrame
<1>5. CASE ScriptFailureNext
  <2>1. ASSUME NEW n \in Nodes, NEW kind, NEW label, ChangeNode(n, kind, label)
        PROVE  EnvTypeOK' /\ \A q \in reports' : Same(q)
    BY <1>0, <1>2, <2>1 DEF ChangeNode
  <2>2. ASSUME NEW p \in pods, CrashContainer(p)
        PROVE  EnvTypeOK' /\ \A q \in reports' : Same(q)
    BY <1>0, <1>2, <2>2 DEF CrashContainer
  <2>3. ASSUME NEW r \in reports, LoseReport(r)
        PROVE  EnvTypeOK' /\ \A q \in reports' : Same(q)
    BY <1>0, <1>2, <2>3 DEF LoseReport
  <2>4. CASE RestartManager
    <3>1. mishap' \in BOOLEAN
      BY <2>4 DEF RestartManager
    <3> QED BY <1>2, <2>4, <3>1 DEF RestartManager
  <2>5. CASE ReconcileError
    BY <1>0, <1>2, <2>5 DEF ReconcileError
  <2> QED BY <1>5, <2>1, <2>2, <2>3, <2>4, <2>5 DEF ScriptFailureNext
<1>6. CASE ScriptClusterNext
  BY <1>1, <1>6 DEF ScriptClusterNext, SchedulePod, KillPod, StartContainer, envVars
<1>7. CASE ScriptReconcileStep
  BY <1>1, <1>7 DEF ScriptReconcileStep, ScriptReconcileStart, ReconcileStart, AddFinalizer,
         RemoveFinalizer, UpdateStatus, UpdateProfile, CleanupScriptDaemonSet,
         CleanupScriptConfigMap, EnsureScriptConfigMap, SelectScriptNodes,
         ReconcileScriptDaemonSet, envVars
<1>8. CASE SyncProfile \/ \E n \in Nodes : NodeCacheSync(n)
  BY <1>1, <1>8 DEF SyncProfile, NodeCacheSync, envVars
<1>9. ASSUME NEW r \in reports, applyScriptReport(r)
      PROVE  EnvTypeOK' /\ \A q \in reports' : Same(q)
  <2>1. CASE IgnoreReport(r)
    BY <1>0, <2>1 DEF IgnoreReport, EnvTypeOK, envVars
  <2>2. CASE RecordScriptReport(r)
    <3>1. mishap' \in BOOLEAN
      BY <2>2 DEF RecordScriptReport, RecordStatus
    <3> QED BY <1>0, <2>2, <3>1 DEF RecordScriptReport, RecordStatus, EnvTypeOK
  <2>3. CASE ConflictOnReport(r)
    <3> DEFINE t == [r EXCEPT !.tries = @ + 1]
    <3>1. retriesLeft(r.tries) => t \in InFlight
      BY <1>0, BoundsAssumption DEF retriesLeft, InFlight
    <3>2. t.node = r.node /\ t.hash = r.hash /\ t.success = r.success
      BY <1>0 DEF InFlight
    <3>3. env' = env /\ mishap' \in BOOLEAN
      BY <1>0, <2>3 DEF ConflictOnReport
    <3>4. reports' = reports \ {r} \/ (retriesLeft(r.tries) /\ reports' = (reports \ {r}) \cup {t})
      BY <2>3 DEF ConflictOnReport
    <3> HIDE DEF t
    <3> QED BY <1>0, <3>1, <3>2, <3>3, <3>4 DEF EnvTypeOK
  <2> QED BY <1>9, <2>1, <2>2, <2>3 DEF applyScriptReport
<1>10. ASSUME NEW p \in pods, ScriptWorkerNext(p)
       PROVE  EnvTypeOK' /\ \A q \in reports' : Same(q) \/ Sent(q)
  <2>1. CASE (\E c \in rendered : LoadScripts(p, c) \/ LoadRefused(p, c)) \/ ScriptsDone(p)
    BY <1>1, <2>1 DEF LoadScripts, Load, LoadRefused, ScriptsDone, envVars
  <2>2. ASSUME NEW ok \in BOOLEAN, RunScript(p, ok)
        PROVE  EnvTypeOK' /\ \A q \in reports' : Same(q)
    BY <1>0, <1>1, <1>2, <2>2 DEF RunScript, envVars
  <2>3. CASE sendReport(p)
    <3> DEFINE r == [node |-> p.node, hash |-> HashBytes(p.content),
                     success |-> p.pc = "sendOk", tries |-> 0]
    <3>1. p \in Pod /\ p.pc \in {"sendOk", "sendFailed"} /\ p.content \in Configs
      BY <1>0, <2>3 DEF sendReport, ScriptTypeOK, HostsTypeOK, Pod
    <3>2. HashBytes(p.content) \in Hashes /\ p.node \in Nodes
      BY <3>1, HashType DEF HashBytes, Pod
    <3>3. r \in InFlight
      BY <3>2, BoundsAssumption DEF InFlight
    <3>4. reports' = reports \cup {r} /\ UNCHANGED envVars
      BY <2>3 DEF sendReport
    <3>5. r.node = p.node /\ r.hash = HashBytes(p.content) /\ (r.success <=> p.pc = "sendOk")
      OBVIOUS
    <3> HIDE DEF r
    <3>6. Sent(r)
      BY <3>1, <3>5
    <3> QED BY <1>0, <3>3, <3>4, <3>6 DEF EnvTypeOK, envVars
  <2> QED BY <1>10, <2>1, <2>2, <2>3 DEF ScriptWorkerNext
<1>11. CASE ScriptManagerNext
  BY <1>7, <1>8, <1>9, <1>11 DEF ScriptManagerNext
<1> QED BY <1>3, <1>4, <1>5, <1>6, <1>10, <1>11 DEF ScriptNext

----------------------------------------------------------------------------
\* Lists of scripts and their beginnings.

LEMMA PrefixEmpty ==
    ASSUME NEW S, NEW t \in Seq(S)
    PROVE  IsPrefix(<<>>, t)
<1>1. SubSeq(<<>>, 1, 0) = <<>> /\ SubSeq(t, 1, 0) = <<>>
  OBVIOUS
<1>2. Len(<<>>) = 0 /\ Len(t) >= 0
  OBVIOUS
<1> QED BY <1>1, <1>2 DEF IsPrefix

\* A beginning agrees with the list as far as it goes.
LEMMA PrefixAgrees ==
    ASSUME NEW S, NEW s \in Seq(S), NEW t \in Seq(S)
    PROVE  IsPrefix(s, t) <=> Len(s) <= Len(t) /\ \A i \in 1 .. Len(s) : s[i] = t[i]
<1>1. Len(s) \in Nat /\ Len(t) \in Nat
  OBVIOUS
<1>2. SubSeq(s, 1, Len(s)) = [i \in 1 .. Len(s) |-> s[i]]
  BY <1>1
<1>3. SUFFICES ASSUME Len(s) <= Len(t)
               PROVE  SubSeq(s, 1, Len(s)) = SubSeq(t, 1, Len(s))
                          <=> \A i \in 1 .. Len(s) : s[i] = t[i]
  BY <1>1 DEF IsPrefix
<1>4. SubSeq(t, 1, Len(s)) = [i \in 1 .. Len(s) |-> t[i]]
  BY <1>1, <1>3
<1> QED BY <1>2, <1>4

LEMMA PrefixNext ==
    ASSUME NEW S, NEW s \in Seq(S), NEW t \in Seq(S), IsPrefix(s, t), Len(s) < Len(t)
    PROVE  /\ Append(s, t[Len(s) + 1]) \in Seq(S)
           /\ IsPrefix(Append(s, t[Len(s) + 1]), t)
<1> DEFINE x == t[Len(s) + 1]
           u == Append(s, x)
<1>1. Len(s) + 1 \in 1 .. Len(t) /\ x \in S
  OBVIOUS
<1>2. u \in Seq(S) /\ Len(u) = Len(s) + 1
  BY <1>1
<1>3. \A i \in 1 .. Len(u) : u[i] = t[i]
  BY <1>1, <1>2, PrefixAgrees
<1> HIDE DEF u
<1>4. IsPrefix(u, t)
  BY <1>1, <1>2, <1>3, PrefixAgrees
<1> QED BY <1>2, <1>4 DEF u

LEMMA PrefixAll ==
    ASSUME NEW S, NEW s \in Seq(S), NEW t \in Seq(S), IsPrefix(s, t), ~(Len(s) < Len(t))
    PROVE  s = t
<1>1. Len(s) = Len(t) /\ \A i \in 1 .. Len(s) : s[i] = t[i]
  BY PrefixAgrees
<1> QED BY <1>1

----------------------------------------------------------------------------
\* The worker in script mode.

Process == [log : Seq(ScriptType), failed : BOOLEAN]

RanTypeOK == ran \in [Nodes -> [1 .. MaxPodsPerNode -> Process]]

\* The process in pod i on node n changes to r.
RanStep(n, i, r) == ran' = [ran EXCEPT ![n][i] = r]

\* What a process notes in its log is noted in no other.
LEMMA RanExcept ==
    ASSUME RanTypeOK, NEW n \in Nodes, NEW i \in 1 .. MaxPodsPerNode, NEW r \in Process,
           RanStep(n, i, r)
    PROVE  /\ RanTypeOK'
           /\ ran'[n][i] = r
           /\ \A m \in Nodes, j \in 1 .. MaxPodsPerNode :
                m # n \/ j # i => ran'[m][j] = ran[m][j]
<1> USE DEF RanTypeOK
<1> DEFINE f == [ran[n] EXCEPT ![i] = r]
<1>1. f \in [1 .. MaxPodsPerNode -> Process] /\ f[i] = r
      /\ \A j \in 1 .. MaxPodsPerNode : j # i => f[j] = ran[n][j]
  OBVIOUS
<1>2. ran' = [ran EXCEPT ![n] = f]
  BY DEF RanStep
<1> HIDE DEF f
<1> QED BY <1>1, <1>2

\* A pod's step leaves the logs of the other pods alone.
LEMMA PodRan ==
    ASSUME RanTypeOK, PodsApart,
           \A q \in pods : q.node \in Nodes /\ q.id \in 1 .. MaxPodsPerNode,
           NEW p \in pods, NEW r \in Process, RanStep(p.node, p.id, r)
    PROVE  /\ RanTypeOK'
           /\ ran'[p.node][p.id] = r
           /\ \A x \in pods : x # p => ran'[x.node][x.id] = ran[x.node][x.id]
<1>1. /\ RanTypeOK'
      /\ ran'[p.node][p.id] = r
      /\ \A m \in Nodes, j \in 1 .. MaxPodsPerNode :
           m # p.node \/ j # p.id => ran'[m][j] = ran[m][j]
  BY RanExcept
<1>2. \A x \in pods : x # p => x.node # p.node \/ x.id # p.id
  BY DEF PodsApart
<1> QED BY <1>1, <1>2

LEMMA FreshProcess == Fresh \in Process
BY DEF Fresh, Process

\* What a worker's step does to the pods, the logs and the node.
LEMMA ScriptWorkerTypes ==
    ASSUME ScriptTypeOK, PodsApart, NEW p \in pods, ScriptWorkerNext(p)
    PROVE  HostsTypeOK' /\ RunsTypeOK' /\ RunsInOrder' /\ PodsApart'
<1>0. /\ pods \subseteq Pod /\ p \in Pod /\ p.node \in Nodes /\ p.id \in 1 .. MaxPodsPerNode
      /\ \A q \in pods : q.node \in Nodes /\ q.id \in 1 .. MaxPodsPerNode
      /\ rendered \subseteq Configs
      /\ RanTypeOK
      /\ live \in [Nodes -> Configs \cup {None}]
      /\ written \in [Nodes -> SUBSET Hashes]
      /\ completed \in [Nodes -> SUBSET Seq(ScriptType)]
      /\ HostsTypeOK /\ RunsTypeOK /\ RunsInOrder
  BY DEF ScriptTypeOK, HostsTypeOK, OwnedTypeOK, RunsTypeOK, RanTypeOK, Process, Pod
<1>1. p.pc \in {"apply", "sendOk", "sendFailed"} => p.content \in Configs /\ p.content # None
  BY <1>0 DEF HostsTypeOK, Pod
<1>2. Running(p) \in Process /\ Running(p).log \in Seq(ScriptType) /\ Running(p).failed \in BOOLEAN
  BY <1>0 DEF RanTypeOK, Running, Process
\* Moving to another pc keeps the pod a pod.
<1>3. ASSUME NEW l \in PodPC
      PROVE  LET q == [p EXCEPT !.pc = l]
             IN  q \in Pod /\ q.pc = l /\ q.content = p.content /\ q.node = p.node /\ q.id = p.id
  BY <1>0 DEF Pod
<1>4. /\ RanTypeOK /\ PodsApart
      /\ \A q \in pods : q.node \in Nodes /\ q.id \in 1 .. MaxPodsPerNode
  BY <1>0
\* A step that leaves the logs alone and moves p to a pc other than "apply".
<1>5. ASSUME NEW q \in Pod, q.node = p.node, q.id = p.id, q.pc # "apply",
             q.pc \in {"sendOk", "sendFailed"} => q.content # None,
             pods' = (pods \ {p}) \cup {q},
             \A x \in pods : x # p => ran'[x.node][x.id] = ran[x.node][x.id]
      PROVE  /\ pods' \subseteq Pod
             /\ \A x \in pods' : x.pc \in {"apply", "sendOk", "sendFailed"} => x.content # None
             /\ RunsInOrder'
             /\ PodsApart'
  <2>1. pods' \subseteq Pod /\ PodsApart'
    BY <1>0, <1>5, PodReplaced
  <2>2. \A x \in pods' : x.pc \in {"apply", "sendOk", "sendFailed"} => x.content # None
    BY <1>0, <1>5 DEF HostsTypeOK
  <2>3. RunsInOrder'
    BY <1>0, <1>5 DEF RunsInOrder, Running
  <2> QED BY <2>1, <2>2, <2>3
<1>6. ASSUME NEW c \in rendered, LoadScripts(p, c)
      PROVE  HostsTypeOK' /\ RunsTypeOK' /\ RunsInOrder' /\ PodsApart'
  <2> DEFINE q == [p EXCEPT !.pc = "apply", !.content = c]
  <2>1. /\ pods' = (pods \ {p}) \cup {q}
        /\ ran' = [ran EXCEPT ![p.node][p.id] = Fresh]
        /\ completed' = completed /\ UNCHANGED hostVars
    BY <1>6 DEF LoadScripts, Load, Replace, newProcess
  <2>2. /\ q \in Pod /\ q.node = p.node /\ q.id = p.id /\ q.pc = "apply" /\ q.content = c
        /\ c \in Configs /\ c # None
    BY <1>0, NoneAssumption DEF Pod, PodPC
  <2> HIDE DEF q
  <2>3. pods' \subseteq Pod /\ PodsApart'
    BY <1>0, <2>1, <2>2, PodReplaced
  <2>4. HostsTypeOK'
    BY <1>0, <2>1, <2>2, <2>3 DEF HostsTypeOK, hostVars
  <2>5. /\ RanTypeOK'
        /\ ran'[p.node][p.id] = Fresh
        /\ \A x \in pods : x # p => ran'[x.node][x.id] = ran[x.node][x.id]
    <3>1. RanStep(p.node, p.id, Fresh)
      BY <2>1 DEF RanStep
    <3> QED BY <1>4, <3>1, PodRan, FreshProcess
  <2>6. IsPrefix(Fresh.log, ParseScripts(c))
    BY <2>2, FileParsed, PrefixEmpty DEF Fresh
  <2>7. RunsInOrder'
    BY <1>0, <2>1, <2>2, <2>5, <2>6 DEF RunsInOrder, Running
  <2> QED BY <1>0, <2>1, <2>3, <2>4, <2>5, <2>7 DEF RunsTypeOK, RanTypeOK, Process
<1>7. ASSUME NEW c \in rendered, LoadRefused(p, c), UNCHANGED scriptVars
      PROVE  HostsTypeOK' /\ RunsTypeOK' /\ RunsInOrder' /\ PodsApart'
  <2> DEFINE q == [p EXCEPT !.pc = "crashed"]
  <2>1. pods' = (pods \ {p}) \cup {q} /\ UNCHANGED hostVars
    BY <1>7 DEF LoadRefused, Replace
  <2>2. q \in Pod /\ q.node = p.node /\ q.id = p.id /\ q.pc = "crashed"
    BY <1>3 DEF PodPC
  <2> HIDE DEF q
  <2> QED BY <1>0, <1>5, <1>7, <2>1, <2>2 DEF HostsTypeOK, RunsTypeOK, hostVars, scriptVars
<1>8. ASSUME NEW ok \in BOOLEAN, RunScript(p, ok)
      PROVE  HostsTypeOK' /\ RunsTypeOK' /\ RunsInOrder' /\ PodsApart'
  <2> DEFINE t == ParseScripts(p.content)
             s == Running(p).log
  <2>1. /\ p.pc = "apply" /\ Len(s) < Len(t)
        /\ UNCHANGED <<pods, hostVars, completed>>
        /\ ran' = [ran EXCEPT ![p.node][p.id] =
                     [log |-> Append(@.log, t[Len(s) + 1]), failed |-> @.failed \/ ~ok]]
    BY <1>8 DEF RunScript, scriptsLeft
  <2>2. t \in Seq(ScriptType) /\ IsPrefix(s, t)
    BY <1>0, <1>1, <2>1, FileParsed DEF RunsInOrder
  <2>3. Append(s, t[Len(s) + 1]) \in Seq(ScriptType) /\ IsPrefix(Append(s, t[Len(s) + 1]), t)
    BY <1>2, <2>1, <2>2, PrefixNext
  <2>4. PICK r \in Process : /\ r.log = Append(s, t[Len(s) + 1])
                             /\ ran' = [ran EXCEPT ![p.node][p.id] = r]
    <3> DEFINE x == [log |-> Append(s, t[Len(s) + 1]), failed |-> Running(p).failed \/ ~ok]
    <3>1. ran' = [ran EXCEPT ![p.node][p.id] = x]
      BY <1>0, <2>1 DEF RanTypeOK, Running
    <3>2. x \in Process /\ x.log = Append(s, t[Len(s) + 1])
      BY <1>2, <2>3 DEF Process
    <3> HIDE DEF x
    <3> QED BY <3>1, <3>2
  <2>5. /\ RanTypeOK'
        /\ ran'[p.node][p.id] = r
        /\ \A x \in pods : x # p => ran'[x.node][x.id] = ran[x.node][x.id]
    <3>1. r \in Process /\ RanStep(p.node, p.id, r)
      BY <2>4 DEF RanStep
    <3> QED BY <1>4, <3>1, PodRan
  <2>6. RunsInOrder'
    <3> SUFFICES ASSUME NEW x \in pods, x.pc = "apply"
                 PROVE  IsPrefix(ran'[x.node][x.id].log, ParseScripts(x.content))
      BY <2>1 DEF RunsInOrder, Running
    <3>1. CASE x = p
      BY <2>3, <2>4, <2>5, <3>1
    <3>2. CASE x # p
      BY <1>0, <2>5, <3>2 DEF RunsInOrder, Running
    <3> QED BY <3>1, <3>2
  <2>7. HostsTypeOK' /\ PodsApart'
    BY <1>0, <2>1 DEF HostsTypeOK, PodsApart, hostVars
  <2> QED BY <1>0, <2>1, <2>5, <2>6, <2>7 DEF RunsTypeOK, RanTypeOK, Process
<1>9. CASE ScriptsDone(p)
  <2> DEFINE l == IF resultOK(Running(p).failed) THEN "sendOk" ELSE "sendFailed"
             q == [p EXCEPT !.pc = l]
  <2>1. /\ p.pc = "apply"
        /\ pods' = (pods \ {p}) \cup {q}
        /\ ran' = [ran EXCEPT ![p.node][p.id] = Fresh]
    BY <1>9 DEF ScriptsDone, Replace
  <2>2. l \in PodPC /\ l # "apply"
    BY DEF PodPC
  <2>3. q \in Pod /\ q.node = p.node /\ q.id = p.id /\ q.pc # "apply" /\ q.content = p.content
    BY <1>3, <2>2
  <2>4. HashBytes(p.content) \in Hashes
    BY <1>1, <2>1, HashType DEF HashBytes
  <2> HIDE DEF q
  <2>5. /\ RanTypeOK'
        /\ \A x \in pods : x # p => ran'[x.node][x.id] = ran[x.node][x.id]
    <3>1. RanStep(p.node, p.id, Fresh)
      BY <2>1 DEF RanStep
    <3> QED BY <1>4, <3>1, PodRan, FreshProcess
  <2>6. live' \in [Nodes -> Configs \cup {None}]
    BY <1>0, <1>1, <1>9, <2>1 DEF ScriptsDone
  <2>7. written' \in [Nodes -> SUBSET Hashes]
    BY <1>0, <1>9, <2>4 DEF ScriptsDone
  <2>8. completed' \in [Nodes -> SUBSET Seq(ScriptType)]
    BY <1>0, <1>2, <1>9 DEF ScriptsDone
  <2> QED BY <1>1, <1>5, <2>1, <2>3, <2>5, <2>6, <2>7, <2>8 DEF HostsTypeOK, RunsTypeOK, RanTypeOK, Process
<1>10. ASSUME sendReport(p), UNCHANGED scriptVars
       PROVE  HostsTypeOK' /\ RunsTypeOK' /\ RunsInOrder' /\ PodsApart'
  <2> DEFINE q == [p EXCEPT !.pc = "wait"]
  <2>1. pods' = (pods \ {p}) \cup {q} /\ UNCHANGED hostVars
    BY <1>10 DEF sendReport, Replace
  <2>2. q \in Pod /\ q.node = p.node /\ q.id = p.id /\ q.pc = "wait"
    BY <1>3 DEF PodPC
  <2> HIDE DEF q
  <2> QED BY <1>0, <1>5, <1>10, <2>1, <2>2 DEF HostsTypeOK, RunsTypeOK, hostVars, scriptVars
<1> QED BY <1>6, <1>7, <1>8, <1>9, <1>10 DEF ScriptWorkerNext

\* So do the steps of the others.
LEMMA ScriptOthersTypes ==
    ASSUME ScriptTypeOK, PodsApart, OthersNext \/ UNCHANGED allVars
    PROVE  HostsTypeOK' /\ RunsTypeOK' /\ RunsInOrder' /\ PodsApart'
<1>0. HostsTypeOK /\ RunsTypeOK /\ RunsInOrder
  BY DEF ScriptTypeOK
<1>1. /\ PodsMove /\ written' = written /\ live' \in [Nodes -> Configs \cup {None}]
      /\ ran' = ran /\ completed' = completed
  BY OthersPods DEF scriptVars
<1>2. \A q \in pods' : q.pc \in {"apply", "sendOk", "sendFailed"} => q.content # None
  BY <1>0, <1>1 DEF PodsMove, HostsTypeOK
<1>3. RunsInOrder'
  <2> SUFFICES ASSUME NEW q \in pods', q.pc = "apply"
               PROVE  IsPrefix(ran[q.node][q.id].log, ParseScripts(q.content))
    BY <1>1 DEF RunsInOrder, Running
  <2>1. PICK p \in pods : p.node = q.node /\ p.id = q.id /\ p.pc = q.pc /\ p.content = q.content
    BY <1>1 DEF PodsMove
  <2> QED BY <1>0, <2>1 DEF RunsInOrder, Running
<1> QED BY <1>0, <1>1, <1>2, <1>3 DEF PodsMove, HostsTypeOK, RunsTypeOK

LEMMA ScriptTypeStep ==
    ScriptTypeOK /\ PodsApart /\ [ScriptNext]_allVars => ScriptTypeOK' /\ PodsApart'
<1> SUFFICES ASSUME ScriptTypeOK, PodsApart, [ScriptNext]_allVars
             PROVE  ScriptTypeOK' /\ PodsApart'
  OBVIOUS
<1>1. \/ OthersNext \/ UNCHANGED allVars
      \/ \E p \in pods : ScriptWorkerNext(p)
  BY DEF ScriptNext, OthersNext
<1>2. HostsTypeOK' /\ RunsTypeOK' /\ RunsInOrder' /\ PodsApart'
  BY <1>1, ScriptWorkerTypes, ScriptOthersTypes
<1> QED BY <1>2, ScriptTypeProfile, ScriptTypeNodes, ScriptReports DEF ScriptTypeOK

LEMMA ScriptTypeInit == ScriptInit => ScriptTypeOK /\ PodsApart
<1> SUFFICES ASSUME ScriptInit PROVE ScriptTypeOK /\ PodsApart
  OBVIOUS
<1>1. TypeOK
  BY TypeInit DEF ScriptInit
<1> USE DEF ScriptInit, Init
<1>2. ScriptProfileTypeOK
  BY DEF ScriptProfileTypeOK, MaybeScriptProfile
<1>3. ScriptReconcileTypeOK
  <2>1. pc \in ReconcilePC \ {"cronJob", "cleanupCronJob"}
    BY DEF ReconcilePC
  <2>2. (snap = None) <=> (pc = "idle")
    OBVIOUS
  <2> QED BY <2>1, <2>2 DEF ScriptReconcileTypeOK, MaybeScriptProfile
<1>4. RunsTypeOK
  BY FreshProcess DEF RunsTypeOK, Process
<1>5. RunsInOrder /\ PodsApart /\ cronJob = None
  BY DEF RunsInOrder, PodsApart
<1> QED BY <1>1, <1>2, <1>3, <1>4, <1>5 DEF ScriptTypeOK, TypeOK

\* Types of the system for a ScriptProfile, and that a process runs its
\* scripts in order, each at most once, whatever crashes and is replaced.
THEOREM ScriptTypeCorrect == ScriptSpec => []ScriptTypeOK
<1>1. ScriptSpec => [](ScriptTypeOK /\ PodsApart)
  BY ScriptTypeInit, ScriptTypeStep, PTL DEF ScriptSpec
<1> QED BY <1>1, PTL
----------------------------------------------------------------------------
\* Copies, progress and the finalizer.

\* What Reconcile and the report API know of the profile.
LEMMA ScriptCopyStep == ScriptTypeOK /\ CopyInv /\ [ScriptNext]_allVars => CopyInv'
<1> SUFFICES ASSUME ScriptTypeOK, CopyInv, [ScriptNext]_allVars PROVE CopyInv'
  OBVIOUS
<1>d. ASSUME Done, UNCHANGED profileVars PROVE CopyInv'
  BY <1>d DEF CopyInv, Done, profileVars
<1>w. ASSUME cacheFresh' = FALSE, snapFresh' = FALSE PROVE CopyInv'
  BY <1>w DEF CopyInv
\* A step of Reconcile before its last leaves the copies alone.
<1>g. ASSUME pc \notin {"idle", "status"}, pc' \notin {"idle", "status"},
             UNCHANGED <<profileVars, snap, snapFresh>>
      PROVE  CopyInv'
  BY <1>g DEF CopyInv, profileVars
<1>u. ASSUME NEW p, UpdateProfile(p) PROVE CopyInv'
  <2>1. CASE UpToDate(snapFresh)
    BY <1>u, <1>w, <2>1 DEF UpdateProfile, Done
  <2>2. CASE ~UpToDate(snapFresh)
    BY <1>u, <1>d, <2>2 DEF UpdateProfile, Fail
  <2> QED BY <2>1, <2>2
<1>1. CASE UNCHANGED <<profileVars, reconcileVars, ownedVars>>
  BY <1>1 DEF CopyInv, profileVars, reconcileVars
<1>2. CASE ScriptUserNext
  BY <1>2, <1>w, ScriptUserFrame
<1>3. CASE SyncProfile
  BY <1>3 DEF SyncProfile, CopyInv, reconcileVars
<1>4. CASE RestartManager
  BY <1>4 DEF RestartManager, CopyInv
<1>5. CASE ReconcileError
  BY <1>5, <1>d DEF ReconcileError, Fail
<1>6. ASSUME NEW r \in reports, RecordScriptReport(r) PROVE CopyInv'
  BY <1>6, <1>w DEF RecordScriptReport, RecordStatus, WriteProfile
<1>7. CASE ScriptReconcileStep
  <2>1. CASE ReconcileStart
    <3>1. CASE UNCHANGED reconcileVars
      BY <2>1, <3>1 DEF ReconcileStart, CopyInv, profileVars, reconcileVars
    <3>2. CASE pc' = entryPoint(cache) /\ snap' = cache /\ snapFresh' = cacheFresh
      <4>1. entryPoint(cache) \notin {"idle", "status"}
        BY DEF entryPoint, afterCleanup
      <4> QED BY <2>1, <3>2, <4>1 DEF ReconcileStart, CopyInv, profileVars
    <3> QED BY <2>1, <3>1, <3>2 DEF ReconcileStart
  <2>2. CASE AddFinalizer \/ RemoveFinalizer \/ UpdateStatus
    BY <2>2, <1>u DEF AddFinalizer, RemoveFinalizer, UpdateStatus
  <2>3. CASE CleanupScriptDaemonSet \/ CleanupScriptConfigMap
    BY <2>3, <1>g
       DEF CleanupScriptDaemonSet, CleanupScriptConfigMap, Goto, afterCleanupScript
  <2>4. CASE EnsureScriptConfigMap \/ SelectScriptNodes
    BY <2>4, <1>g DEF EnsureScriptConfigMap, SelectScriptNodes, Goto
  <2>5. CASE ReconcileScriptDaemonSet
    <3> DEFINE hash     == hashContent(renderScripts(snap.spec))
               complete == scriptAllNodesApplied(snap.status, selected, hash)
               status   == newStatus(snap.status, snap.generation, hash, complete)
    <3>1. CASE ~statusChanged(snap.status, status)
      BY <2>5, <3>1, <1>d DEF ReconcileScriptDaemonSet
    <3>2. CASE statusChanged(snap.status, status)
      <4>1. pc = "daemonSet" /\ pc' = "status" /\ snap' = [snap EXCEPT !.status = status]
            /\ UNCHANGED <<profileVars, snapFresh>>
        BY <2>5, <3>2 DEF ReconcileScriptDaemonSet
      <4>2. snap \in ScriptProfile
        BY <4>1 DEF ScriptTypeOK, ScriptReconcileTypeOK, MaybeScriptProfile
      <4>3. snap'.status = status
        BY <4>1, <4>2 DEF ScriptProfile
      <4>4. status.nodeStatuses = snap.status.nodeStatuses
        <5>1. /\ snap.status \in Status /\ snap.generation \in Nat /\ hash \in Hashes
              /\ complete \in BOOLEAN /\ selected \subseteq Nodes
          BY <4>2, ScriptFileType
             DEF ScriptTypeOK, ScriptReconcileTypeOK, ScriptProfile, scriptAllNodesApplied,
                 allNodesApplied
        <5> QED BY <5>1, NewStatusType
      <4> HIDE DEF status
      <4>5. snapFresh => snap = profile /\ cacheFresh /\ profile # None
        BY <4>1, <4>2, NoScriptProfileAssumption DEF CopyInv
      <4> QED BY <4>1, <4>3, <4>4, <4>5 DEF CopyInv, profileVars
    <3> QED BY <3>1, <3>2
  <2> QED BY <1>7, <2>1, <2>2, <2>3, <2>4, <2>5
          DEF ScriptReconcileStep, ScriptReconcileStart
<1>8. CASE \E n \in Nodes : NodeCacheSync(n)
  BY <1>1, <1>8 DEF NodeCacheSync
<1> QED BY <1>1, <1>2, <1>3, <1>4, <1>5, <1>6, <1>7, <1>8, ScriptFrame

\* How far cleanup and creation are.
LEMMA ScriptProgressStep == ScriptTypeOK /\ ProgressInv /\ [ScriptNext]_allVars => ProgressInv'
<1> SUFFICES ASSUME ScriptTypeOK, ProgressInv, [ScriptNext]_allVars PROVE ProgressInv'
  OBVIOUS
<1> USE DEF Creating
<1>0. configMap \in [ConfigMapNames -> Configs \cup {None}]
      /\ resourceName \in ConfigMapNames /\ cronJobName \in ConfigMapNames
      /\ resourceName # cronJobName /\ cronJob = None
  BY DEF ScriptTypeOK, OwnedTypeOK, ConfigMapNames, resourceName, cronJobName
<1>d. ASSUME pc' = "idle", UNCHANGED ownedVars PROVE ProgressInv'
  BY <1>d DEF ProgressInv, ownedVars
<1>1. CASE UNCHANGED <<pc, ownedVars>>
  BY <1>1 DEF ProgressInv, ownedVars
<1>2. CASE ReconcileError \/ RestartManager
  BY <1>2, <1>d DEF ReconcileError, RestartManager, Fail, Done
<1>3. CASE ScriptReconcileStep
  <2>1. CASE ReconcileStart
    <3>1. pc = "idle" /\ UNCHANGED ownedVars
          /\ (pc' = "idle" \/ pc' = entryPoint(cache))
      BY <2>1 DEF ReconcileStart, reconcileVars
    <3>2. entryPoint(cache) \in {"cleanupDaemonSet", "addFinalizer", "configMap"}
      BY DEF entryPoint, afterCleanup
    <3> QED BY <3>1, <3>2 DEF ProgressInv, ownedVars
  <2>2. CASE AddFinalizer \/ RemoveFinalizer \/ UpdateStatus
    BY <2>2, <1>d DEF AddFinalizer, RemoveFinalizer, UpdateStatus, UpdateProfile, Fail, Done
  <2>3. CASE CleanupScriptDaemonSet
    BY <1>0, <2>3
       DEF CleanupScriptDaemonSet, deleteScriptDaemonSet, deleteDaemonSet, Goto,
           afterCleanupScript, ProgressInv
  <2>4. CASE CleanupScriptConfigMap
    BY <2>4, <1>0
       DEF CleanupScriptConfigMap, scriptResourceName, Goto, afterCleanupScript, ProgressInv
  <2>5. CASE EnsureScriptConfigMap
    <3>1. renderScripts(snap.spec) # None
      BY <2>5, ScriptFileType
         DEF EnsureScriptConfigMap, ScriptTypeOK, ScriptReconcileTypeOK, MaybeScriptProfile,
             ScriptProfile
    <3> QED BY <1>0, <2>5, <3>1 DEF EnsureScriptConfigMap, scriptResourceName, Goto, ProgressInv
  <2>6. CASE SelectScriptNodes
    BY <2>6 DEF SelectScriptNodes, ProgressInv, ownedVars
  <2>7. CASE ReconcileScriptDaemonSet
    <3>1. pc = "daemonSet" /\ pc' \in {"status", "idle"} /\ configMap' = configMap
      BY <2>7 DEF ReconcileScriptDaemonSet, Done
    <3> QED BY <3>1 DEF ProgressInv
  <2> QED BY <1>3, <2>1, <2>2, <2>3, <2>4, <2>5, <2>6, <2>7
          DEF ScriptReconcileStep, ScriptReconcileStart
<1>4. CASE ScriptUserNext
  BY <1>1, <1>4, ScriptUserFrame
<1>5. CASE SyncProfile
  BY <1>1, <1>5 DEF SyncProfile, reconcileVars
<1>6. ASSUME NEW r \in reports, RecordScriptReport(r) PROVE ProgressInv'
  BY <1>1, <1>6 DEF RecordScriptReport, RecordStatus
<1>7. CASE \E n \in Nodes : NodeCacheSync(n)
  BY <1>1, <1>7 DEF NodeCacheSync, reconcileVars
<1> QED BY <1>1, <1>2, <1>3, <1>4, <1>5, <1>6, <1>7, ScriptFrame DEF reconcileVars

\* The finalizer: added before anything is created, removed when nothing is
\* left, and no copy that says otherwise survives its removal.
LEMMA ScriptFinalizerStep ==
    ScriptTypeOK /\ CopyInv /\ ProgressInv /\ FinalizerInv /\ [ScriptNext]_allVars => FinalizerInv'
<1> SUFFICES ASSUME ScriptTypeOK, CopyInv, ProgressInv, FinalizerInv, [ScriptNext]_allVars
             PROVE  FinalizerInv'
  OBVIOUS
<1> USE DEF Creating, Cleaning
<1>0. /\ configMap \in [ConfigMapNames -> Configs \cup {None}]
      /\ resourceName \in ConfigMapNames /\ cronJobName \in ConfigMapNames
      /\ resourceName # cronJobName
      /\ profile # None => profile \in ScriptProfile
      /\ pc # "idle" => snap \in ScriptProfile
  BY DEF ScriptTypeOK, OwnedTypeOK, ScriptProfileTypeOK, ScriptReconcileTypeOK, MaybeScriptProfile,
         ConfigMapNames, resourceName, cronJobName
\* Reconcile returns without a write.
<1>d. ASSUME pc' = "idle", UNCHANGED <<profileVars, ownedVars>> PROVE FinalizerInv'
  BY <1>d DEF FinalizerInv, Protected, NothingOwned, profileVars, ownedVars
\* Someone else writes the profile and keeps its finalizer.
<1>k. ASSUME Protected' <=> Protected, UNCHANGED <<cache, pc, snap, ownedVars>>
      PROVE  FinalizerInv'
  BY <1>k DEF FinalizerInv, NothingOwned, ownedVars
<1>1. CASE UNCHANGED <<profileVars, reconcileVars, ownedVars>>
  BY <1>1 DEF FinalizerInv, Protected, NothingOwned, profileVars, reconcileVars, ownedVars
<1>2. CASE ScriptUserNext
  BY <1>2, <1>k, ScriptUserFrame, ScriptUserWrite
<1>3. CASE SyncProfile
  BY <1>3 DEF SyncProfile, FinalizerInv, Protected, NothingOwned, reconcileVars, ownedVars
<1>4. CASE RestartManager
  BY <1>4 DEF RestartManager, FinalizerInv, Protected, NothingOwned, ownedVars
<1>5. CASE ReconcileError
  BY <1>5, <1>d DEF ReconcileError, Fail, Done
<1>6. ASSUME NEW r \in reports, RecordScriptReport(r) PROVE FinalizerInv'
  <2>1. Protected' <=> Protected
    BY <1>6, ScriptReportWrite, NoScriptProfileAssumption DEF Protected
  <2> QED BY <1>6, <1>k, <2>1, ScriptReportWrite
<1>7. CASE ScriptReconcileStep
  \* A step on behalf of a profile that has its finalizer, or is being cleaned up.
  <2>c. ASSUME Protected, UNCHANGED profileVars, pc' \in Creating \cup {"idle"},
               configMap'[cronJobName] = None
        PROVE  FinalizerInv'
    BY <2>c DEF FinalizerInv, Protected, profileVars
  <2>g. ASSUME pc \in Cleaning, pc' \in Cleaning, UNCHANGED <<profileVars, snap>>,
               NothingOwned => NothingOwned', configMap'[cronJobName] = None
        PROVE  FinalizerInv'
    BY <2>g DEF FinalizerInv, Protected, profileVars
  <2>1. CASE ReconcileStart
    <3>1. CASE UNCHANGED reconcileVars
      BY <1>1, <2>1, <3>1 DEF ReconcileStart
    <3>2. CASE cache # None /\ pc' = entryPoint(cache) /\ snap' = cache
      <4>1. CASE cache.deleting
        <5>1. pc' = "cleanupDaemonSet"
          BY <3>2, <4>1 DEF entryPoint, afterCleanup
        <5> QED BY <2>1, <3>2, <4>1, <5>1
                DEF ReconcileStart, FinalizerInv, Protected, NothingOwned, profileVars, ownedVars
      <4>2. CASE ~cache.deleting /\ cache.finalizer
        <5>1. pc' = "configMap"
          BY <3>2, <4>2 DEF entryPoint
        <5>2. Protected
          BY <3>2, <4>2 DEF FinalizerInv
        <5> QED BY <2>1, <2>c, <5>1, <5>2 DEF ReconcileStart, FinalizerInv, ownedVars
      <4>3. CASE ~cache.deleting /\ ~cache.finalizer
        <5>1. pc' = "addFinalizer"
          BY <3>2, <4>3 DEF entryPoint
        <5> QED BY <2>1, <5>1
                DEF ReconcileStart, FinalizerInv, Protected, NothingOwned, profileVars, ownedVars
      <4> QED BY <4>1, <4>2, <4>3
    <3> QED BY <2>1, <3>1, <3>2 DEF ReconcileStart
  <2>2. CASE AddFinalizer
    <3>1. CASE UpToDate(snapFresh)
      <4>1. profile' = [snap EXCEPT !.finalizer = TRUE] /\ cache' = cache /\ pc' = "idle"
            /\ UNCHANGED ownedVars
        BY <2>2, <3>1 DEF AddFinalizer, UpdateProfile, Done
      <4>2. snap \in ScriptProfile
        BY <1>0, <2>2 DEF AddFinalizer
      <4>3. Protected'
        BY <4>1, <4>2, NoScriptProfileAssumption DEF Protected, ScriptProfile
      <4> QED BY <4>1, <4>3 DEF FinalizerInv, ownedVars
    <3>2. CASE ~UpToDate(snapFresh)
      BY <1>d, <2>2, <3>2 DEF AddFinalizer, UpdateProfile, Fail, Done
    <3> QED BY <3>1, <3>2
  <2>3. CASE RemoveFinalizer
    <3>1. CASE UpToDate(snapFresh)
      <4>1. profile' = None /\ cache' = cache /\ pc' = "idle" /\ UNCHANGED ownedVars
        BY <2>3, <3>1 DEF RemoveFinalizer, UpdateProfile, Done
      <4>2. NothingOwned
        BY <2>3 DEF RemoveFinalizer, ProgressInv, NothingOwned
      <4>3. cache.deleting
        BY <2>3, <3>1 DEF RemoveFinalizer, UpToDate, CopyInv, FinalizerInv
      <4> QED BY <4>1, <4>2, <4>3 DEF FinalizerInv, Protected, NothingOwned, ownedVars
    <3>2. CASE ~UpToDate(snapFresh)
      BY <1>d, <2>3, <3>2 DEF RemoveFinalizer, UpdateProfile, Fail, Done
    <3> QED BY <3>1, <3>2
  <2>4. CASE UpdateStatus
    <3>1. CASE UpToDate(snapFresh)
      <4>1. profile' = [profile EXCEPT !.status = snap.status] /\ cache' = cache
            /\ pc' = "idle" /\ UNCHANGED ownedVars /\ profile \in ScriptProfile
        BY <1>0, <2>4, <3>1 DEF UpdateStatus, UpdateProfile, Done, UpToDate
      <4>2. snap.status \in Status
        BY <1>0, <2>4 DEF UpdateStatus, ScriptProfile
      <4>3. profile' \in ScriptProfile /\ profile'.finalizer = profile.finalizer
        BY <4>1, <4>2 DEF ScriptProfile
      <4>4. Protected'
        BY <2>4, <4>3, NoScriptProfileAssumption DEF UpdateStatus, Protected, FinalizerInv
      <4> QED BY <4>1, <4>4 DEF FinalizerInv, ownedVars
    <3>2. CASE ~UpToDate(snapFresh)
      BY <1>d, <2>4, <3>2 DEF UpdateStatus, UpdateProfile, Fail, Done
    <3> QED BY <3>1, <3>2
  <2>5. CASE CleanupScriptDaemonSet
    BY <2>5, <2>g
       DEF CleanupScriptDaemonSet, deleteScriptDaemonSet, deleteDaemonSet, Goto,
           afterCleanupScript, NothingOwned, FinalizerInv
  <2>6. CASE CleanupScriptConfigMap
    BY <1>0, <2>6, <2>g
       DEF CleanupScriptConfigMap, scriptResourceName, Goto,
           afterCleanupScript, NothingOwned, FinalizerInv
  <2>7. CASE EnsureScriptConfigMap
    BY <1>0, <2>7, <2>c DEF EnsureScriptConfigMap, scriptResourceName, Goto, FinalizerInv
  <2>8. CASE SelectScriptNodes
    BY <2>8, <2>c DEF SelectScriptNodes, FinalizerInv, ownedVars
  <2>9. CASE ReconcileScriptDaemonSet
    <3>1. pc' \in {"status", "idle"}
      BY <2>9 DEF ReconcileScriptDaemonSet, Done
    <3> QED BY <2>9, <2>c, <3>1 DEF ReconcileScriptDaemonSet, FinalizerInv
  <2> QED BY <1>7, <2>1, <2>2, <2>3, <2>4, <2>5, <2>6, <2>7, <2>8, <2>9
          DEF ScriptReconcileStep, ScriptReconcileStart
<1>8. CASE \E n \in Nodes : NodeCacheSync(n)
  BY <1>1, <1>8 DEF NodeCacheSync
<1> QED BY <1>1, <1>2, <1>3, <1>4, <1>5, <1>6, <1>7, <1>8, ScriptFrame

LEMMA ScriptControllerInit == ScriptInit => ScriptControllerInv
<1> SUFFICES ASSUME ScriptInit PROVE ScriptControllerInv
  OBVIOUS
<1>1. resourceName \in ConfigMapNames /\ cronJobName \in ConfigMapNames
  BY DEF ConfigMapNames
<1>2. CopyInv
  BY DEF ScriptInit, Init, CopyInv
<1>3. ProgressInv
  BY <1>1 DEF ScriptInit, Init, ProgressInv, Creating
<1>4. FinalizerInv
  BY <1>1 DEF ScriptInit, Init, FinalizerInv, Creating, Cleaning, Protected, NothingOwned
<1> QED BY <1>2, <1>3, <1>4, ScriptTypeInit DEF ScriptControllerInv

LEMMA ScriptControllerCorrect == ScriptSpec => []ScriptControllerInv
<1>1. ScriptControllerInv /\ [ScriptNext]_allVars => ScriptControllerInv'
  BY ScriptTypeStep, ScriptCopyStep, ScriptProgressStep, ScriptFinalizerStep
     DEF ScriptControllerInv
<1> QED BY <1>1, ScriptControllerInit, PTL DEF ScriptSpec

\* A ScriptProfile that is gone leaves nothing behind: the finalizer protocol
\* of its own Reconcile and cleanupScript.
THEOREM ScriptNothingOrphaned == ScriptSpec => []NothingOrphaned
<1>1. ScriptControllerInv => NothingOrphaned
  BY DEF ScriptControllerInv, FinalizerInv, Protected, NothingOwned, NothingOrphaned,
         ConfigMapNames
<1> QED BY <1>1, ScriptControllerCorrect, PTL
----------------------------------------------------------------------------
\* The manager at rest.

\* A profile without its finalizer is deleted at once.
LEMMA ScriptDeletingStep ==
    ASSUME ScriptTypeOK, DeletingHasFinalizer, [ScriptNext]_allVars
    PROVE  DeletingHasFinalizer'
<1>0. /\ profile # None => profile \in ScriptProfile
      /\ pc # "idle" => snap \in ScriptProfile
  BY DEF ScriptTypeOK, ScriptProfileTypeOK, ScriptReconcileTypeOK, MaybeScriptProfile
<1>1. CASE UNCHANGED profile
  BY <1>1 DEF DeletingHasFinalizer
<1>2. CASE ScriptUserNext
  BY <1>2, ScriptUserWrite
<1>3. ASSUME NEW r \in reports, RecordScriptReport(r) PROVE DeletingHasFinalizer'
  BY <1>3, ScriptReportWrite, NoScriptProfileAssumption DEF DeletingHasFinalizer
<1>4. CASE AddFinalizer
  <2>1. profile' = profile \/ profile' = [snap EXCEPT !.finalizer = TRUE]
    BY <1>4 DEF AddFinalizer, UpdateProfile, profileVars
  <2>2. snap \in ScriptProfile
    BY <1>0, <1>4 DEF AddFinalizer
  <2> QED BY <1>1, <2>1, <2>2 DEF ScriptProfile, DeletingHasFinalizer
<1>5. CASE RemoveFinalizer
  <2>1. profile' = profile \/ profile' = None
    BY <1>5 DEF RemoveFinalizer, UpdateProfile, profileVars
  <2> QED BY <1>1, <2>1 DEF DeletingHasFinalizer
<1>6. CASE UpdateStatus
  <2>1. profile' = profile \/ (profile # None /\ profile' = [profile EXCEPT !.status = snap.status])
    BY <1>6 DEF UpdateStatus, UpdateProfile, UpToDate, profileVars
  <2> QED BY <1>0, <1>1, <2>1 DEF ScriptProfile, DeletingHasFinalizer
<1>7. CASE ScriptReconcileStep
  BY <1>1, <1>4, <1>5, <1>6, <1>7
     DEF ScriptReconcileStep, ScriptReconcileStart, ReconcileStart, CleanupScriptDaemonSet,
         CleanupScriptConfigMap, EnsureScriptConfigMap, SelectScriptNodes,
         ReconcileScriptDaemonSet, profileVars
<1>8. CASE SyncProfile \/ RestartManager \/ ReconcileError \/ \E n \in Nodes : NodeCacheSync(n)
  BY <1>1, <1>8 DEF SyncProfile, RestartManager, ReconcileError, NodeCacheSync, profileVars
<1> QED BY <1>1, <1>2, <1>3, <1>7, <1>8, ScriptFrame DEF profileVars

\* The steps of Reconcile before its last two.
ScriptWorking == CleanupScriptDaemonSet \/ CleanupScriptConfigMap
                 \/ EnsureScriptConfigMap \/ SelectScriptNodes

LEMMA ScriptWorkingFrame ==
    ASSUME ScriptTypeOK, ScriptWorking
    PROVE  /\ UNCHANGED <<profileVars, snap, snapFresh, nodeCache, cronJob>>
           /\ ~queued' => ~queued
           /\ pc # "idle" /\ pc' # "idle"
<1> USE DEF ScriptWorking, CleanupScriptDaemonSet, CleanupScriptConfigMap,
            EnsureScriptConfigMap, SelectScriptNodes
<1>0. queued \in BOOLEAN
  BY DEF ScriptTypeOK, ScriptReconcileTypeOK
<1>1. UNCHANGED <<profileVars, snap, snapFresh, nodeCache, cronJob>>
  BY DEF Goto, nodeVars, ownedVars
<1>2. pc # "idle" /\ pc' # "idle"
  BY DEF Goto, afterCleanupScript
<1>3. ~queued' => ~queued
  BY <1>0 DEF deleteScriptDaemonSet, deleteDaemonSet, OwnedChanged
<1> QED BY <1>1, <1>2, <1>3

LEMMA ScriptStaleStep ==
    ASSUME ScriptTypeOK, StaleIsRedone, [ScriptNext]_allVars
    PROVE  StaleIsRedone'
<1>0. queued \in BOOLEAN
  BY DEF ScriptTypeOK, ScriptReconcileTypeOK
<1>1. ASSUME UNCHANGED <<pc, snapFresh, cacheFresh>>, ~queued' => ~queued
      PROVE  StaleIsRedone'
  BY <1>1 DEF StaleIsRedone, LooksAgain
<1>2. CASE LooksAgain' \/ pc' = "idle"
  BY <1>2 DEF StaleIsRedone
<1>3. CASE \E n \in Nodes : NodeCacheSync(n)
  <2>1. ~queued' => ~queued
    BY <1>3, Zenon DEF NodeCacheSync
  <2> QED BY <1>1, <1>3, <2>1 DEF NodeCacheSync, profileVars, reconcileVars
<1>4. CASE ScriptUserNext
  BY <1>2, <1>4, ScriptUserFrame DEF LooksAgain
<1>5. CASE SyncProfile \/ RestartManager \/ ReconcileError
  BY <1>2, <1>5 DEF SyncProfile, RestartManager, ReconcileError, Fail, Done, LooksAgain
<1>6. ASSUME NEW r \in reports, RecordScriptReport(r) PROVE StaleIsRedone'
  BY <1>2, <1>6 DEF RecordScriptReport, RecordStatus, WriteProfile, LooksAgain
<1>7. CASE ScriptReconcileStep
  <2>1. CASE ReconcileStart
    <3>1. pc' = "idle" \/ (snapFresh' = cacheFresh /\ cacheFresh' = cacheFresh)
      BY <2>1 DEF ReconcileStart, reconcileVars, profileVars
    <3> QED BY <3>1 DEF StaleIsRedone, LooksAgain
  <2>2. CASE AddFinalizer \/ RemoveFinalizer \/ UpdateStatus
    BY <1>2, <2>2, UpdateLooksAgain DEF AddFinalizer, RemoveFinalizer, UpdateStatus
  <2>3. CASE ScriptWorking
    BY <2>3, ScriptWorkingFrame DEF StaleIsRedone, LooksAgain, profileVars
  <2>4. CASE ReconcileScriptDaemonSet
    <3>1. pc = "daemonSet" /\ cacheFresh' = cacheFresh /\ (pc' = "idle" \/ snapFresh' = snapFresh)
      BY <2>4 DEF ReconcileScriptDaemonSet, Done, profileVars
    <3>2. ~queued' => ~queued
      BY <1>0, <2>4
         DEF ReconcileScriptDaemonSet, deleteScriptDaemonSet, deleteDaemonSet,
             ensureScriptDaemonSet, ensureDaemonSet, OwnedChanged
    <3> QED BY <3>1, <3>2 DEF StaleIsRedone, LooksAgain
  <2> QED BY <1>7, <2>1, <2>2, <2>3, <2>4
          DEF ScriptReconcileStep, ScriptReconcileStart, ScriptWorking
<1> QED BY <1>1, <1>3, <1>4, <1>5, <1>6, <1>7, ScriptFrame DEF profileVars, reconcileVars

\* Under the invariant, a Reconcile that nothing will follow works on the
\* profile as it is.
LEMMA WorksOnScripts ==
    ASSUME ScriptTypeOK, CopyInv, StaleIsRedone, ~LooksAgain, pc \notin {"idle", "status"}
    PROVE  snap = profile /\ cache = profile /\ profile \in ScriptProfile
BY DEF ScriptTypeOK, ScriptReconcileTypeOK, MaybeScriptProfile, CopyInv, StaleIsRedone, LooksAgain

LEMMA ScriptDoneStep ==
    ASSUME ScriptControllerInv, ScriptRestInv, [ScriptNext]_allVars
    PROVE  ScriptDoneSoFar'
<1>0. /\ ScriptTypeOK /\ CopyInv /\ FinalizerInv
      /\ StaleIsRedone /\ DeletingHasFinalizer /\ NoneRemoved /\ ScriptDoneSoFar
      /\ queued \in BOOLEAN
      /\ configMap \in [ConfigMapNames -> Configs \cup {None}]
      /\ resourceName \in ConfigMapNames
      /\ cache # None => cache \in ScriptProfile
  BY DEF ScriptControllerInv, ScriptRestInv, ScriptTypeOK, ScriptReconcileTypeOK, OwnedTypeOK,
         ConfigMapNames, ScriptProfileTypeOK, MaybeScriptProfile
<1> USE DEF Creating
\* Nothing is claimed when the manager will look again.
<1>1. CASE LooksAgain' \/ profile' = None
  BY <1>1 DEF ScriptDoneSoFar
\* A step that touches nothing of it.
<1>2. ASSUME UNCHANGED <<profile, cacheFresh, reconcileVars, ownedVars>>, ~queued' => ~queued,
             ~LooksAgain' /\ profile # None => selectedNodeNames' = selectedNodeNames
      PROVE  ScriptDoneSoFar'
  <2>1. SUFFICES ASSUME profile # None, ~LooksAgain' PROVE ScriptDoneSoFar'
    BY <1>1, <1>2
  <2>2. ~LooksAgain
    BY <1>2, <2>1 DEF LooksAgain
  <2>3. selectedNodeNames' = selectedNodeNames
    BY <1>2, <2>1
  <2>4. ScriptMatchesSeen => ScriptMatchesSeen'
    <3> DEFINE names == selectedNodeNames
    <3> HIDE DEF names
    <3>1. names' = names
      BY <2>3 DEF names
    <3> QED BY <1>2, <3>1 DEF ScriptMatchesSeen, ownedVars, names
  <2> QED BY <1>0, <1>2, <2>1, <2>2, <2>3, <2>4
          DEF ScriptDoneSoFar, reconcileVars, ownedVars
<1>3. CASE UNCHANGED <<profileVars, reconcileVars, ownedVars, nodeCache>> /\ (~queued' => ~queued)
  <2>1. selectedNodeNames' = selectedNodeNames
    BY <1>3 DEF selectedNodeNames
  <2> QED BY <1>2, <1>3, <2>1 DEF profileVars
<1>4. ASSUME NEW n \in Nodes, NodeCacheSync(n) PROVE ScriptDoneSoFar'
  <2>1. /\ UNCHANGED <<profileVars, reconcileVars, ownedVars>>
        /\ ~queued' => ~queued
        /\ ~queued' /\ cache # None => selectedNodeNames' = selectedNodeNames
    BY <1>0, <1>4, NodeCacheSyncSelects DEF ScriptTypeOK
  <2>2. ~LooksAgain' /\ profile # None => ~queued' /\ cache # None
    BY <1>0, <2>1 DEF LooksAgain, CopyInv, profileVars
  <2> QED BY <1>2, <2>1, <2>2 DEF profileVars
<1>5. CASE ScriptUserNext
  BY <1>1, <1>5, ScriptUserFrame DEF LooksAgain
<1>6. CASE SyncProfile \/ RestartManager \/ ReconcileError
  BY <1>1, <1>6 DEF SyncProfile, RestartManager, ReconcileError, Fail, LooksAgain
<1>7. ASSUME NEW r \in reports, RecordScriptReport(r) PROVE ScriptDoneSoFar'
  BY <1>1, <1>7 DEF RecordScriptReport, RecordStatus, WriteProfile, LooksAgain
<1>8. CASE ReconcileStart
  <2>1. SUFFICES ASSUME profile' # None, ~LooksAgain' PROVE ScriptDoneSoFar'
    BY <1>1
  <2>2. UNCHANGED <<profile, cache, cacheFresh>>
    BY <1>8 DEF ReconcileStart, profileVars
  <2>3. cache = profile /\ profile \in ScriptProfile
    BY <1>0, <2>1, <2>2
       DEF LooksAgain, CopyInv, ScriptTypeOK, ScriptProfileTypeOK, MaybeScriptProfile
  <2>4. pc' = entryPoint(profile)
    BY <1>0, <1>8, <2>1, <2>2, <2>3 DEF ReconcileStart, DeletingHasFinalizer
  <2>5. \/ pc' \notin Creating \cup {"idle"}
        \/ pc' = "configMap" /\ profile.finalizer /\ ~profile.deleting
    BY <2>4 DEF entryPoint, afterCleanup
  <2> QED BY <2>2, <2>5 DEF ScriptDoneSoFar
<1>9. CASE AddFinalizer \/ RemoveFinalizer \/ UpdateStatus
  BY <1>1, <1>9, UpdateLooksAgain DEF AddFinalizer, RemoveFinalizer, UpdateStatus
<1>10. CASE ScriptWorking
  <2>1. SUFFICES ASSUME profile # None, ~LooksAgain PROVE ScriptDoneSoFar'
    BY <1>0, <1>1, <1>10, ScriptWorkingFrame DEF LooksAgain, profileVars
  <2>2. UNCHANGED <<profile, nodeCache>> /\ pc # "idle" /\ pc' # "idle"
    BY <1>0, <1>10, ScriptWorkingFrame DEF profileVars
  <2>3. pc # "status"
    BY <1>10 DEF ScriptWorking, CleanupScriptDaemonSet, CleanupScriptConfigMap,
                 EnsureScriptConfigMap, SelectScriptNodes
  <2>4. snap = profile
    BY <1>0, <2>1, <2>2, <2>3, WorksOnScripts
  <2>5. CASE CleanupScriptDaemonSet \/ CleanupScriptConfigMap
    <3>1. pc' \in {"cleanupConfigMap", "removeFinalizer"}
      BY <2>5 DEF CleanupScriptDaemonSet, CleanupScriptConfigMap, Goto, afterCleanupScript
    <3> QED BY <3>1 DEF ScriptDoneSoFar
  <2>6. CASE EnsureScriptConfigMap
    <3>1. pc = "configMap" /\ pc' = "selectedNodes"
          /\ configMap' = [configMap EXCEPT ![resourceName] = renderScripts(snap.spec)]
      BY <2>6 DEF EnsureScriptConfigMap, scriptResourceName, Goto
    <3>2. configMap'[resourceName] = renderScripts(profile.spec)
      BY <1>0, <2>4, <3>1
    <3> QED BY <1>0, <2>1, <2>2, <3>1, <3>2 DEF ScriptDoneSoFar
  <2>7. CASE SelectScriptNodes
    <3>1. pc = "selectedNodes" /\ pc' = "daemonSet" /\ configMap' = configMap
          /\ selected' = selectedNodeNames
      BY <2>7 DEF SelectScriptNodes, scriptSelectedNodeNames, ownedVars
    <3>2. selectedNodeNames' = selectedNodeNames
      BY <2>2 DEF selectedNodeNames
    <3> QED BY <1>0, <2>1, <2>2, <3>1, <3>2 DEF ScriptDoneSoFar
  <2> QED BY <1>10, <2>5, <2>6, <2>7 DEF ScriptWorking
<1>11. CASE ReconcileScriptDaemonSet
  <2> DEFINE hash     == hashContent(renderScripts(snap.spec))
             complete == scriptAllNodesApplied(snap.status, selected, hash)
             status   == newStatus(snap.status, snap.generation, hash, complete)
  <2>1. /\ pc = "daemonSet"
        /\ UNCHANGED <<profileVars, configMap, nodeCache>>
        /\ daemonSet' = IF complete THEN None ELSE hash
        /\ IF statusChanged(snap.status, status) THEN pc' = "status" ELSE pc' = "idle"
    BY <1>11
       DEF ReconcileScriptDaemonSet, deleteScriptDaemonSet, deleteDaemonSet,
           ensureScriptDaemonSet, ensureDaemonSet, Done, nodeVars
  <2>2. ~queued' => ~queued
    BY <1>0, <1>11
       DEF ReconcileScriptDaemonSet, deleteScriptDaemonSet, deleteDaemonSet,
           ensureScriptDaemonSet, ensureDaemonSet, OwnedChanged
  <2>3. SUFFICES ASSUME profile # None, ~LooksAgain PROVE ScriptDoneSoFar'
    BY <1>1, <2>1, <2>2 DEF LooksAgain, profileVars
  <2>4. snap = profile /\ profile \in ScriptProfile
    BY <1>0, <2>1, <2>3, WorksOnScripts
  <2>5. /\ profile.finalizer /\ ~profile.deleting
        /\ configMap[resourceName] = renderScripts(profile.spec)
        /\ selected = selectedNodeNames
    BY <1>0, <2>1, <2>3 DEF ScriptDoneSoFar
  <2>6. UNCHANGED <<profile, configMap>>
        /\ renderScripts(profile.spec)' = renderScripts(profile.spec)
        /\ selectedNodeNames' = selectedNodeNames
    BY <2>1 DEF selectedNodeNames, profileVars
  <2>7. CASE statusChanged(snap.status, status)
    <3>1. pc' = "status"
      BY <2>1, <2>7
    <3> QED BY <2>5, <2>6, <3>1 DEF ScriptDoneSoFar
  <2>8. CASE ~statusChanged(snap.status, status)
    <3>1. pc' = "idle"
      BY <2>1, <2>8
    <3>2. profile.status = status /\ complete \in BOOLEAN
      BY <2>4, <2>8 DEF statusChanged, scriptAllNodesApplied, allNodesApplied
    <3>3. profile.status \in Status
      BY <2>4 DEF ScriptProfile
    <3>4. /\ profile.status.observedHash = hash
          /\ profile.status.desiredNodes = Cardinality(selected)
          /\ profile.status.readyGeneration = snap.generation
          /\ profile.status.ready = IF complete THEN "RolloutComplete" ELSE "RollingOut"
      BY <2>4, <3>2, <3>3, NewStatusSays
    <3>5. ScriptMatchesSeen'
      <4> DEFINE all == allNodesApplied(profile.status, selectedNodeNames,
                                        hashContent(renderScripts(profile.spec)))
      <4>1. complete = all /\ all' = all
        BY <2>4, <2>5, <2>6 DEF scriptAllNodesApplied
      <4>2. /\ daemonSet' = IF all THEN None ELSE hashContent(renderScripts(profile.spec))
            /\ profile.status.observedHash = hashContent(renderScripts(profile.spec))
            /\ profile.status.desiredNodes = Cardinality(selectedNodeNames)
            /\ profile.status.readyGeneration = profile.generation
            /\ profile.status.ready = IF all THEN "RolloutComplete" ELSE "RollingOut"
        BY <2>1, <2>4, <2>5, <3>4, <4>1
      <4> HIDE DEF all
      <4>3. ScriptMatchesSeen' <=>
              /\ profile'.finalizer
              /\ ~profile'.deleting
              /\ configMap'[resourceName] = renderScripts(profile.spec)'
              /\ daemonSet' = IF all' THEN None ELSE hashContent(renderScripts(profile.spec)')
              /\ profile'.status.observedHash = hashContent(renderScripts(profile.spec)')
              /\ profile'.status.desiredNodes = Cardinality(selectedNodeNames')
              /\ profile'.status.readyGeneration = profile'.generation
              /\ profile'.status.ready = IF all' THEN "RolloutComplete" ELSE "RollingOut"
        BY DEF ScriptMatchesSeen, all
      <4> QED BY <2>5, <2>6, <4>1, <4>2, <4>3
    <3> QED BY <3>1, <3>5 DEF ScriptDoneSoFar
  <2> QED BY <2>7, <2>8
<1>12. CASE ScriptReconcileStep
  BY <1>8, <1>9, <1>10, <1>11, <1>12 DEF ScriptReconcileStep, ScriptReconcileStart, ScriptWorking
<1> QED BY <1>0, <1>3, <1>4, <1>5, <1>6, <1>7, <1>12, ScriptFrame

LEMMA ScriptRestInit == ScriptInit => ScriptRestInv
BY DEF ScriptInit, Init, ScriptRestInv, StaleIsRedone, DeletingHasFinalizer, NoneRemoved,
       ScriptDoneSoFar

\* Whenever the manager rests, the ConfigMap, the DaemonSet and the status are
\* what the scripts, the nodes and the reports so far call for.
THEOREM ScriptSettledCorrect == ScriptSpec => []ScriptSettledMatchesSpec
<1>1. ScriptControllerInv /\ ScriptRestInv /\ [ScriptNext]_allVars => ScriptRestInv'
  BY ScriptTypeNodes, ScriptDeletingStep, ScriptStaleStep, ScriptDoneStep
     DEF ScriptRestInv, ScriptControllerInv
<1>2. ScriptSpec => [](ScriptControllerInv /\ ScriptRestInv)
  BY <1>1, ScriptRestInit, ScriptControllerCorrect, PTL DEF ScriptSpec
<1>3. ScriptControllerInv /\ ScriptRestInv => ScriptSettledMatchesSpec
  <2> SUFFICES ASSUME ScriptControllerInv, ScriptRestInv, Settled, profile # None
               PROVE  MatchesSpec(profile, renderScripts(profile.spec))
    BY DEF ScriptSettledMatchesSpec
  <2>1. ScriptMatchesSeen
    BY DEF ScriptRestInv, ScriptDoneSoFar, Settled, LooksAgain
  <2>2. selectedNodeNames = SelectedNow
    BY DEF Settled, selectedNodeNames, SelectedNow
  <2>3. cronJob = None /\ ~profile.driftCheck
    BY DEF ScriptControllerInv, ScriptTypeOK, ScriptProfileTypeOK, MaybeScriptProfile,
           ScriptProfile
  <2> QED BY <2>1, <2>2, <2>3 DEF ScriptMatchesSeen, MatchesSpec
<1> QED BY <1>2, <1>3, PTL

----------------------------------------------------------------------------
\* Claims.

\* The part of ScriptClaimInv that workers establish.
ScriptHosts ==
    /\ FilesAreSpecs
    /\ \A p \in pods : p.pc = "sendOk" => HashBytes(p.content) \in written[p.node]
    /\ \A n \in Nodes : \A hash \in written[n] : RanToTheEnd(n, hash)

\* What has been run to the end stays so.
Grows ==
    \A n \in Nodes : written[n] \subseteq written'[n] /\ completed[n] \subseteq completed'[n]

\* A process that has run its scripts has run the ones of its file.
LEMMA ScriptsDoneRan ==
    ASSUME ScriptTypeOK, FilesAreSpecs, NEW p \in pods, ScriptsDone(p)
    PROVE  /\ p.content \in RenderedSpecs
           /\ Running(p).log = ParseScripts(p.content)
<1>1. /\ p.pc = "apply" /\ ~(Len(Running(p).log) < Len(ParseScripts(p.content)))
      /\ p.node \in Nodes /\ p.id \in 1 .. MaxPodsPerNode
      /\ p.content \in Configs /\ p.content # None
  BY DEF ScriptTypeOK, HostsTypeOK, Pod, ScriptsDone, scriptsLeft
<1>2. Running(p).log \in Seq(ScriptType) /\ ParseScripts(p.content) \in Seq(ScriptType)
  BY <1>1, FileParsed DEF ScriptTypeOK, RunsTypeOK, Running
<1>3. IsPrefix(Running(p).log, ParseScripts(p.content))
  BY <1>1 DEF ScriptTypeOK, RunsInOrder
<1> QED BY <1>1, <1>2, <1>3, PrefixAll DEF FilesAreSpecs

\* A worker's step.
LEMMA ScriptWorkerHosts ==
    ASSUME ScriptTypeOK, ScriptHosts, NEW p \in pods, ScriptWorkerNext(p)
    PROVE  Grows /\ ScriptHosts'
<1>0. /\ p \in Pod /\ p.node \in Nodes /\ FilesAreSpecs
      /\ \A q \in pods : q.node \in Nodes
      /\ written \in [Nodes -> SUBSET Hashes]
      /\ completed \in [Nodes -> SUBSET Seq(ScriptType)]
  BY DEF ScriptTypeOK, HostsTypeOK, RunsTypeOK, ScriptHosts, Pod
\* A step that leaves the node alone.
<1>1. ASSUME UNCHANGED <<rendered, written, completed>>,
             \A q \in pods' : \/ q \in pods
                              \/ /\ q.pc # "sendOk"
                                 /\ q.content # None => q.content \in RenderedSpecs
      PROVE  Grows /\ ScriptHosts'
  <2>1. FilesAreSpecs'
    BY <1>0, <1>1 DEF FilesAreSpecs
  <2>2. \A q \in pods' : q.pc = "sendOk" => HashBytes(q.content) \in written'[q.node]
    BY <1>1 DEF ScriptHosts
  <2>3. \A n \in Nodes : \A hash \in written'[n] : RanToTheEnd(n, hash)'
    BY <1>1 DEF ScriptHosts, RanToTheEnd
  <2> QED BY <1>1, <2>1, <2>2, <2>3 DEF ScriptHosts, Grows
<1>2. ASSUME NEW c \in rendered, LoadScripts(p, c) PROVE Grows /\ ScriptHosts'
  <2> DEFINE q == [p EXCEPT !.pc = "apply", !.content = c]
  <2>1. q.pc = "apply" /\ q.content = c /\ c \in RenderedSpecs
    BY <1>0 DEF Pod, FilesAreSpecs
  <2>2. pods' = (pods \ {p}) \cup {q} /\ UNCHANGED <<rendered, written, completed>>
    BY <1>2 DEF LoadScripts, Load, Replace, ownedVars, hostVars
  <2> HIDE DEF q
  <2> QED BY <1>1, <2>1, <2>2
<1>3. ASSUME NEW c \in rendered, LoadRefused(p, c), UNCHANGED scriptVars
      PROVE  Grows /\ ScriptHosts'
  <2> DEFINE q == [p EXCEPT !.pc = "crashed"]
  <2>1. q.pc = "crashed" /\ q.content = p.content
    BY <1>0 DEF Pod
  <2>2. pods' = (pods \ {p}) \cup {q} /\ UNCHANGED <<rendered, written, completed>>
    BY <1>3 DEF LoadRefused, Replace, ownedVars, hostVars, scriptVars
  <2> HIDE DEF q
  <2> QED BY <1>0, <1>1, <2>1, <2>2 DEF FilesAreSpecs
<1>4. ASSUME NEW ok \in BOOLEAN, RunScript(p, ok) PROVE Grows /\ ScriptHosts'
  BY <1>1, <1>4 DEF RunScript, ownedVars, hostVars
<1>5. CASE ScriptsDone(p)
  <2> DEFINE q == [p EXCEPT !.pc = IF resultOK(Running(p).failed) THEN "sendOk" ELSE "sendFailed"]
  <2>1. /\ q.pc = IF Running(p).failed THEN "sendFailed" ELSE "sendOk"
        /\ q.content = p.content /\ q.node = p.node
    BY <1>0 DEF Pod, resultOK
  <2>2. pods' = (pods \ {p}) \cup {q} /\ UNCHANGED rendered
    BY <1>5 DEF ScriptsDone, Replace, ownedVars
  <2> HIDE DEF q
  <2>3. p.content \in RenderedSpecs /\ Running(p).log = ParseScripts(p.content)
    BY <1>0, <1>5, ScriptsDoneRan
  <2>4. CASE Running(p).failed
    <3>1. UNCHANGED <<rendered, written, completed>>
      BY <1>5, <2>2, <2>4 DEF ScriptsDone
    <3> QED BY <1>1, <2>1, <2>2, <2>3, <2>4, <3>1
  <2>5. CASE ~Running(p).failed
    <3>1. /\ written' = [written EXCEPT ![p.node] = @ \cup {HashBytes(p.content)}]
          /\ completed' = [completed EXCEPT ![p.node] = @ \cup {ParseScripts(p.content)}]
      BY <1>5, <2>3, <2>5 DEF ScriptsDone
    <3>2. /\ \A n \in Nodes : written[n] \subseteq written'[n] /\ completed[n] \subseteq completed'[n]
          /\ HashBytes(p.content) \in written'[p.node]
          /\ ParseScripts(p.content) \in completed'[p.node]
          /\ \A n \in Nodes : \A hash \in written'[n] :
               hash \in written[n] \/ (n = p.node /\ hash = HashBytes(p.content))
      BY <1>0, <3>1
    <3>3. FilesAreSpecs'
      BY <1>0, <2>1, <2>2, <2>3 DEF FilesAreSpecs
    <3>4. \A x \in pods' : x.pc = "sendOk" => HashBytes(x.content) \in written'[x.node]
      BY <1>0, <2>1, <2>2, <3>2 DEF ScriptHosts
    <3>5. ASSUME NEW n \in Nodes, NEW hash \in written'[n]
          PROVE  \E c \in RenderedSpecs : hashContent(c) = hash /\ ParseScripts(c) \in completed'[n]
      <4>1. CASE hash \in written[n]
        BY <3>2, <4>1 DEF ScriptHosts, RanToTheEnd
      <4>2. CASE n = p.node /\ hash = HashBytes(p.content)
        BY <2>3, <3>2, <4>2 DEF hashContent, HashBytes
      <4> QED BY <3>2, <4>1, <4>2
    <3> QED BY <3>2, <3>3, <3>4, <3>5 DEF ScriptHosts, Grows, RanToTheEnd
  <2> QED BY <2>4, <2>5
<1>6. ASSUME sendReport(p), UNCHANGED scriptVars PROVE Grows /\ ScriptHosts'
  <2> DEFINE q == [p EXCEPT !.pc = "wait"]
  <2>1. q.pc = "wait" /\ q.content = p.content
    BY <1>0 DEF Pod
  <2>2. pods' = (pods \ {p}) \cup {q} /\ UNCHANGED <<rendered, written, completed>>
    BY <1>6 DEF sendReport, Replace, ownedVars, hostVars, scriptVars
  <2> HIDE DEF q
  <2> QED BY <1>0, <1>1, <2>1, <2>2 DEF FilesAreSpecs
<1> QED BY <1>2, <1>3, <1>4, <1>5, <1>6 DEF ScriptWorkerNext

\* What becomes a file is a rendered spec.
LEMMA RenderedStep ==
    ASSUME ScriptTypeOK, rendered \subseteq RenderedSpecs, [ScriptNext]_allVars
    PROVE  rendered' \subseteq RenderedSpecs
<1>1. CASE UNCHANGED ownedVars
  BY <1>1 DEF ownedVars
<1>2. CASE EnsureScriptConfigMap
  <2>1. snap.spec \in ScriptSpecs
    BY <1>2 DEF EnsureScriptConfigMap, ScriptTypeOK, ScriptReconcileTypeOK, MaybeScriptProfile,
                ScriptProfile
  <2> QED BY <1>2, <2>1, ScriptFileType DEF EnsureScriptConfigMap
<1>3. CASE ScriptReconcileStep
  BY <1>1, <1>2, <1>3
     DEF ScriptReconcileStep, ScriptReconcileStart, ReconcileStart, AddFinalizer,
         RemoveFinalizer, UpdateStatus, UpdateProfile, CleanupScriptDaemonSet,
         CleanupScriptConfigMap, SelectScriptNodes, ReconcileScriptDaemonSet, ownedVars
<1>4. CASE ScriptUserNext
  BY <1>1, <1>4, ScriptUserFrame
<1>5. CASE SyncProfile \/ RestartManager \/ ReconcileError \/ \E n \in Nodes : NodeCacheSync(n)
  BY <1>1, <1>5 DEF SyncProfile, RestartManager, ReconcileError, NodeCacheSync
<1>6. CASE \E r \in reports : RecordScriptReport(r)
  BY <1>1, <1>6 DEF RecordScriptReport, RecordStatus
<1> QED BY <1>1, <1>3, <1>4, <1>5, <1>6, ScriptFrame

LEMMA ScriptHostsStep ==
    ASSUME ScriptTypeOK, PodsApart, ScriptHosts, [ScriptNext]_allVars
    PROVE  Grows /\ ScriptHosts'
<1>1. CASE \E p \in pods : ScriptWorkerNext(p)
  BY <1>1, ScriptWorkerHosts
<1>2. CASE OthersNext \/ UNCHANGED allVars
  <2>1. PodsMove /\ written' = written /\ completed' = completed
    BY <1>2, OthersPods DEF scriptVars
  <2>2. \A q \in pods' : \/ \E p \in pods : p.node = q.node /\ p.pc = q.pc /\ p.content = q.content
                         \/ /\ q.pc # "sendOk"
                            /\ q.content = None \/ \E p \in pods : p.content = q.content
    BY <2>1 DEF PodsMove
  <2>3. FilesAreSpecs'
    BY <2>2, RenderedStep DEF ScriptHosts, FilesAreSpecs
  <2>4. \A q \in pods' : q.pc = "sendOk" => HashBytes(q.content) \in written'[q.node]
    BY <2>1, <2>2 DEF ScriptHosts
  <2>5. \A n \in Nodes : \A hash \in written'[n] : RanToTheEnd(n, hash)'
    BY <2>1 DEF ScriptHosts, RanToTheEnd
  <2> QED BY <2>1, <2>3, <2>4, <2>5 DEF ScriptHosts, Grows
<1> QED BY <1>1, <1>2 DEF ScriptNext, OthersNext

LEMMA ScriptClaimStep ==
    ScriptControllerInv /\ ScriptClaimInv /\ [ScriptNext]_allVars => ScriptClaimInv'
<1> SUFFICES ASSUME ScriptControllerInv, ScriptClaimInv, [ScriptNext]_allVars
             PROVE  ScriptClaimInv'
  OBVIOUS
<1>0. /\ ScriptTypeOK /\ PodsApart /\ CopyInv
      /\ profile # None => profile \in ScriptProfile
      /\ cache # None => cache \in ScriptProfile
      /\ pc # "idle" => snap \in ScriptProfile /\ snap # None
      /\ Truthful(profile) /\ Truthful(cache) /\ Truthful(snap)
  BY DEF ScriptControllerInv, ScriptTypeOK, ScriptProfileTypeOK, ScriptReconcileTypeOK,
         MaybeScriptProfile, ScriptClaimInv, ClaimInv, AppliedWasWritten
<1>1. Grows /\ ScriptHosts'
  <2>1. ScriptHosts
    BY DEF ScriptHosts, ScriptClaimInv, ClaimInv
  <2> QED BY <1>0, <2>1, ScriptHostsStep
<1>2. \A q \in reports' : q.success => q.hash \in written'[q.node]
  <2> SUFFICES ASSUME NEW q \in reports', q.success PROVE q.hash \in written'[q.node]
    OBVIOUS
  <2>1. \A r \in reports : r.node \in Nodes
    BY <1>0 DEF ScriptTypeOK, EnvTypeOK, InFlight
  <2>2. \A p \in pods : p.node \in Nodes
    BY <1>0 DEF ScriptTypeOK, HostsTypeOK, Pod
  <2>3. \/ \E r \in reports : q.node = r.node /\ q.hash = r.hash /\ r.success
        \/ \E p \in pods : p.pc = "sendOk" /\ q.node = p.node /\ q.hash = HashBytes(p.content)
    BY <1>0, ScriptReports
  <2> QED BY <1>1, <2>1, <2>2, <2>3 DEF Grows, ScriptClaimInv, ClaimInv
<1>f. SUFFICES AppliedWasWritten'
  BY <1>1, <1>2 DEF ScriptClaimInv, ClaimInv, ScriptHosts
<1>k. ASSUME NEW old, NEW new, Truthful(old), old # None,
             new.status.nodeStatuses = old.status.nodeStatuses
      PROVE  \A n \in Nodes : new.status.nodeStatuses[n].phase = "Applied" =>
                 new.status.nodeStatuses[n].appliedHash \in written'[n]
  BY <1>1, <1>k DEF Grows, Truthful
\* Each copy is one of the copies of the state before, or has its entries.
<1>p. ASSUME profile' = profile \/ profile' = None PROVE Truthful(profile)'
  BY <1>0, <1>k, <1>p DEF Truthful
<1>c. ASSUME cache' = cache \/ cache' = profile PROVE Truthful(cache)'
  BY <1>0, <1>k, <1>c DEF Truthful
<1>s. ASSUME snap' = snap \/ snap' = cache \/ snap' = None PROVE Truthful(snap)'
  BY <1>0, <1>k, <1>s DEF Truthful
<1>e. ASSUME profile # None, profile'.status.nodeStatuses = profile.status.nodeStatuses
      PROVE  Truthful(profile)'
  BY <1>0, <1>k, <1>e DEF Truthful
<1> USE DEF AppliedWasWritten
<1>3. CASE UNCHANGED <<profileVars, reconcileVars>> \/ SyncProfile \/ RestartManager
           \/ ReconcileError \/ \E n \in Nodes : NodeCacheSync(n)
  BY <1>3, <1>p, <1>c, <1>s
     DEF profileVars, reconcileVars, SyncProfile, RestartManager, ReconcileError, NodeCacheSync,
         Fail, Done
<1>4. CASE ScriptUserNext
  <2>1. profile' # None =>
          \/ profile # None /\ profile'.status = profile.status
          \/ profile'.status = EmptyStatus
    BY <1>0, <1>4, ScriptUserWrite
  <2>2. CASE profile # None /\ profile'.status = profile.status
    BY <1>4, <1>c, <1>s, <1>e, <2>2, ScriptUserFrame
  <2>3. CASE profile'.status = EmptyStatus
    <3>1. profile'.status.nodeStatuses = [n \in Nodes |-> NoEntry]
      BY <2>3 DEF EmptyStatus
    <3>2. Truthful(profile)'
      BY <3>1 DEF Truthful, NoEntry
    <3> QED BY <1>4, <1>c, <1>s, <3>2, ScriptUserFrame
  <2>4. CASE profile' = None
    BY <1>4, <1>p, <1>c, <1>s, <2>4, ScriptUserFrame
  <2> QED BY <2>1, <2>2, <2>3, <2>4
<1>5. ASSUME NEW r \in reports, RecordScriptReport(r) PROVE AppliedWasWritten'
  <2>1. /\ profile \in ScriptProfile /\ r \in InFlight /\ cacheFresh
        /\ profile'.status = ScriptRecorded(cache.status, r)
        /\ UNCHANGED <<cache, snap, hostVars>>
    BY <1>0, <1>5, ScriptReportWrite
  <2>2. cache = profile /\ profile.status \in Status /\ profile # None
    BY <1>0, <2>1, NoScriptProfileAssumption DEF CopyInv, ScriptProfile
  <2>3. Truthful(profile)'
    <3> SUFFICES ASSUME NEW n \in Nodes, profile'.status.nodeStatuses[n].phase = "Applied"
                 PROVE  profile'.status.nodeStatuses[n].appliedHash \in written[n]
      BY <2>1 DEF Truthful, hostVars
    <3>1. CASE n = r.node
      BY <2>1, <2>2, <3>1, ScriptRecordedType DEF ScriptClaimInv, ClaimInv
    <3>2. CASE n # r.node
      BY <1>0, <2>1, <2>2, <3>2, ScriptRecordedType DEF Truthful
    <3> QED BY <3>1, <3>2
  <2> QED BY <1>c, <1>s, <2>1, <2>3
<1>6. CASE ScriptReconcileStep
  <2>1. CASE AddFinalizer
    <3>1. CASE UpToDate(snapFresh)
      <4>1. snap = profile /\ profile' = [snap EXCEPT !.finalizer = TRUE] /\ profile # None
        BY <1>0, <2>1, <3>1 DEF AddFinalizer, UpdateProfile, UpToDate, CopyInv
      <4>2. Truthful(profile)'
        BY <1>0, <1>e, <4>1 DEF ScriptProfile
      <4> QED BY <1>c, <1>s, <2>1, <3>1, <4>2 DEF AddFinalizer, UpdateProfile, Done
    <3>2. CASE ~UpToDate(snapFresh)
      BY <1>p, <1>c, <1>s, <2>1, <3>2 DEF AddFinalizer, UpdateProfile, Fail, Done, profileVars
    <3> QED BY <3>1, <3>2
  <2>2. CASE RemoveFinalizer
    BY <1>p, <1>c, <1>s, <2>2 DEF RemoveFinalizer, UpdateProfile, Fail, Done, profileVars
  <2>3. CASE UpdateStatus
    <3>1. CASE UpToDate(snapFresh)
      <4>1. profile' = [profile EXCEPT !.status = snap.status] /\ profile \in ScriptProfile
            /\ snap # None
        BY <1>0, <2>3, <3>1 DEF UpdateStatus, UpdateProfile, UpToDate
      <4>2. profile'.status.nodeStatuses = snap.status.nodeStatuses
        BY <4>1 DEF ScriptProfile
      <4>3. Truthful(profile)'
        BY <1>0, <1>k, <4>1, <4>2 DEF Truthful
      <4> QED BY <1>c, <1>s, <2>3, <3>1, <4>3 DEF UpdateStatus, UpdateProfile, Done
    <3>2. CASE ~UpToDate(snapFresh)
      BY <1>p, <1>c, <1>s, <2>3, <3>2 DEF UpdateStatus, UpdateProfile, Fail, Done, profileVars
    <3> QED BY <3>1, <3>2
  <2>4. CASE ReconcileStart \/ ScriptWorking
    BY <1>p, <1>c, <1>s, <2>4
       DEF ScriptWorking, ReconcileStart, CleanupScriptDaemonSet, CleanupScriptConfigMap,
           EnsureScriptConfigMap, SelectScriptNodes, Goto, profileVars, reconcileVars
  <2>5. CASE ReconcileScriptDaemonSet
    <3> DEFINE hash     == hashContent(renderScripts(snap.spec))
               complete == scriptAllNodesApplied(snap.status, selected, hash)
               status   == newStatus(snap.status, snap.generation, hash, complete)
    <3>0. UNCHANGED profileVars /\ snap \in ScriptProfile /\ snap # None
      BY <1>0, <2>5 DEF ReconcileScriptDaemonSet
    <3>1. snap' = None \/ snap' = [snap EXCEPT !.status = status]
      BY <2>5 DEF ReconcileScriptDaemonSet, Done
    <3>2. status.nodeStatuses = snap.status.nodeStatuses
      <4>1. /\ snap.status \in Status /\ snap.generation \in Nat /\ hash \in Hashes
            /\ complete \in BOOLEAN /\ selected \subseteq Nodes
        BY <1>0, <3>0, ScriptFileType
           DEF ScriptTypeOK, ScriptReconcileTypeOK, ScriptProfile, scriptAllNodesApplied,
               allNodesApplied
      <4> QED BY <4>1, NewStatusType
    <3> HIDE DEF status
    <3>3. snap' # None => snap'.status.nodeStatuses = snap.status.nodeStatuses
      BY <3>0, <3>1, <3>2 DEF ScriptProfile
    <3>4. Truthful(snap)'
      BY <1>0, <1>k, <3>0, <3>3 DEF Truthful
    <3> QED BY <1>p, <1>c, <3>0, <3>4 DEF profileVars
  <2> QED BY <1>6, <2>1, <2>2, <2>3, <2>4, <2>5
          DEF ScriptReconcileStep, ScriptReconcileStart, ScriptWorking
<1> QED BY <1>0, <1>3, <1>4, <1>5, <1>6, ScriptFrame

LEMMA ScriptClaimCorrect == ScriptSpec => []ScriptClaimInv
<1>1. ScriptInit => ScriptClaimInv
  BY DEF ScriptInit, Init, ScriptClaimInv, FilesAreSpecs, ClaimInv, AppliedWasWritten, Truthful
<1> QED BY <1>1, ScriptClaimStep, ScriptControllerCorrect, PTL DEF ScriptSpec

\* The specs that the worker's parser splits back into themselves.
PlainScriptSpecs == \A s \in ScriptSpecs : \A i \in DOMAIN s : Plain(s[i])

LEMMA SpecsSplitBack ==
    ASSUME PlainScriptSpecs, NEW s \in ScriptSpecs
    PROVE  ParseScripts(renderScripts(s)) = Asked(s)
BY ScriptSpecsAssumption, SplitBackIffPlain DEF PlainScriptSpecs

\* A node recorded Applied has run, in one process, in order and without a
\* failure, exactly the scripts of the spec with the recorded hash, for all
\* specs in which no script has a line like a marker, a name with a space or
\* an interpreter with arguments.  (Others the parser does not split back:
\* SplitBackIffPlain, and run doc_script_blocks.)
THEOREM ScriptAppliedRan ==
    ASSUME PlainScriptSpecs
    PROVE  ScriptSpec => []AppliedRanScripts
<1>1. ScriptClaimInv => AppliedRanScripts
  <2> SUFFICES ASSUME ScriptClaimInv, profile # None, NEW n \in Nodes,
                      profile.status.nodeStatuses[n].phase = "Applied"
               PROVE  \E s \in ScriptSpecs :
                          /\ hashContent(renderScripts(s)) =
                                 profile.status.nodeStatuses[n].appliedHash
                          /\ Asked(s) \in completed[n]
    BY DEF AppliedRanScripts
  <2> DEFINE hash == profile.status.nodeStatuses[n].appliedHash
  <2>1. hash \in written[n]
    BY DEF ScriptClaimInv, ClaimInv, AppliedWasWritten, Truthful
  <2>2. PICK c \in RenderedSpecs : hashContent(c) = hash /\ ParseScripts(c) \in completed[n]
    BY <2>1 DEF ScriptClaimInv, RanToTheEnd
  <2>3. PICK s \in ScriptSpecs : c = renderScripts(s)
    BY <2>2 DEF RenderedSpecs
  <2>4. ParseScripts(c) = Asked(s)
    BY <2>3, SpecsSplitBack
  <2> QED BY <2>2, <2>3, <2>4
<1> QED BY <1>1, ScriptClaimCorrect, PTL

----------------------------------------------------------------------------
\* Nothing else is run to the end.

\* Every list a node has run is what some file was split into.
CompletedAreFiles ==
    \A n \in Nodes : completed[n] \subseteq {ParseScripts(c) : c \in RenderedSpecs}

LEMMA CompletedStep ==
    ASSUME ScriptTypeOK, PodsApart, FilesAreSpecs, CompletedAreFiles, [ScriptNext]_allVars
    PROVE  CompletedAreFiles'
<1>1. CASE completed' = completed
  BY <1>1 DEF CompletedAreFiles
<1>2. ASSUME NEW p \in pods, ScriptsDone(p)
      PROVE  CompletedAreFiles'
  <2>1. p.content \in RenderedSpecs /\ Running(p).log = ParseScripts(p.content)
    BY <1>2, ScriptsDoneRan
  <2>2. \/ completed' = completed
        \/ completed' = [completed EXCEPT ![p.node] = @ \cup {ParseScripts(p.content)}]
    BY <1>2, <2>1 DEF ScriptsDone
  <2>3. completed \in [Nodes -> SUBSET Seq(ScriptType)]
    BY DEF ScriptTypeOK, RunsTypeOK
  <2> QED BY <2>1, <2>2, <2>3 DEF CompletedAreFiles
<1>3. ASSUME NEW p \in pods, ScriptWorkerNext(p)
      PROVE  CompletedAreFiles'
  BY <1>1, <1>2, <1>3 DEF ScriptWorkerNext, LoadScripts, RunScript, scriptVars
<1>4. CASE OthersNext \/ UNCHANGED allVars
  BY <1>1, <1>4, OthersPods DEF scriptVars
<1> QED BY <1>3, <1>4 DEF ScriptNext, OthersNext

\* Comment of renderScripts: "Each script is emitted as a block the worker can
\* split back apart".  Whatever crashes, restarts and edits happen, a list of
\* scripts that a node has run to the end is what some spec asks for, if the
\* specs are plain.
THEOREM ScriptsSplitBack ==
    ASSUME PlainScriptSpecs
    PROVE  ScriptSpec => []ScriptsSplitBackApart
<1>1. ScriptInit => CompletedAreFiles
  BY DEF ScriptInit, CompletedAreFiles
<1>2. ScriptControllerInv /\ ScriptClaimInv /\ CompletedAreFiles /\ [ScriptNext]_allVars
        => CompletedAreFiles'
  BY CompletedStep DEF ScriptControllerInv, ScriptClaimInv
<1>3. CompletedAreFiles => ScriptsSplitBackApart
  BY SpecsSplitBack DEF CompletedAreFiles, ScriptsSplitBackApart, RenderedSpecs
<1> QED BY <1>1, <1>2, <1>3, ScriptControllerCorrect, ScriptClaimCorrect, PTL DEF ScriptSpec

----------------------------------------------------------------------------
\* Reports, counters and the ConfigMap, by the same arguments as for the other
\* controller.

\* Reconcile's writes keep the node entries.
LEMMA ScriptEntriesKept ==
    ASSUME ScriptControllerInv, ScriptReconcileStep, profile # None, profile' # None
    PROVE  profile'.status.nodeStatuses = profile.status.nodeStatuses
<1>0. profile \in ScriptProfile /\ CopyInv
  BY DEF ScriptControllerInv, ScriptTypeOK, ScriptProfileTypeOK, MaybeScriptProfile
<1>1. CASE AddFinalizer
  <2>1. CASE UpToDate(snapFresh)
    <3>1. profile' = [profile EXCEPT !.finalizer = TRUE]
      BY <1>0, <1>1, <2>1 DEF AddFinalizer, UpdateProfile, UpToDate, CopyInv
    <3> QED BY <1>0, <3>1 DEF ScriptProfile
  <2>2. CASE ~UpToDate(snapFresh)
    BY <1>1, <2>2 DEF AddFinalizer, UpdateProfile, profileVars
  <2> QED BY <2>1, <2>2
<1>2. CASE RemoveFinalizer
  BY <1>2 DEF RemoveFinalizer, UpdateProfile, profileVars
<1>3. CASE UpdateStatus
  <2>1. CASE UpToDate(snapFresh)
    <3>1. profile' = [profile EXCEPT !.status = snap.status]
      BY <1>3, <2>1 DEF UpdateStatus, UpdateProfile
    <3>2. profile'.status = snap.status
      BY <1>0, <3>1 DEF ScriptProfile
    <3>3. snap.status.nodeStatuses = profile.status.nodeStatuses
      BY <1>0, <1>3, <2>1 DEF CopyInv, UpdateStatus, UpToDate
    <3> QED BY <3>2, <3>3
  <2>2. CASE ~UpToDate(snapFresh)
    BY <1>3, <2>2 DEF UpdateStatus, UpdateProfile, profileVars
  <2> QED BY <2>1, <2>2
<1>4. CASE \/ ScriptReconcileStart \/ CleanupScriptDaemonSet \/ CleanupScriptConfigMap
           \/ EnsureScriptConfigMap \/ SelectScriptNodes \/ ReconcileScriptDaemonSet
  BY <1>4
     DEF ScriptReconcileStart, ReconcileStart, CleanupScriptDaemonSet, CleanupScriptConfigMap,
         EnsureScriptConfigMap, SelectScriptNodes, ReconcileScriptDaemonSet, profileVars
<1> QED BY <1>1, <1>2, <1>3, <1>4 DEF ScriptReconcileStep

LEMMA ScriptReportsKept ==
    ASSUME ScriptControllerInv, [ScriptNext]_allVars, profile # None, profile' # None,
           NEW n \in Nodes,
           profile'.status.nodeStatuses[n] # profile.status.nodeStatuses[n]
    PROVE  \E r \in reports \ reports' : r.node = n
<1>0. profile \in ScriptProfile /\ ScriptTypeOK /\ CopyInv
  BY DEF ScriptControllerInv, ScriptTypeOK, ScriptProfileTypeOK, MaybeScriptProfile
<1>1. CASE UNCHANGED profileVars \/ SyncProfile \/ RestartManager \/ ReconcileError
           \/ \E x \in Nodes : NodeCacheSync(x)
  BY <1>1 DEF profileVars, SyncProfile, RestartManager, ReconcileError, NodeCacheSync
<1>2. CASE ScriptUserNext
  <2>1. profile'.status = profile.status
    <3>1. ASSUME NEW s \in ScriptSpecs, CreateProfile(s, FALSE) PROVE FALSE
      BY <3>1 DEF CreateProfile
    <3>2. ASSUME NEW s \in ScriptSpecs, EditSpec(s) PROVE profile'.status = profile.status
      BY <1>0, <3>2, ScriptUserWrites DEF EditSpec, WriteProfile
    <3>3. CASE DeleteProfile
      <4>1. profile.spec \in ScriptSpecs
        BY <1>0 DEF ScriptProfile
      <4>2. profile' = NextGeneration([profile EXCEPT !.deleting = TRUE])
        BY <3>3 DEF DeleteProfile, WriteProfile
      <4> QED BY <1>0, <4>1, <4>2, ScriptUserWrites
    <3> QED BY <1>2, <3>1, <3>2, <3>3 DEF ScriptUserNext
  <2> QED BY <2>1
<1>3. CASE ScriptReconcileStep
  BY <1>3, ScriptEntriesKept
<1>4. ASSUME NEW r \in reports, RecordScriptReport(r)
      PROVE  \E q \in reports \ reports' : q.node = n
  <2>1. /\ cache = profile /\ r \in InFlight /\ reports' = reports \ {r}
        /\ profile'.status = ScriptRecorded(cache.status, r)
    BY <1>0, <1>4, ScriptReportWrite DEF CopyInv
  <2>2. n = r.node
    BY <1>0, <2>1, ScriptRecordedType DEF ScriptProfile
  <2> QED BY <2>1, <2>2
<1> QED BY <1>0, <1>1, <1>2, <1>3, <1>4, ScriptFrame

\* Neither the status write of the ScriptProfile controller nor any other step
\* undoes or invents what a report said of a node.
THEOREM ScriptReportsNotOverwritten == ScriptSpec => ReportsAreNotOverwritten
<1> DEFINE A == \A n \in Nodes :
                  (profile # None /\ profile' # None /\
                   profile'.status.nodeStatuses[n] # profile.status.nodeStatuses[n])
                  => \E r \in reports \ reports' : r.node = n
<1>1. ScriptControllerInv /\ [ScriptNext]_allVars => [A]_vars
  BY ScriptReportsKept
<1> HIDE DEF A
<1>2. ScriptSpec => [][A]_vars
  BY <1>1, ScriptControllerCorrect, PTL DEF ScriptSpec
<1> QED BY <1>2 DEF A, ReportsAreNotOverwritten

\* A report leaves the counters right, whatever they were.
LEMMA ScriptRecordedCounts ==
    ASSUME NEW st \in Status, NEW r \in InFlight
    PROVE  CountsOf(ScriptRecorded(st, r))
<1> DEFINE u == upsertScriptNodeStatus(st, r)
<1>1. DOMAIN u = DOMAIN st
  BY DEF upsertScriptNodeStatus
<1>2. {"nodeStatuses", "appliedNodes", "failedNodes"} \subseteq DOMAIN st
  BY DEF Status
<1> HIDE DEF u
<1>3. /\ recomputeCounts(u).nodeStatuses = u.nodeStatuses
      /\ recomputeCounts(u).appliedNodes = Cardinality(InPhase(u, "Applied"))
      /\ recomputeCounts(u).failedNodes = Cardinality(InPhase(u, "Failed"))
  BY <1>1, <1>2 DEF recomputeCounts
<1>4. \A phase : InPhase(recomputeCounts(u), phase) = InPhase(u, phase)
  BY <1>3 DEF InPhase
<1> QED BY <1>3, <1>4 DEF CountsOf, ScriptRecorded, recomputeScriptCounts, u

LEMMA ScriptCountsStep ==
    ASSUME ScriptControllerInv, CountsMatch, [ScriptNext]_allVars
    PROVE  CountsMatch'
<1>0. /\ ScriptTypeOK /\ CopyInv
      /\ profile # None => profile \in ScriptProfile
      /\ pc # "idle" => snap \in ScriptProfile /\ snap # None
  BY DEF ScriptControllerInv, ScriptTypeOK, ScriptProfileTypeOK, ScriptReconcileTypeOK,
         MaybeScriptProfile
<1>b. /\ profile # None => CountsOf(profile.status)
      /\ cache # None => CountsOf(cache.status)
      /\ snap # None => CountsOf(snap.status)
  BY DEF CountsMatch, CountsAgree
<1>c. CountsMatch' <=> /\ profile' # None => CountsOf(profile'.status)
                       /\ cache' # None => CountsOf(cache'.status)
                       /\ snap' # None => CountsOf(snap'.status)
  BY DEF CountsMatch, CountsAgree, CountsOf, InPhase
<1>1. CASE UNCHANGED <<profileVars, reconcileVars>> \/ SyncProfile
           \/ RestartManager \/ ReconcileError \/ \E n \in Nodes : NodeCacheSync(n)
  BY <1>1, <1>b, <1>c
     DEF profileVars, reconcileVars, SyncProfile, RestartManager, ReconcileError, Fail, Done,
         NodeCacheSync
<1>2. CASE ScriptUserNext
  <2>1. profile' # None => CountsOf(profile'.status)
    BY <1>0, <1>2, <1>b, ScriptUserWrite, EmptyCounts
  <2> QED BY <1>2, <1>b, <1>c, <2>1, ScriptUserFrame
<1>3. ASSUME NEW r \in reports, RecordScriptReport(r) PROVE CountsMatch'
  <2>1. /\ cache \in ScriptProfile /\ r \in InFlight
        /\ profile'.status = ScriptRecorded(cache.status, r)
        /\ UNCHANGED <<cache, snap>>
    BY <1>0, <1>3, ScriptReportWrite
  <2>2. CountsOf(profile'.status)
    BY <2>1, ScriptRecordedCounts DEF ScriptProfile
  <2> QED BY <1>b, <1>c, <2>1, <2>2
<1>4. CASE ScriptReconcileStep
  <2>1. CASE AddFinalizer
    <3>1. CASE UpToDate(snapFresh)
      <4>1. snap \in ScriptProfile /\ snap # None /\ profile' = [snap EXCEPT !.finalizer = TRUE]
        BY <1>0, <2>1, <3>1 DEF AddFinalizer, UpdateProfile
      <4>2. profile'.status = snap.status
        BY <4>1 DEF ScriptProfile
      <4> QED BY <1>b, <1>c, <2>1, <3>1, <4>1, <4>2 DEF AddFinalizer, UpdateProfile, Done
    <3>2. CASE ~UpToDate(snapFresh)
      BY <1>b, <1>c, <2>1, <3>2 DEF AddFinalizer, UpdateProfile, Fail, Done, profileVars
    <3> QED BY <3>1, <3>2
  <2>2. CASE RemoveFinalizer
    BY <1>b, <1>c, <2>2 DEF RemoveFinalizer, UpdateProfile, Fail, Done, profileVars
  <2>3. CASE UpdateStatus
    <3>1. CASE UpToDate(snapFresh)
      <4>1. profile' = [profile EXCEPT !.status = snap.status] /\ profile \in ScriptProfile
            /\ snap # None
        BY <1>0, <2>3, <3>1 DEF UpdateStatus, UpdateProfile, UpToDate
      <4>2. profile'.status = snap.status
        BY <4>1 DEF ScriptProfile
      <4> QED BY <1>b, <1>c, <2>3, <3>1, <4>1, <4>2 DEF UpdateStatus, UpdateProfile, Done
    <3>2. CASE ~UpToDate(snapFresh)
      BY <1>b, <1>c, <2>3, <3>2 DEF UpdateStatus, UpdateProfile, Fail, Done, profileVars
    <3> QED BY <3>1, <3>2
  <2>4. CASE \/ ScriptReconcileStart \/ CleanupScriptDaemonSet \/ CleanupScriptConfigMap
             \/ EnsureScriptConfigMap \/ SelectScriptNodes
    BY <1>b, <1>c, <2>4
       DEF ScriptReconcileStart, ReconcileStart, CleanupScriptDaemonSet, CleanupScriptConfigMap,
           EnsureScriptConfigMap, SelectScriptNodes, Goto, profileVars, reconcileVars
  <2>5. CASE ReconcileScriptDaemonSet
    <3> DEFINE hash     == hashContent(renderScripts(snap.spec))
               complete == scriptAllNodesApplied(snap.status, selected, hash)
               status   == newStatus(snap.status, snap.generation, hash, complete)
    <3>0. UNCHANGED profileVars /\ snap \in ScriptProfile /\ snap # None
      BY <1>0, <2>5 DEF ReconcileScriptDaemonSet
    <3>1. snap' = None \/ snap' = [snap EXCEPT !.status = status]
      BY <2>5 DEF ReconcileScriptDaemonSet, Done
    <3>2. CountsOf(status)
      BY <1>b, <3>0, NewStatusCounts DEF ScriptProfile
    <3> HIDE DEF status
    <3>3. snap' # None => CountsOf(snap'.status)
      BY <3>0, <3>1, <3>2 DEF ScriptProfile
    <3> QED BY <1>b, <1>c, <3>0, <3>3 DEF profileVars
  <2> QED BY <1>4, <2>1, <2>2, <2>3, <2>4, <2>5 DEF ScriptReconcileStep
<1> QED BY <1>0, <1>1, <1>2, <1>3, <1>4, ScriptFrame

\* In every copy of a ScriptProfile's status the counters agree with the
\* entries, although the report API and the controller both write it.
LEMMA ScriptCountsCorrect == ScriptSpec => []CountsMatch
<1>1. ScriptInit => CountsMatch
  BY DEF ScriptInit, Init, CountsMatch, CountsAgree
<1>2. ScriptControllerInv /\ CountsMatch /\ [ScriptNext]_allVars => CountsMatch'
  BY ScriptCountsStep
<1> QED BY <1>1, <1>2, ScriptControllerCorrect, PTL DEF ScriptSpec

\* Whenever the manager rests, a rollout of scripts that is called complete is
\* counted complete, although Reconcile writes the verdict and the report API
\* the counters.
THEOREM ScriptCompleteIsCounted == ScriptSpec => []CompleteIsCounted
<1>1. ScriptSettledMatchesSpec /\ CountsMatch => CompleteIsCounted
  BY MatchedIsCounted DEF ScriptSettledMatchesSpec, CompleteIsCounted, CountsMatch, CountsAgree
<1> QED BY <1>1, ScriptSettledCorrect, ScriptCountsCorrect, PTL

\* No DaemonSet of scripts exists without the ConfigMap its pods mount, with
\* the cleanup order of cleanupScript.
THEOREM ScriptDaemonSetHasConfigMap == ScriptSpec => []DaemonSetHasConfigMap
<1>1. ScriptControllerInv => DaemonSetHasConfigMap
  BY DEF ScriptControllerInv, ProgressInv, DaemonSetHasConfigMap
<1> QED BY <1>1, ScriptControllerCorrect, PTL
=============================================================================
