------------------------ MODULE SysctlOperatorProofs ------------------------
(***************************************************************************)
(* Theorems about the composed system, for any number of nodes, configs,   *)
(* environment moves, pods per node and report attempts.                   *)
(***************************************************************************)
EXTENDS SysctlOperator, FiniteSetTheorems, TLAPS

----------------------------------------------------------------------------
\* Lemmas about records: profiles, statuses and pods.

\* A number of nodes is a natural number.
LEMMA NodeCountType ==
    ASSUME NEW S, S \subseteq Nodes
    PROVE  Cardinality(S) \in Nat
BY NodesAssumption, FS_Subset, FS_CardinalityType

\* The two hash functions have values in Hashes.
LEMMA HashType ==
    ASSUME NEW c \in Configs
    PROVE  HashOf[c] \in Hashes /\ HashOf[c] # None
BY HashAssumption, NoneAssumption

LEMMA EmptyStatusType == EmptyStatus \in Status
BY DEF EmptyStatus, Status, NoEntry, NodeStatus, NodePhase, MaybeHash, ReadyReason

\* A user's write gives a profile, and leaves the finalizer and the status.
LEMMA UserWrites ==
    ASSUME NEW p \in SysctlProfile, NEW c \in Configs
    PROVE  \A q \in {[p EXCEPT !.spec = c], [p EXCEPT !.driftCheck = ~ @],
                     [p EXCEPT !.deleting = TRUE]} :
               /\ NextGeneration(q) \in SysctlProfile
               /\ NextGeneration(q).finalizer = p.finalizer
               /\ NextGeneration(q).status = p.status
<1> SUFFICES ASSUME NEW q \in {[p EXCEPT !.spec = c], [p EXCEPT !.driftCheck = ~ @],
                               [p EXCEPT !.deleting = TRUE]}
             PROVE  /\ NextGeneration(q) \in SysctlProfile
                    /\ NextGeneration(q).finalizer = p.finalizer
                    /\ NextGeneration(q).status = p.status
  OBVIOUS
<1>1. q \in SysctlProfile /\ q.finalizer = p.finalizer /\ q.status = p.status
  BY DEF SysctlProfile
<1>2. q.generation + 1 \in Nat
  BY <1>1 DEF SysctlProfile
<1> QED BY <1>1, <1>2 DEF NextGeneration, SysctlProfile

\* What the report API makes of a status is a status, and it touches only the
\* entry of the node that reports.
LEMMA RecordedType ==
    ASSUME NEW st \in Status, NEW r \in InFlight
    PROVE  /\ Recorded(st, r) \in Status
           /\ \A n \in Nodes \ {r.node} :
                Recorded(st, r).nodeStatuses[n] = st.nodeStatuses[n]
<1> DEFINE u == upsertNodeStatus(st, r)
<1>1. r.node \in Nodes /\ r.hash \in Hashes /\ r.success \in BOOLEAN
  BY DEF InFlight
<1>2. u \in Status /\ \A n \in Nodes \ {r.node} : u.nodeStatuses[n] = st.nodeStatuses[n]
  <2>1. CASE r.success
    <3> DEFINE e == Succeeded(r.hash)
               f == [st.nodeStatuses EXCEPT ![r.node] = e]
    <3>1. e \in NodeStatus
      BY <1>1 DEF Succeeded, NodeStatus, NodePhase, MaybeHash
    <3>2. f \in [Nodes -> NodeStatus] /\ \A n \in Nodes \ {r.node} : f[n] = st.nodeStatuses[n]
      BY <1>1, <3>1 DEF Status
    <3>3. u = [st EXCEPT !.nodeStatuses = f]
      BY <2>1 DEF upsertNodeStatus
    <3> QED BY <3>2, <3>3 DEF Status
  <2>2. CASE ~r.success
    <3> DEFINE o == st.nodeStatuses[r.node]
               e == Failed(o)
               f == [st.nodeStatuses EXCEPT ![r.node] = e]
    <3>1. o \in NodeStatus /\ st.erroredPods + 1 \in Nat
      BY <1>1 DEF Status
    <3>2. e \in NodeStatus
      BY <3>1 DEF Failed, NodeStatus, NodePhase
    <3>3. f \in [Nodes -> NodeStatus] /\ \A n \in Nodes \ {r.node} : f[n] = st.nodeStatuses[n]
      BY <1>1, <3>2 DEF Status
    <3>4. u = [st EXCEPT !.nodeStatuses = f, !.erroredPods = @ + 1]
      BY <2>2 DEF upsertNodeStatus
    <3> QED BY <3>1, <3>3, <3>4 DEF Status
  <2> QED BY <2>1, <2>2
<1>3. Cardinality(InPhase(u, "Applied")) \in Nat /\ Cardinality(InPhase(u, "Failed")) \in Nat
  BY NodeCountType DEF InPhase
<1> HIDE DEF u
<1>4. recomputeCounts(u) \in Status /\ recomputeCounts(u).nodeStatuses = u.nodeStatuses
  BY <1>2, <1>3 DEF recomputeCounts, Status
<1> QED BY <1>2, <1>4 DEF Recorded, u

\* So is the status Reconcile computes; the node entries are untouched.
LEMMA NewStatusType ==
    ASSUME NEW st \in Status, NEW generation \in Nat, NEW hash \in Hashes,
           NEW complete \in BOOLEAN,
           selected \subseteq Nodes
    PROVE  /\ newStatus(st, generation, hash, complete) \in Status
           /\ newStatus(st, generation, hash, complete).nodeStatuses = st.nodeStatuses
BY NodeCountType DEF newStatus, Status, MaybeHash, ReadyReason

----------------------------------------------------------------------------
\* Type correctness.

LEMMA TypeInit == Init => TypeOK
<1> SUFFICES ASSUME Init PROVE TypeOK
  OBVIOUS
<1> USE DEF Init
<1>1. ProfileTypeOK
  BY DEF ProfileTypeOK, MaybeProfile
<1>2. ReconcileTypeOK
  <2>1. pc \in ReconcilePC
    BY DEF ReconcilePC
  <2>2. (snap = None) <=> (pc = "idle")
    OBVIOUS
  <2> QED BY <2>1, <2>2 DEF ReconcileTypeOK, MaybeProfile
<1>3. OwnedTypeOK
  BY DEF OwnedTypeOK, MaybeHash
<1>4. NodesTypeOK
  BY InitAssumption DEF NodesTypeOK
<1>5. HostsTypeOK
  BY DEF HostsTypeOK
<1>6. EnvTypeOK
  <2>1. env \in 0 .. MaxEnv
    BY BoundsAssumption
  <2> QED BY <2>1 DEF EnvTypeOK
<1> QED BY <1>1, <1>2, <1>3, <1>4, <1>5, <1>6 DEF TypeOK

\* A part of the state that does not change keeps its type.
LEMMA TypeUnchanged ==
    /\ ProfileTypeOK /\ UNCHANGED profileVars => ProfileTypeOK'
    /\ ReconcileTypeOK /\ UNCHANGED <<queued, reconcileVars>> => ReconcileTypeOK'
    /\ OwnedTypeOK /\ UNCHANGED ownedVars => OwnedTypeOK'
    /\ NodesTypeOK /\ UNCHANGED nodeVars => NodesTypeOK'
    /\ HostsTypeOK /\ UNCHANGED <<pods, hostVars>> => HostsTypeOK'
    /\ EnvTypeOK /\ UNCHANGED <<reports, envVars>> => EnvTypeOK'
<1>1. ProfileTypeOK /\ UNCHANGED profileVars => ProfileTypeOK'
  BY DEF profileVars, ProfileTypeOK
<1>2. ReconcileTypeOK /\ UNCHANGED <<queued, reconcileVars>> => ReconcileTypeOK'
  BY DEF reconcileVars, ReconcileTypeOK
<1>3. OwnedTypeOK /\ UNCHANGED ownedVars => OwnedTypeOK'
  BY DEF ownedVars, OwnedTypeOK
<1>4. NodesTypeOK /\ UNCHANGED nodeVars => NodesTypeOK'
  BY DEF nodeVars, NodesTypeOK
<1>5. HostsTypeOK /\ UNCHANGED <<pods, hostVars>> => HostsTypeOK'
  BY DEF hostVars, HostsTypeOK
<1>6. EnvTypeOK /\ UNCHANGED <<reports, envVars>> => EnvTypeOK'
  BY DEF envVars, EnvTypeOK
<1> QED BY <1>1, <1>2, <1>3, <1>4, <1>5, <1>6

\* A write of the profile by someone other than Reconcile.
LEMMA TypeWrite ==
    ASSUME TypeOK, NEW p \in MaybeProfile, WriteProfile(p),
           UNCHANGED <<queued, pc, snap, selected>>
    PROVE  ProfileTypeOK' /\ ReconcileTypeOK'
BY DEF TypeOK, ProfileTypeOK, ReconcileTypeOK, WriteProfile

LEMMA TypeEnv ==
    ASSUME TypeOK, NEW kind, Env(kind), reports' \subseteq InFlight, mishap' \in BOOLEAN
    PROVE  EnvTypeOK'
BY BoundsAssumption DEF TypeOK, EnvTypeOK, Env

\* Users.
LEMMA TypeUser == TypeOK /\ UserNext => TypeOK'
<1> SUFFICES ASSUME TypeOK, UserNext PROVE TypeOK'
  OBVIOUS
<1> USE TypeUnchanged
<1>0. /\ profile \in MaybeProfile /\ reports \subseteq InFlight /\ mishap \in BOOLEAN
      /\ None \in MaybeProfile /\ SysctlProfile \subseteq MaybeProfile
      /\ profile # None => profile \in SysctlProfile
  BY DEF TypeOK, ProfileTypeOK, EnvTypeOK, MaybeProfile
<1>1. ASSUME NEW c \in Configs, NEW drift \in DriftChecks, CreateProfile(c, drift)
      PROVE  TypeOK'
  <2>1. [spec |-> c, driftCheck |-> drift, generation |-> 1, deleting |-> FALSE,
         finalizer |-> FALSE, status |-> EmptyStatus] \in SysctlProfile
    BY EmptyStatusType, InitAssumption DEF SysctlProfile
  <2>2. ProfileTypeOK' /\ ReconcileTypeOK'
    BY <1>0, <1>1, <2>1, TypeWrite DEF CreateProfile
  <2>3. EnvTypeOK'
    BY <1>0, <1>1, TypeEnv DEF CreateProfile
  <2> QED BY <1>1, <2>2, <2>3 DEF TypeOK, CreateProfile
<1>2. ASSUME NEW c \in Configs, EditSpec(c) PROVE TypeOK'
  <2>1. NextGeneration([profile EXCEPT !.spec = c]) \in SysctlProfile
    BY <1>0, <1>2, UserWrites DEF EditSpec
  <2>2. ProfileTypeOK' /\ ReconcileTypeOK'
    BY <1>0, <1>2, <2>1, TypeWrite DEF EditSpec
  <2>3. EnvTypeOK'
    BY <1>0, <1>2, TypeEnv DEF EditSpec
  <2> QED BY <1>2, <2>2, <2>3 DEF TypeOK, EditSpec
<1>3. CASE EditSchedule
  <2>1. NextGeneration([profile EXCEPT !.driftCheck = ~ @]) \in SysctlProfile
    BY <1>0, <1>3, UserWrites DEF EditSchedule, SysctlProfile
  <2>2. ProfileTypeOK' /\ ReconcileTypeOK'
    BY <1>0, <1>3, <2>1, TypeWrite DEF EditSchedule
  <2>3. EnvTypeOK'
    BY <1>0, <1>3, TypeEnv DEF EditSchedule
  <2> QED BY <1>3, <2>2, <2>3 DEF TypeOK, EditSchedule
<1>4. CASE DeleteProfile
  <2>1. (IF profile.finalizer THEN NextGeneration([profile EXCEPT !.deleting = TRUE]) ELSE None)
            \in MaybeProfile
    BY <1>0, <1>4, UserWrites DEF DeleteProfile, SysctlProfile
  <2>2. ProfileTypeOK' /\ ReconcileTypeOK'
    BY <1>0, <1>4, <2>1, TypeWrite DEF DeleteProfile
  <2>3. EnvTypeOK'
    BY <1>0, <1>4, TypeEnv DEF DeleteProfile
  <2> QED BY <1>4, <2>2, <2>3 DEF TypeOK, DeleteProfile
<1> QED BY <1>1, <1>2, <1>3, <1>4 DEF UserNext

\* Reconcile returns.
LEMMA TypeDone ==
    ASSUME TypeOK, Done, queued' \in BOOLEAN
    PROVE  ReconcileTypeOK'
<1>1. pc' \in ReconcilePC /\ snap' \in MaybeProfile
  BY DEF Done, ReconcilePC, MaybeProfile
<1>2. (snap' = None) <=> (pc' = "idle")
  BY DEF Done
<1> QED BY <1>1, <1>2 DEF ReconcileTypeOK, Done

\* Nodes, failures and restarts.
LEMMA TypeFailure == TypeOK /\ FailureNext => TypeOK'
<1> SUFFICES ASSUME TypeOK, FailureNext PROVE TypeOK'
  OBVIOUS
<1> USE TypeUnchanged
<1>0. /\ profile \in MaybeProfile /\ reports \subseteq InFlight /\ mishap \in BOOLEAN
      /\ queued \in BOOLEAN /\ pods \subseteq Pod
  BY DEF TypeOK, ProfileTypeOK, EnvTypeOK, ReconcileTypeOK, HostsTypeOK
<1>1. ASSUME NEW n \in Nodes, NEW kind, NEW label \in NodeLabels,
             ChangeNode(n, kind, label)
      PROVE  TypeOK'
  <2>1. EnvTypeOK'
    BY <1>0, <1>1, TypeEnv DEF ChangeNode
  <2>2. NodesTypeOK'
    BY <1>1 DEF TypeOK, NodesTypeOK, ChangeNode
  <2>3. HostsTypeOK'
    BY <1>1 DEF TypeOK, HostsTypeOK, ChangeNode
  <2>4. ReconcileTypeOK'
    BY <1>0, <1>1 DEF TypeOK, ReconcileTypeOK, ChangeNode, OwnedChanged, reconcileVars
  <2> QED BY <1>1, <2>1, <2>2, <2>3, <2>4 DEF TypeOK, ChangeNode
<1>2. ASSUME NEW n \in Nodes, LoseLiveValues(n) PROVE TypeOK'
  <2>1. EnvTypeOK'
    BY <1>0, <1>2, TypeEnv DEF LoseLiveValues
  <2>2. \A p \in Pod : [p EXCEPT !.pc = "crashed", !.content = None] \in Pod
    BY DEF Pod, PodPC
  <2>3. pods' \subseteq Pod
    BY <1>0, <1>2, <2>2 DEF LoseLiveValues
  <2>4. \A p \in pods' : p.pc \in {"apply", "sendOk", "sendFailed"} => p.content # None
    <3> SUFFICES ASSUME NEW p \in pods', p.pc \in {"apply", "sendOk", "sendFailed"}
                 PROVE  p.content # None
      OBVIOUS
    <3>1. PICK q \in pods : p = IF q.node = n /\ q.pc # "creating"
                               THEN [q EXCEPT !.pc = "crashed", !.content = None]
                               ELSE q
      BY <1>2 DEF LoseLiveValues
    <3>2. q \in Pod
      BY <1>0
    <3>3. p = q
      BY <3>1, <3>2 DEF Pod
    <3> QED BY <3>3 DEF TypeOK, HostsTypeOK
  <2>5. HostsTypeOK'
    BY <1>2, <2>3, <2>4 DEF TypeOK, HostsTypeOK, LoseLiveValues
  <2> QED BY <1>2, <2>1, <2>5 DEF TypeOK, LoseLiveValues
<1>3. ASSUME NEW p \in pods, CrashContainer(p) PROVE TypeOK'
  <2>1. EnvTypeOK'
    BY <1>0, <1>3, TypeEnv DEF CrashContainer
  <2>2. [p EXCEPT !.pc = "crashed", !.content = None] \in Pod
    BY <1>0 DEF Pod, PodPC
  <2>3. [p EXCEPT !.pc = "crashed", !.content = None].pc = "crashed"
    BY <1>0 DEF Pod
  <2>4. HostsTypeOK'
    BY <1>3, <2>2, <2>3 DEF TypeOK, HostsTypeOK, CrashContainer, hostVars
  <2> QED BY <1>3, <2>1, <2>4 DEF TypeOK, CrashContainer
<1>4. ASSUME NEW r \in reports, LoseReport(r) PROVE TypeOK'
  <2>1. EnvTypeOK'
    BY <1>0, <1>4, TypeEnv DEF LoseReport
  <2> QED BY <1>4, <2>1 DEF TypeOK, LoseReport
<1>5. CASE RestartManager
  <2>1. EnvTypeOK'
    BY <1>0, <1>5, TypeEnv DEF RestartManager
  <2>2. ProfileTypeOK'
    BY <1>0, <1>5 DEF RestartManager, ProfileTypeOK
  <2>3. ReconcileTypeOK'
    BY <1>5, TypeDone DEF RestartManager, Done
  <2>4. NodesTypeOK'
    BY <1>5 DEF TypeOK, NodesTypeOK, RestartManager
  <2> QED BY <1>5, <2>1, <2>2, <2>3, <2>4 DEF TypeOK, RestartManager
<1>6. CASE ReconcileError
  <2>1. EnvTypeOK'
    BY <1>0, <1>6, TypeEnv DEF ReconcileError
  <2>2. ReconcileTypeOK'
    BY <1>6, TypeDone DEF ReconcileError, Fail
  <2> QED BY <1>6, <2>1, <2>2 DEF TypeOK, ReconcileError
<1>7. CASE Resync
  <2>1. EnvTypeOK'
    BY <1>0, <1>7, TypeEnv DEF Resync
  <2>2. ReconcileTypeOK'
    BY <1>7 DEF TypeOK, ReconcileTypeOK, Resync, reconcileVars
  <2> QED BY <1>7, <2>1, <2>2 DEF TypeOK, Resync
<1> QED BY <1>1, <1>2, <1>3, <1>4, <1>5, <1>6, <1>7 DEF FailureNext

\* Pods come, go and start.
LEMMA TypeCluster == TypeOK /\ ClusterNext => TypeOK'
<1> SUFFICES ASSUME TypeOK, ClusterNext PROVE TypeOK'
  OBVIOUS
<1> USE TypeUnchanged
<1>0. queued \in BOOLEAN /\ pods \subseteq Pod
  BY DEF TypeOK, ReconcileTypeOK, HostsTypeOK
<1>1. ASSUME NEW n \in Nodes, FreeIds(n) # {}, NEW kind \in PodKind,
             NEW hash \in Hashes, NEW volume \in ConfigMapNames
      PROVE  NewPod(n, kind, hash, volume) \in Pod
  <2>1. (CHOOSE i \in FreeIds(n) : TRUE) \in 1 .. MaxPodsPerNode
    BY <1>1 DEF FreeIds
  <2> QED BY <2>1 DEF NewPod, Pod, PodPC
<1>2. ASSUME NEW n \in Nodes, SchedulePod(n) PROVE TypeOK'
  <2>1. NewPod(n, "applier", daemonSet, resourceName) \in Pod
    BY <1>1, <1>2 DEF SchedulePod, TypeOK, OwnedTypeOK, MaybeHash, PodKind, ConfigMapNames
  <2>2. NewPod(n, "applier", daemonSet, resourceName).pc = "creating"
    BY DEF NewPod
  <2>3. HostsTypeOK'
    BY <1>2, <2>1, <2>2 DEF SchedulePod, TypeOK, HostsTypeOK, hostVars
  <2>4. ReconcileTypeOK'
    BY <1>0, <1>2 DEF TypeOK, ReconcileTypeOK, SchedulePod, OwnedChanged, reconcileVars
  <2> QED BY <1>2, <2>3, <2>4 DEF TypeOK, SchedulePod
<1>3. ASSUME NEW n \in Nodes, RunCronJob(n) PROVE TypeOK'
  <2>1. NewPod(n, "drift", cronJob, cronJobName) \in Pod
    BY <1>1, <1>3 DEF RunCronJob, TypeOK, OwnedTypeOK, MaybeHash, PodKind, ConfigMapNames
  <2>2. NewPod(n, "drift", cronJob, cronJobName).pc = "creating"
    BY DEF NewPod
  <2>3. HostsTypeOK'
    BY <1>3, <2>1, <2>2 DEF RunCronJob, TypeOK, HostsTypeOK, hostVars
  <2> QED BY <1>3, <2>3 DEF TypeOK, RunCronJob
<1>4. ASSUME NEW p \in pods, KillPod(p) PROVE TypeOK'
  <2>1. HostsTypeOK'
    BY <1>4 DEF KillPod, TypeOK, HostsTypeOK, hostVars
  <2>2. ReconcileTypeOK'
    BY <1>0, <1>4 DEF TypeOK, ReconcileTypeOK, KillPod, OwnedChanged, reconcileVars
  <2> QED BY <1>4, <2>1, <2>2 DEF TypeOK, KillPod
<1>5. ASSUME NEW p \in pods, StartContainer(p) PROVE TypeOK'
  <2>1. [p EXCEPT !.pc = "load"] \in Pod /\ [p EXCEPT !.pc = "load"].pc = "load"
    BY <1>0 DEF Pod, PodPC
  <2>2. HostsTypeOK'
    BY <1>5, <2>1 DEF StartContainer, TypeOK, HostsTypeOK, hostVars
  <2> QED BY <1>5, <2>2 DEF TypeOK, StartContainer
<1> QED BY <1>2, <1>3, <1>4, <1>5 DEF ClusterNext

\* The worker.
LEMMA TypeWorker ==
    ASSUME TypeOK, NEW p \in pods, WorkerNext(p)
    PROVE  TypeOK'
<1> USE TypeUnchanged
<1>0. /\ pods \subseteq Pod /\ p \in Pod /\ p.node \in Nodes
      /\ reports \subseteq InFlight /\ mishap \in BOOLEAN /\ rendered \subseteq Configs
      /\ p.pc \in {"apply", "sendOk", "sendFailed"} =>
            p.content \in Configs /\ HashBytes(p.content) \in Hashes
  BY HashType
     DEF TypeOK, HostsTypeOK, EnvTypeOK, OwnedTypeOK, Pod, HashBytes
\* Moving to another pc keeps the pod a pod.
<1>m. ASSUME NEW l \in PodPC
      PROVE  LET q == [p EXCEPT !.pc = l]
             IN  q \in Pod /\ q.pc = l /\ q.content = p.content
  BY <1>0 DEF Pod
<1>1. ASSUME NEW c \in rendered, Load(p, c) PROVE TypeOK'
  <2> DEFINE q == [p EXCEPT !.pc = "apply", !.content = c]
  <2>1. q \in Pod /\ q.content # None
    BY <1>0, NoneAssumption DEF Pod, PodPC
  <2>2. HostsTypeOK'
    BY <1>1, <2>1 DEF Load, Replace, TypeOK, HostsTypeOK, hostVars
  <2> QED BY <1>1, <2>2 DEF TypeOK, Load
<1>2. ASSUME NEW c \in rendered, LoadRefused(p, c) PROVE TypeOK'
  <2>1. HostsTypeOK'
    BY <1>2, <1>m DEF LoadRefused, Replace, TypeOK, HostsTypeOK, hostVars, PodPC
  <2> QED BY <1>2, <2>1 DEF TypeOK, LoadRefused
<1>3. CASE Apply(p)
  <2> DEFINE l == IF resultOK(FALSE) THEN "sendOk" ELSE "sendFailed"
             q == [p EXCEPT !.pc = l]
  <2>1. q \in Pod /\ q.content # None
    BY <1>0, <1>3, <1>m, NoneAssumption DEF Apply, PodPC
  <2>2. pods' \subseteq Pod
        /\ \A r \in pods' : r.pc \in {"apply", "sendOk", "sendFailed"} => r.content # None
    BY <1>3, <2>1 DEF Apply, Replace, TypeOK, HostsTypeOK
  <2>3. live' \in [Nodes -> Configs \cup {None}] /\ written' \in [Nodes -> SUBSET Hashes]
    BY <1>0, <1>3 DEF Apply, TypeOK, HostsTypeOK
  <2> QED BY <1>3, <2>2, <2>3 DEF TypeOK, HostsTypeOK, Apply
<1>4. CASE ApplyFails(p)
  <2> DEFINE l == IF resultOK(TRUE) THEN "sendOk" ELSE "sendFailed"
             q == [p EXCEPT !.pc = l]
  <2>1. q \in Pod /\ q.content # None
    BY <1>0, <1>4, <1>m, NoneAssumption DEF ApplyFails, PodPC
  <2>2. pods' \subseteq Pod
        /\ \A r \in pods' : r.pc \in {"apply", "sendOk", "sendFailed"} => r.content # None
    BY <1>4, <2>1 DEF ApplyFails, Replace, TypeOK, HostsTypeOK
  <2>3. live' \in [Nodes -> Configs \cup {None}] /\ written' \in [Nodes -> SUBSET Hashes]
    BY <1>0, <1>4 DEF ApplyFails, TypeOK, HostsTypeOK
  <2>4. EnvTypeOK'
    BY <1>0, <1>4, TypeEnv DEF ApplyFails
  <2> QED BY <1>4, <2>2, <2>3, <2>4 DEF TypeOK, HostsTypeOK, ApplyFails
<1>5. CASE sendReport(p)
  <2> DEFINE r == [node |-> p.node, hash |-> HashBytes(p.content),
                   success |-> p.pc = "sendOk", tries |-> 0]
  <2>1. r \in InFlight
    BY <1>0, <1>5, BoundsAssumption DEF sendReport, InFlight
  <2>2. reports' = reports \cup {r}
    BY <1>5 DEF sendReport
  <2>3. EnvTypeOK'
    BY <1>0, <1>5, <2>1, <2>2 DEF sendReport, TypeOK, EnvTypeOK, envVars
  <2>4. HostsTypeOK'
    BY <1>5, <1>m DEF sendReport, Replace, TypeOK, HostsTypeOK, hostVars, PodPC
  <2> QED BY <1>5, <2>3, <2>4 DEF TypeOK, sendReport
<1> QED BY <1>1, <1>2, <1>3, <1>4, <1>5 DEF WorkerNext

\* The report API.
LEMMA TypeReport ==
    ASSUME TypeOK, NEW r \in reports, applyReport(r)
    PROVE  TypeOK'
<1> USE TypeUnchanged
<1>0. /\ r \in InFlight /\ reports \subseteq InFlight /\ mishap \in BOOLEAN
      /\ profile \in MaybeProfile /\ cache \in MaybeProfile
      /\ SysctlProfile \subseteq MaybeProfile
  BY DEF TypeOK, EnvTypeOK, ProfileTypeOK, MaybeProfile
<1>1. CASE IgnoreReport(r)
  <2>1. EnvTypeOK'
    BY <1>1 DEF IgnoreReport, TypeOK, EnvTypeOK, envVars
  <2> QED BY <1>1, <2>1 DEF TypeOK, IgnoreReport
<1>2. CASE RecordReport(r)
  <2>1. cache \in SysctlProfile /\ profile \in SysctlProfile
    BY <1>0, <1>2 DEF RecordReport, RecordStatus, UpToDate, MaybeProfile
  <2>2. Recorded(cache.status, r) \in Status
    BY <1>0, <2>1, RecordedType DEF SysctlProfile
  <2>3. [profile EXCEPT !.status = Recorded(cache.status, r)] \in MaybeProfile
    BY <1>0, <2>1, <2>2 DEF SysctlProfile
  <2>4. ProfileTypeOK' /\ ReconcileTypeOK'
    BY <1>2, <2>3, TypeWrite DEF RecordReport, RecordStatus
  <2>5. EnvTypeOK'
    BY <1>0, <1>2 DEF RecordReport, RecordStatus, TakesBack, TypeOK, EnvTypeOK
  <2> QED BY <1>2, <2>4, <2>5 DEF TypeOK, RecordReport, RecordStatus
<1>3. CASE ConflictOnReport(r)
  <2>1. retriesLeft(r.tries) => [r EXCEPT !.tries = @ + 1] \in InFlight
    BY <1>0, BoundsAssumption DEF retriesLeft, InFlight
  <2>2. reports' \subseteq InFlight /\ mishap' \in BOOLEAN
    BY <1>0, <1>3, <2>1 DEF ConflictOnReport
  <2>3. EnvTypeOK'
    BY <1>3, <2>2 DEF ConflictOnReport, TypeOK, EnvTypeOK
  <2> QED BY <1>3, <2>3 DEF TypeOK, ConflictOnReport
<1> QED BY <1>1, <1>2, <1>3 DEF applyReport

\* A step that goes on to another one.
LEMMA TypeGoto ==
    ASSUME TypeOK, NEW step \in ReconcilePC \ {"idle"}, Goto(step), pc # "idle",
           queued' \in BOOLEAN
    PROVE  ReconcileTypeOK'
BY DEF TypeOK, ReconcileTypeOK, Goto

\* Deleting an object orphans its pods.
LEMMA TypeOrphaned ==
    ASSUME TypeOK, NEW kind, pods' = Orphaned(kind) \/ pods' = pods, UNCHANGED hostVars
    PROVE  HostsTypeOK'
<1>1. CASE pods' = pods
  BY <1>1, TypeUnchanged DEF TypeOK
<1>2. CASE pods' = Orphaned(kind)
  <2>1. \A p \in Pod : LET q == [p EXCEPT !.orphan = TRUE]
                       IN  q \in Pod /\ q.pc = p.pc /\ q.content = p.content
    BY DEF Pod
  <2>2. pods \subseteq Pod
    BY DEF TypeOK, HostsTypeOK
  <2>3. \A p \in pods' : \E q \in pods : p \in {q, [q EXCEPT !.orphan = TRUE]}
    BY <1>2 DEF Orphaned
  <2>4. pods' \subseteq Pod
        /\ \A p \in pods' : \E q \in pods : p.pc = q.pc /\ p.content = q.content
    BY <2>1, <2>2, <2>3
  <2> QED BY <2>4 DEF TypeOK, HostsTypeOK, hostVars
<1> QED BY <1>1, <1>2

\* Reconcile.
LEMMA TypeReconcile == TypeOK /\ ReconcileStep => TypeOK'
<1> SUFFICES ASSUME TypeOK, ReconcileStep PROVE TypeOK'
  OBVIOUS
<1> USE TypeUnchanged
<1>0. /\ queued \in BOOLEAN /\ profile \in MaybeProfile /\ cache \in MaybeProfile
      /\ cacheFresh \in BOOLEAN /\ selected \subseteq Nodes
      /\ SysctlProfile \subseteq MaybeProfile /\ None \in MaybeProfile
      /\ pc # "idle" => snap \in SysctlProfile
  BY DEF TypeOK, ReconcileTypeOK, ProfileTypeOK, MaybeProfile
<1>h. pc # "idle" => /\ renderSysctlConf(snap) \in Configs
                     /\ hashContent(renderSysctlConf(snap)) \in Hashes
  BY <1>0, HashType DEF renderSysctlConf, hashContent, SysctlProfile
\* The steps that end in an Update of the profile.
<1>u. ASSUME NEW p \in MaybeProfile, UpdateProfile(p) PROVE TypeOK'
  <2>1. CASE UpToDate(snapFresh)
    <3>1. ProfileTypeOK'
      BY <1>0, <1>u, <2>1 DEF UpdateProfile, ProfileTypeOK
    <3>2. ReconcileTypeOK'
      BY <1>0, <1>u, <2>1, TypeDone DEF UpdateProfile
    <3> QED BY <1>u, <3>1, <3>2 DEF TypeOK, UpdateProfile
  <2>2. CASE ~UpToDate(snapFresh)
    <3>1. ReconcileTypeOK'
      BY <1>u, <2>2, TypeDone DEF UpdateProfile, Fail
    <3> QED BY <1>u, <2>2, <3>1 DEF TypeOK, UpdateProfile
  <2> QED BY <2>1, <2>2
<1>1. CASE ReconcileStart
  <2>1. CASE cache = None \/ (cache.deleting /\ ~cache.finalizer)
    <3>1. ReconcileTypeOK'
      BY <1>1, <2>1 DEF ReconcileStart, TypeOK, ReconcileTypeOK, reconcileVars
    <3> QED BY <1>1, <3>1 DEF TypeOK, ReconcileStart
  <2>2. CASE ~(cache = None \/ (cache.deleting /\ ~cache.finalizer))
    <3>1. entryPoint(cache) \in ReconcilePC \ {"idle"}
      BY DEF entryPoint, afterCleanup, ReconcilePC
    <3>2. pc' = entryPoint(cache) /\ snap' = cache /\ cache # None
          /\ queued' = FALSE /\ snapFresh' = cacheFresh /\ selected' = selected
      BY <1>1, <2>2 DEF ReconcileStart
    <3>3. ReconcileTypeOK'
      BY <1>0, <3>1, <3>2 DEF ReconcileTypeOK
    <3> QED BY <1>1, <3>3 DEF TypeOK, ReconcileStart
  <2> QED BY <2>1, <2>2
<1>2. CASE AddFinalizer
  <2>1. [snap EXCEPT !.finalizer = TRUE] \in MaybeProfile
    BY <1>0, <1>2 DEF AddFinalizer, SysctlProfile
  <2> QED BY <1>2, <1>u, <2>1 DEF AddFinalizer
<1>3. CASE RemoveFinalizer
  BY <1>0, <1>3, <1>u DEF RemoveFinalizer
<1>4. CASE UpdateStatus
  <2>1. CASE profile = None
    <3>1. ReconcileTypeOK'
      BY <1>4, <2>1, TypeDone DEF UpdateStatus, UpdateProfile, UpToDate, Fail
    <3> QED BY <1>4, <2>1, <3>1 DEF TypeOK, UpdateStatus, UpdateProfile, UpToDate
  <2>2. CASE profile # None
    <3>1. profile \in SysctlProfile /\ snap.status \in Status
      BY <1>0, <1>4, <2>2 DEF UpdateStatus, SysctlProfile, MaybeProfile
    <3>2. [profile EXCEPT !.status = snap.status] \in MaybeProfile
      BY <1>0, <3>1 DEF SysctlProfile
    <3> QED BY <1>4, <1>u, <3>2 DEF UpdateStatus
  <2> QED BY <2>1, <2>2
<1>5. CASE CleanupDaemonSet
  <2>1. HostsTypeOK'
    BY <1>5, TypeOrphaned DEF CleanupDaemonSet, deleteDaemonSet
  <2>2. ReconcileTypeOK'
    BY <1>0, <1>5, TypeGoto
       DEF CleanupDaemonSet, deleteDaemonSet, afterCleanup, ReconcilePC, OwnedChanged
  <2>3. OwnedTypeOK'
    BY <1>5 DEF CleanupDaemonSet, deleteDaemonSet, TypeOK, OwnedTypeOK, MaybeHash
  <2> QED BY <1>5, <2>1, <2>2, <2>3 DEF TypeOK, CleanupDaemonSet
<1>6. CASE CleanupCronJob
  <2>1. HostsTypeOK'
    BY <1>6, TypeOrphaned DEF CleanupCronJob, ensureNoCronJob
  <2>2. ReconcileTypeOK'
    BY <1>0, <1>6, TypeGoto
       DEF CleanupCronJob, ensureNoCronJob, afterCleanup, ReconcilePC, OwnedChanged
  <2>3. OwnedTypeOK'
    BY <1>6 DEF CleanupCronJob, ensureNoCronJob, TypeOK, OwnedTypeOK, MaybeHash
  <2> QED BY <1>6, <2>1, <2>2, <2>3 DEF TypeOK, CleanupCronJob
<1>7. CASE CleanupConfigMap
  <2>1. ReconcileTypeOK'
    BY <1>0, <1>7, TypeGoto DEF CleanupConfigMap, afterCleanup, ReconcilePC, OwnedChanged
  <2>2. OwnedTypeOK'
    BY <1>7 DEF CleanupConfigMap, TypeOK, OwnedTypeOK
  <2> QED BY <1>7, <2>1, <2>2 DEF TypeOK, CleanupConfigMap
<1>8. CASE EnsureConfigMap
  <2>1. ReconcileTypeOK'
    BY <1>0, <1>8, TypeGoto DEF EnsureConfigMap, ReconcilePC, OwnedChanged
  <2>2. OwnedTypeOK'
    BY <1>h, <1>8 DEF EnsureConfigMap, TypeOK, OwnedTypeOK
  <2> QED BY <1>8, <2>1, <2>2 DEF TypeOK, EnsureConfigMap
<1>9. CASE ReconcileCronJob
  <2>1. HostsTypeOK'
    BY <1>9, TypeOrphaned DEF ReconcileCronJob, ensureNoCronJob, ensureCronJob
  <2>2. ReconcileTypeOK'
    BY <1>0, <1>9, TypeGoto
       DEF ReconcileCronJob, ensureNoCronJob, ensureCronJob, ReconcilePC, OwnedChanged
  <2>3. OwnedTypeOK'
    BY <1>h, <1>9
       DEF ReconcileCronJob, ensureNoCronJob, ensureCronJob, TypeOK, OwnedTypeOK, MaybeHash
  <2> QED BY <1>9, <2>1, <2>2, <2>3 DEF TypeOK, ReconcileCronJob
<1>10. CASE SelectNodes
  <2>1. ReconcileTypeOK'
    BY <1>10 DEF SelectNodes, selectedNodeNames, TypeOK, ReconcileTypeOK, ReconcilePC
  <2> QED BY <1>10, <2>1 DEF TypeOK, SelectNodes
<1>11. CASE ReconcileDaemonSet
  <2> DEFINE hash     == hashContent(renderSysctlConf(snap))
             complete == allNodesApplied(snap.status, selected, hash)
             status   == newStatus(snap.status, snap.generation, hash, complete)
  <2>1. snap \in SysctlProfile /\ snap.status \in Status /\ snap.generation \in Nat /\ hash \in Hashes
        /\ complete \in BOOLEAN
    BY <1>0, <1>h, <1>11 DEF ReconcileDaemonSet, SysctlProfile, allNodesApplied
  <2>2. status \in Status
    BY <1>0, <2>1, NewStatusType
  <2>3. [snap EXCEPT !.status = status] \in SysctlProfile
    BY <2>1, <2>2 DEF SysctlProfile
  <2>4. HostsTypeOK'
    BY <1>11, TypeOrphaned DEF ReconcileDaemonSet, deleteDaemonSet, ensureDaemonSet
  <2>5. queued' \in BOOLEAN
    BY <1>0, <1>11 DEF ReconcileDaemonSet, deleteDaemonSet, ensureDaemonSet, OwnedChanged
  <2>6. OwnedTypeOK'
    BY <2>1, <1>11
       DEF ReconcileDaemonSet, deleteDaemonSet, ensureDaemonSet, TypeOK, OwnedTypeOK, MaybeHash
  <2>7. ReconcileTypeOK'
    <3>1. CASE statusChanged(snap.status, status)
      <4>1. pc' = "status" /\ snap' = [snap EXCEPT !.status = status]
            /\ UNCHANGED <<snapFresh, selected>>
        BY <1>11, <3>1 DEF ReconcileDaemonSet
      <4> QED BY <2>3, <2>5, <4>1, NoProfileAssumption
              DEF TypeOK, ReconcileTypeOK, ReconcilePC, MaybeProfile
    <3>2. CASE ~statusChanged(snap.status, status)
      <4>1. Done
        BY <1>11, <3>2 DEF ReconcileDaemonSet
      <4> QED BY <2>5, <4>1, TypeDone
    <3> QED BY <3>1, <3>2
  <2> QED BY <1>11, <2>4, <2>6, <2>7 DEF TypeOK, ReconcileDaemonSet
<1> QED BY <1>1, <1>2, <1>3, <1>4, <1>5, <1>6, <1>7, <1>8, <1>9, <1>10, <1>11
        DEF ReconcileStep

LEMMA TypeStep == TypeOK /\ [Next]_vars => TypeOK'
<1> SUFFICES ASSUME TypeOK, [Next]_vars PROVE TypeOK'
  OBVIOUS
<1>1. CASE UNCHANGED vars
  BY <1>1, TypeUnchanged DEF vars, TypeOK
<1>2. CASE ManagerNext
  <2>1. CASE SyncProfile
    <3>1. ProfileTypeOK' /\ ReconcileTypeOK'
      BY <2>1 DEF SyncProfile, TypeOK, ProfileTypeOK, ReconcileTypeOK, reconcileVars
    <3> QED BY <2>1, <3>1, TypeUnchanged DEF TypeOK, SyncProfile
  <2>2. ASSUME NEW n \in Nodes, NodeCacheSync(n) PROVE TypeOK'
    <3>1. NodesTypeOK'
      BY <2>2 DEF NodeCacheSync, TypeOK, NodesTypeOK
    <3>2. queued' \in BOOLEAN
      BY <2>2 DEF NodeCacheSync
    <3>3. ReconcileTypeOK'
      BY <2>2, <3>2 DEF NodeCacheSync, TypeOK, ReconcileTypeOK, reconcileVars
    <3> QED BY <2>2, <3>1, <3>3, TypeUnchanged DEF TypeOK, NodeCacheSync
  <2> QED BY <1>2, <2>1, <2>2, TypeReconcile, TypeReport DEF ManagerNext
<1> QED BY <1>1, <1>2, TypeUser, TypeFailure, TypeCluster, TypeWorker DEF Next

\* Type correctness, for every cluster.
THEOREM TypeCorrect == Spec => []TypeOK
BY TypeInit, TypeStep, PTL DEF Spec

----------------------------------------------------------------------------
\* Copies of the profile.

\* What the freshness flags promise: a fresh cache is the profile, and a fresh
\* working copy differs from it at most in the status about to be written,
\* never in the node entries.
CopyInv ==
    /\ cacheFresh => cache = profile
    /\ snapFresh => cacheFresh /\ pc # "idle"
    /\ snapFresh /\ pc # "status" => snap = profile
    /\ snapFresh /\ pc = "status" =>
          /\ profile # None
          /\ snap.status.nodeStatuses = profile.status.nodeStatuses

\* Ownership: what the finalizer protects.
Creating == {"configMap", "cronJob", "selectedNodes", "daemonSet", "status"}
Cleaning == {"cleanupDaemonSet", "cleanupCronJob", "cleanupConfigMap", "removeFinalizer"}

Protected == profile # None /\ profile.finalizer

NothingOwned == configMap[resourceName] = None /\ cronJob = None /\ daemonSet = None

\* Nothing exists without a finalizer, and no stale copy that would make
\* Reconcile create something outlives the finalizer.
FinalizerInv ==
    /\ ~Protected => NothingOwned
    /\ cache # None /\ cache.finalizer /\ ~cache.deleting => Protected
    /\ pc \in Creating => Protected
    /\ pc \in Cleaning => snap.deleting
    /\ configMap[cronJobName] = None

\* How far cleanup is, and what creation has behind it.
ProgressInv ==
    /\ pc \in {"cleanupCronJob", "cleanupConfigMap", "removeFinalizer"} => daemonSet = None
    /\ pc \in {"cleanupConfigMap", "removeFinalizer"} => cronJob = None
    /\ pc = "removeFinalizer" => configMap[resourceName] = None
    /\ pc \in Creating \ {"configMap"} => configMap[resourceName] # None
    /\ daemonSet # None => configMap[resourceName] # None

\* Claims on their way from a worker to the status.
ClaimInv ==
    /\ AppliedWasWritten
    /\ \A r \in reports : r.success => r.hash \in written[r.node]
    /\ \A p \in pods : p.pc = "sendOk" => HashBytes(p.content) \in written[p.node]

\* Every step that touches the profile, its copies or the owned objects.
LEMMA ManagerFrame ==
    ASSUME [Next]_vars
    PROVE  \/ UNCHANGED <<profileVars, reconcileVars, ownedVars>>
           \/ UserNext
           \/ SyncProfile
           \/ ReconcileStep
           \/ RestartManager
           \/ ReconcileError
           \/ \E r \in reports : RecordReport(r)
<1>1. CASE UNCHANGED vars
  BY <1>1 DEF vars
<1>2. CASE FailureNext
  BY <1>2 DEF FailureNext, ChangeNode, LoseLiveValues, CrashContainer, LoseReport, Resync
<1>3. CASE ClusterNext
  BY <1>3 DEF ClusterNext, SchedulePod, RunCronJob, KillPod, StartContainer
<1>4. CASE ManagerNext
  BY <1>4 DEF ManagerNext, NodeCacheSync, applyReport, IgnoreReport, ConflictOnReport
<1>5. CASE \E p \in pods : WorkerNext(p)
  BY <1>5 DEF WorkerNext, Load, LoadRefused, Apply, ApplyFails, sendReport
<1> QED BY <1>1, <1>2, <1>3, <1>4, <1>5 DEF Next

\* A user's write leaves the copies and the owned objects alone.
LEMMA UserFrame ==
    ASSUME UserNext
    PROVE  /\ cacheFresh' = FALSE /\ snapFresh' = FALSE
           /\ UNCHANGED <<cache, pc, snap, selected, ownedVars>>
BY DEF UserNext, CreateProfile, EditSpec, EditSchedule, DeleteProfile, WriteProfile

LEMMA CopyStep == TypeOK /\ CopyInv /\ [Next]_vars => CopyInv'
<1> SUFFICES ASSUME TypeOK, CopyInv, [Next]_vars PROVE CopyInv'
  OBVIOUS
<1>d. ASSUME Done, UNCHANGED profileVars PROVE CopyInv'
  BY <1>d DEF CopyInv, Done, profileVars
<1>w. ASSUME cacheFresh' = FALSE, snapFresh' = FALSE PROVE CopyInv'
  BY <1>w DEF CopyInv
\* A step of Reconcile before its last leaves the copies alone.
<1>g. ASSUME pc \notin {"idle", "status"}, pc' \notin {"idle", "status"},
             UNCHANGED <<profileVars, snap, snapFresh>>
      PROVE  CopyInv'
  BY <1>g DEF CopyInv, profileVars
<1>u. ASSUME NEW p, UpdateProfile(p) PROVE CopyInv'
  <2>1. CASE UpToDate(snapFresh)
    BY <1>u, <1>w, <2>1 DEF UpdateProfile, Done
  <2>2. CASE ~UpToDate(snapFresh)
    BY <1>u, <1>d, <2>2 DEF UpdateProfile, Fail
  <2> QED BY <2>1, <2>2
<1>1. CASE UNCHANGED <<profileVars, reconcileVars, ownedVars>>
  BY <1>1 DEF CopyInv, profileVars, reconcileVars
<1>2. CASE UserNext
  BY <1>2, <1>w, UserFrame
<1>3. CASE SyncProfile
  BY <1>3 DEF SyncProfile, CopyInv, reconcileVars
<1>4. CASE RestartManager
  BY <1>4 DEF RestartManager, CopyInv
<1>5. CASE ReconcileError
  BY <1>5, <1>d DEF ReconcileError, Fail
<1>6. ASSUME NEW r \in reports, RecordReport(r) PROVE CopyInv'
  BY <1>6, <1>w DEF RecordReport, RecordStatus, WriteProfile
<1>7. CASE ReconcileStep
  <2>1. CASE ReconcileStart
    <3>1. CASE UNCHANGED reconcileVars
      BY <2>1, <3>1 DEF ReconcileStart, CopyInv, profileVars, reconcileVars
    <3>2. CASE pc' = entryPoint(cache) /\ snap' = cache /\ snapFresh' = cacheFresh
      <4>1. entryPoint(cache) \notin {"idle", "status"}
        BY DEF entryPoint, afterCleanup
      <4> QED BY <2>1, <3>2, <4>1 DEF ReconcileStart, CopyInv, profileVars
    <3> QED BY <2>1, <3>1, <3>2 DEF ReconcileStart
  <2>2. CASE AddFinalizer \/ RemoveFinalizer \/ UpdateStatus
    BY <2>2, <1>u DEF AddFinalizer, RemoveFinalizer, UpdateStatus
  <2>3. CASE CleanupDaemonSet \/ CleanupCronJob \/ CleanupConfigMap
    BY <2>3, <1>g
       DEF CleanupDaemonSet, CleanupCronJob, CleanupConfigMap, Goto, afterCleanup
  <2>4. CASE EnsureConfigMap \/ ReconcileCronJob \/ SelectNodes
    BY <2>4, <1>g DEF EnsureConfigMap, ReconcileCronJob, SelectNodes, Goto
  <2>5. CASE ReconcileDaemonSet
    <3> DEFINE hash     == hashContent(renderSysctlConf(snap))
               complete == allNodesApplied(snap.status, selected, hash)
               status   == newStatus(snap.status, snap.generation, hash, complete)
    <3>1. CASE ~statusChanged(snap.status, status)
      BY <2>5, <3>1, <1>d DEF ReconcileDaemonSet
    <3>2. CASE statusChanged(snap.status, status)
      <4>1. pc = "daemonSet" /\ pc' = "status" /\ snap' = [snap EXCEPT !.status = status]
            /\ UNCHANGED <<profileVars, snapFresh>>
        BY <2>5, <3>2 DEF ReconcileDaemonSet
      <4>2. snap \in SysctlProfile
        BY <4>1 DEF TypeOK, ReconcileTypeOK, MaybeProfile
      <4>3. snap'.status = status
        BY <4>1, <4>2 DEF SysctlProfile
      <4>4. status.nodeStatuses = snap.status.nodeStatuses
        BY <4>2, NewStatusType, HashType
           DEF TypeOK, ReconcileTypeOK, SysctlProfile, hashContent, renderSysctlConf,
               allNodesApplied
      <4> HIDE DEF status
      <4>5. snapFresh => snap = profile /\ cacheFresh /\ profile # None
        BY <4>1, <4>2, NoProfileAssumption DEF CopyInv
      <4> QED BY <4>1, <4>3, <4>4, <4>5 DEF CopyInv, profileVars
    <3> QED BY <3>1, <3>2
  <2> QED BY <1>7, <2>1, <2>2, <2>3, <2>4, <2>5 DEF ReconcileStep
<1> QED BY <1>1, <1>2, <1>3, <1>4, <1>5, <1>6, <1>7, ManagerFrame

\* Users and reports neither add nor remove the finalizer.
LEMMA UserKeepsFinalizer ==
    ASSUME TypeOK, UserNext
    PROVE  Protected' <=> Protected
<1>0. profile # None => profile \in SysctlProfile
  BY DEF TypeOK, ProfileTypeOK, MaybeProfile
<1>1. ASSUME NEW c \in Configs, NEW drift \in DriftChecks, CreateProfile(c, drift)
      PROVE  ~Protected /\ ~Protected'
  BY <1>1 DEF CreateProfile, WriteProfile, Protected
<1>2. ASSUME NEW c \in Configs, EditSpec(c) PROVE Protected' <=> Protected
  <2>1. profile' \in SysctlProfile /\ profile'.finalizer = profile.finalizer /\ profile # None
    BY <1>0, <1>2, UserWrites DEF EditSpec, WriteProfile
  <2> QED BY <2>1, NoProfileAssumption DEF Protected
<1>3. CASE EditSchedule
  <2>1. profile' \in SysctlProfile /\ profile'.finalizer = profile.finalizer /\ profile # None
    BY <1>0, <1>3, UserWrites DEF EditSchedule, WriteProfile, SysctlProfile
  <2> QED BY <2>1, NoProfileAssumption DEF Protected
<1>4. CASE DeleteProfile
  <2>1. CASE profile.finalizer
    <3>1. profile' \in SysctlProfile /\ profile'.finalizer = profile.finalizer /\ profile # None
      BY <1>0, <1>4, <2>1, UserWrites DEF DeleteProfile, WriteProfile, SysctlProfile
    <3> QED BY <3>1, NoProfileAssumption DEF Protected
  <2>2. CASE ~profile.finalizer
    BY <1>4, <2>2 DEF DeleteProfile, WriteProfile, Protected
  <2> QED BY <2>1, <2>2
<1> QED BY <1>1, <1>2, <1>3, <1>4 DEF UserNext

LEMMA ReportKeepsFinalizer ==
    ASSUME TypeOK, NEW r \in reports, RecordReport(r)
    PROVE  /\ Protected' <=> Protected
           /\ UNCHANGED <<cache, pc, snap, ownedVars>>
<1>1. profile \in SysctlProfile
  BY DEF TypeOK, ProfileTypeOK, MaybeProfile, RecordReport, RecordStatus, UpToDate
<1>2. cache \in SysctlProfile /\ r \in InFlight
  BY DEF TypeOK, ProfileTypeOK, EnvTypeOK, MaybeProfile, RecordReport, RecordStatus
<1>3. Recorded(cache.status, r) \in Status
  BY <1>2, RecordedType DEF SysctlProfile
<1>4. profile' \in SysctlProfile /\ profile'.finalizer = profile.finalizer
  BY <1>1, <1>3 DEF RecordReport, RecordStatus, WriteProfile, SysctlProfile
<1> QED BY <1>1, <1>4, NoProfileAssumption DEF Protected, RecordReport, RecordStatus, WriteProfile

\* How far cleanup and creation are.
LEMMA ProgressStep == TypeOK /\ ProgressInv /\ [Next]_vars => ProgressInv'
<1> SUFFICES ASSUME TypeOK, ProgressInv, [Next]_vars PROVE ProgressInv'
  OBVIOUS
<1> USE DEF Creating
<1>0. configMap \in [ConfigMapNames -> Configs \cup {None}]
      /\ resourceName \in ConfigMapNames /\ cronJobName \in ConfigMapNames
      /\ resourceName # cronJobName
  BY DEF TypeOK, OwnedTypeOK, ConfigMapNames, resourceName, cronJobName
<1>d. ASSUME pc' = "idle", UNCHANGED ownedVars PROVE ProgressInv'
  BY <1>d DEF ProgressInv, ownedVars
<1>1. CASE UNCHANGED <<pc, ownedVars>>
  BY <1>1 DEF ProgressInv, ownedVars
<1>2. CASE ReconcileError \/ RestartManager
  BY <1>2, <1>d DEF ReconcileError, RestartManager, Fail, Done
<1>3. CASE ReconcileStep
  <2>1. CASE ReconcileStart
    <3>1. pc = "idle" /\ UNCHANGED ownedVars
          /\ (pc' = "idle" \/ pc' = entryPoint(cache))
      BY <2>1 DEF ReconcileStart, reconcileVars
    <3>2. entryPoint(cache) \in {"cleanupDaemonSet", "addFinalizer", "configMap"}
      BY DEF entryPoint, afterCleanup
    <3> QED BY <3>1, <3>2 DEF ProgressInv, ownedVars
  <2>2. CASE AddFinalizer \/ RemoveFinalizer \/ UpdateStatus
    BY <2>2, <1>d DEF AddFinalizer, RemoveFinalizer, UpdateStatus, UpdateProfile, Fail, Done
  <2>3. CASE CleanupDaemonSet
    BY <2>3 DEF CleanupDaemonSet, deleteDaemonSet, Goto, afterCleanup, ProgressInv
  <2>4. CASE CleanupCronJob
    BY <2>4 DEF CleanupCronJob, ensureNoCronJob, Goto, afterCleanup, ProgressInv
  <2>5. CASE CleanupConfigMap
    BY <2>5, <1>0 DEF CleanupConfigMap, Goto, afterCleanup, ProgressInv
  <2>6. CASE EnsureConfigMap
    <3>1. renderSysctlConf(snap) # None
      BY <2>6, NoneAssumption
         DEF EnsureConfigMap, renderSysctlConf, TypeOK, ReconcileTypeOK, MaybeProfile,
             SysctlProfile
    <3> QED BY <1>0, <2>6, <3>1 DEF EnsureConfigMap, Goto, ProgressInv
  <2>7. CASE ReconcileCronJob
    BY <2>7 DEF ReconcileCronJob, Goto, ProgressInv
  <2>8. CASE SelectNodes
    BY <2>8 DEF SelectNodes, ProgressInv, ownedVars
  <2>9. CASE ReconcileDaemonSet
    <3>1. pc = "daemonSet" /\ pc' \in {"status", "idle"} /\ configMap' = configMap
      BY <2>9 DEF ReconcileDaemonSet, Done
    <3> QED BY <3>1 DEF ProgressInv
  <2> QED BY <1>3, <2>1, <2>2, <2>3, <2>4, <2>5, <2>6, <2>7, <2>8, <2>9 DEF ReconcileStep
<1>4. CASE UserNext
  BY <1>1, <1>4, UserFrame
<1>5. CASE SyncProfile
  BY <1>1, <1>5 DEF SyncProfile, reconcileVars
<1>6. ASSUME NEW r \in reports, RecordReport(r) PROVE ProgressInv'
  BY <1>1, <1>6 DEF RecordReport, RecordStatus
<1> QED BY <1>1, <1>2, <1>3, <1>4, <1>5, <1>6, ManagerFrame DEF reconcileVars

\* The finalizer: added before anything is created, removed when nothing is
\* left, and no copy that says otherwise survives its removal.
LEMMA FinalizerStep ==
    TypeOK /\ CopyInv /\ ProgressInv /\ FinalizerInv /\ [Next]_vars => FinalizerInv'
<1> SUFFICES ASSUME TypeOK, CopyInv, ProgressInv, FinalizerInv, [Next]_vars
             PROVE  FinalizerInv'
  OBVIOUS
<1> USE DEF Creating, Cleaning
<1>0. /\ configMap \in [ConfigMapNames -> Configs \cup {None}]
      /\ resourceName \in ConfigMapNames /\ cronJobName \in ConfigMapNames
      /\ resourceName # cronJobName
      /\ profile # None => profile \in SysctlProfile
      /\ pc # "idle" => snap \in SysctlProfile
  BY DEF TypeOK, OwnedTypeOK, ProfileTypeOK, ReconcileTypeOK, MaybeProfile,
         ConfigMapNames, resourceName, cronJobName
\* Reconcile returns without a write.
<1>d. ASSUME pc' = "idle", UNCHANGED <<profileVars, ownedVars>> PROVE FinalizerInv'
  BY <1>d DEF FinalizerInv, Protected, NothingOwned, profileVars, ownedVars
\* Someone else writes the profile and keeps its finalizer.
<1>k. ASSUME Protected' <=> Protected, UNCHANGED <<cache, pc, snap, ownedVars>>
      PROVE  FinalizerInv'
  BY <1>k DEF FinalizerInv, NothingOwned, ownedVars
<1>1. CASE UNCHANGED <<profileVars, reconcileVars, ownedVars>>
  BY <1>1 DEF FinalizerInv, Protected, NothingOwned, profileVars, reconcileVars, ownedVars
<1>2. CASE UserNext
  BY <1>2, <1>k, UserFrame, UserKeepsFinalizer
<1>3. CASE SyncProfile
  BY <1>3 DEF SyncProfile, FinalizerInv, Protected, NothingOwned, reconcileVars, ownedVars
<1>4. CASE RestartManager
  BY <1>4 DEF RestartManager, FinalizerInv, Protected, NothingOwned, ownedVars
<1>5. CASE ReconcileError
  BY <1>5, <1>d DEF ReconcileError, Fail, Done
<1>6. ASSUME NEW r \in reports, RecordReport(r) PROVE FinalizerInv'
  BY <1>6, <1>k, ReportKeepsFinalizer
<1>7. CASE ReconcileStep
  \* A step on behalf of a profile that has its finalizer, or is being cleaned up.
  <2>c. ASSUME Protected, UNCHANGED profileVars, pc' \in Creating \cup {"idle"},
               configMap'[cronJobName] = None
        PROVE  FinalizerInv'
    BY <2>c DEF FinalizerInv, Protected, profileVars
  <2>g. ASSUME pc \in Cleaning, pc' \in Cleaning, UNCHANGED <<profileVars, snap>>,
               NothingOwned => NothingOwned', configMap'[cronJobName] = None
        PROVE  FinalizerInv'
    BY <2>g DEF FinalizerInv, Protected, profileVars
  <2>1. CASE ReconcileStart
    <3>1. CASE UNCHANGED reconcileVars
      BY <1>1, <2>1, <3>1 DEF ReconcileStart
    <3>2. CASE cache # None /\ pc' = entryPoint(cache) /\ snap' = cache
      <4>1. CASE cache.deleting
        <5>1. pc' = "cleanupDaemonSet"
          BY <3>2, <4>1 DEF entryPoint, afterCleanup
        <5> QED BY <2>1, <3>2, <4>1, <5>1
                DEF ReconcileStart, FinalizerInv, Protected, NothingOwned, profileVars, ownedVars
      <4>2. CASE ~cache.deleting /\ cache.finalizer
        <5>1. pc' = "configMap"
          BY <3>2, <4>2 DEF entryPoint
        <5>2. Protected
          BY <3>2, <4>2 DEF FinalizerInv
        <5> QED BY <2>1, <2>c, <5>1, <5>2 DEF ReconcileStart, FinalizerInv, ownedVars
      <4>3. CASE ~cache.deleting /\ ~cache.finalizer
        <5>1. pc' = "addFinalizer"
          BY <3>2, <4>3 DEF entryPoint
        <5> QED BY <2>1, <5>1
                DEF ReconcileStart, FinalizerInv, Protected, NothingOwned, profileVars, ownedVars
      <4> QED BY <4>1, <4>2, <4>3
    <3> QED BY <2>1, <3>1, <3>2 DEF ReconcileStart
  <2>2. CASE AddFinalizer
    <3>1. CASE UpToDate(snapFresh)
      <4>1. profile' = [snap EXCEPT !.finalizer = TRUE] /\ cache' = cache /\ pc' = "idle"
            /\ UNCHANGED ownedVars
        BY <2>2, <3>1 DEF AddFinalizer, UpdateProfile, Done
      <4>2. snap \in SysctlProfile
        BY <1>0, <2>2 DEF AddFinalizer
      <4>3. Protected'
        BY <4>1, <4>2, NoProfileAssumption DEF Protected, SysctlProfile
      <4> QED BY <4>1, <4>3 DEF FinalizerInv, ownedVars
    <3>2. CASE ~UpToDate(snapFresh)
      BY <1>d, <2>2, <3>2 DEF AddFinalizer, UpdateProfile, Fail, Done
    <3> QED BY <3>1, <3>2
  <2>3. CASE RemoveFinalizer
    <3>1. CASE UpToDate(snapFresh)
      <4>1. profile' = None /\ cache' = cache /\ pc' = "idle" /\ UNCHANGED ownedVars
        BY <2>3, <3>1 DEF RemoveFinalizer, UpdateProfile, Done
      <4>2. NothingOwned
        BY <2>3 DEF RemoveFinalizer, ProgressInv, NothingOwned
      <4>3. cache.deleting
        BY <2>3, <3>1 DEF RemoveFinalizer, UpToDate, CopyInv, FinalizerInv
      <4> QED BY <4>1, <4>2, <4>3 DEF FinalizerInv, Protected, NothingOwned, ownedVars
    <3>2. CASE ~UpToDate(snapFresh)
      BY <1>d, <2>3, <3>2 DEF RemoveFinalizer, UpdateProfile, Fail, Done
    <3> QED BY <3>1, <3>2
  <2>4. CASE UpdateStatus
    <3>1. CASE UpToDate(snapFresh)
      <4>1. profile' = [profile EXCEPT !.status = snap.status] /\ cache' = cache
            /\ pc' = "idle" /\ UNCHANGED ownedVars /\ profile \in SysctlProfile
        BY <1>0, <2>4, <3>1 DEF UpdateStatus, UpdateProfile, Done, UpToDate
      <4>2. snap.status \in Status
        BY <1>0, <2>4 DEF UpdateStatus, SysctlProfile
      <4>3. profile' \in SysctlProfile /\ profile'.finalizer = profile.finalizer
        BY <4>1, <4>2 DEF SysctlProfile
      <4>4. Protected'
        BY <2>4, <4>3, NoProfileAssumption DEF UpdateStatus, Protected, FinalizerInv
      <4> QED BY <4>1, <4>4 DEF FinalizerInv, ownedVars
    <3>2. CASE ~UpToDate(snapFresh)
      BY <1>d, <2>4, <3>2 DEF UpdateStatus, UpdateProfile, Fail, Done
    <3> QED BY <3>1, <3>2
  <2>5. CASE CleanupDaemonSet
    BY <2>5, <2>g
       DEF CleanupDaemonSet, deleteDaemonSet, Goto, afterCleanup, NothingOwned, FinalizerInv
  <2>6. CASE CleanupCronJob
    BY <2>6, <2>g
       DEF CleanupCronJob, ensureNoCronJob, Goto, afterCleanup, NothingOwned, FinalizerInv
  <2>7. CASE CleanupConfigMap
    BY <1>0, <2>7, <2>g
       DEF CleanupConfigMap, Goto, afterCleanup, NothingOwned, FinalizerInv
  <2>8. CASE EnsureConfigMap
    BY <1>0, <2>8, <2>c DEF EnsureConfigMap, Goto, FinalizerInv
  <2>9. CASE ReconcileCronJob
    BY <2>9, <2>c DEF ReconcileCronJob, Goto, FinalizerInv
  <2>10. CASE SelectNodes
    BY <2>10, <2>c DEF SelectNodes, FinalizerInv, ownedVars
  <2>11. CASE ReconcileDaemonSet
    <3>1. pc' \in {"status", "idle"}
      BY <2>11 DEF ReconcileDaemonSet, Done
    <3> QED BY <2>11, <2>c, <3>1 DEF ReconcileDaemonSet, FinalizerInv
  <2> QED BY <1>7, <2>1, <2>2, <2>3, <2>4, <2>5, <2>6, <2>7, <2>8, <2>9, <2>10, <2>11
          DEF ReconcileStep
<1> QED BY <1>1, <1>2, <1>3, <1>4, <1>5, <1>6, <1>7, ManagerFrame

\* The inductive invariant of the controller.
ControllerInv == TypeOK /\ CopyInv /\ ProgressInv /\ FinalizerInv

LEMMA ControllerInit == Init => ControllerInv
<1> SUFFICES ASSUME Init PROVE ControllerInv
  OBVIOUS
<1>1. resourceName \in ConfigMapNames /\ cronJobName \in ConfigMapNames
  BY DEF ConfigMapNames
<1>2. CopyInv
  BY DEF Init, CopyInv
<1>3. ProgressInv
  BY <1>1 DEF Init, ProgressInv, Creating
<1>4. FinalizerInv
  BY <1>1 DEF Init, FinalizerInv, Creating, Cleaning, Protected, NothingOwned
<1> QED BY <1>2, <1>3, <1>4, TypeInit DEF ControllerInv

LEMMA ControllerCorrect == Spec => []ControllerInv
<1>1. ControllerInv /\ [Next]_vars => ControllerInv'
  BY TypeStep, CopyStep, ProgressStep, FinalizerStep DEF ControllerInv
<1> QED BY <1>1, ControllerInit, PTL DEF Spec

\* A profile that is gone leaves nothing behind: Reconcile's finalizer
\* protocol, for every cluster and every interleaving.
THEOREM NothingOrphanedCorrect == Spec => []NothingOrphaned
<1>1. ControllerInv => NothingOrphaned
  BY DEF ControllerInv, FinalizerInv, Protected, NothingOwned, NothingOrphaned, ConfigMapNames
<1> QED BY <1>1, ControllerCorrect, PTL

\* No DaemonSet is without the ConfigMap it mounts: the order of creation and
\* of cleanup.
THEOREM DaemonSetHasConfigMapCorrect == Spec => []DaemonSetHasConfigMap
<1>1. ControllerInv => DaemonSetHasConfigMap
  BY DEF ControllerInv, ProgressInv, DaemonSetHasConfigMap
<1> QED BY <1>1, ControllerCorrect, PTL

----------------------------------------------------------------------------
\* Reports.

\* A copy's node entries in the next state are those of some copy now, but for
\* the entry a report has just set.
LEMMA ReportsKept ==
    ASSUME ControllerInv, [Next]_vars, profile # None, profile' # None, NEW n \in Nodes,
           profile'.status.nodeStatuses[n] # profile.status.nodeStatuses[n]
    PROVE  \E r \in reports \ reports' : r.node = n
<1>0. profile \in SysctlProfile /\ TypeOK /\ CopyInv
  BY DEF ControllerInv, TypeOK, ProfileTypeOK, MaybeProfile
<1> DEFINE Same == profile'.status.nodeStatuses = profile.status.nodeStatuses
<1>1. CASE UNCHANGED <<profileVars, reconcileVars, ownedVars>> \/ SyncProfile
           \/ RestartManager \/ ReconcileError
  BY <1>1 DEF profileVars, SyncProfile, RestartManager, ReconcileError
<1>2. CASE UserNext
  <2>1. ASSUME NEW c \in Configs, EditSpec(c) PROVE Same
    BY <1>0, <2>1, UserWrites DEF EditSpec, WriteProfile
  <2>2. CASE EditSchedule
    BY <1>0, <2>2, UserWrites DEF EditSchedule, WriteProfile, SysctlProfile
  <2>3. CASE DeleteProfile
    BY <1>0, <2>3, UserWrites DEF DeleteProfile, WriteProfile, SysctlProfile
  <2>4. ASSUME NEW c \in Configs, NEW drift \in DriftChecks, CreateProfile(c, drift)
        PROVE  FALSE
    BY <2>4 DEF CreateProfile
  <2> QED BY <1>2, <2>1, <2>2, <2>3, <2>4 DEF UserNext
<1>3. CASE ReconcileStep
  <2>1. CASE AddFinalizer
    BY <1>0, <2>1
       DEF AddFinalizer, UpdateProfile, UpToDate, CopyInv, SysctlProfile, profileVars
  <2>2. CASE RemoveFinalizer
    BY <2>2 DEF RemoveFinalizer, UpdateProfile, profileVars
  <2>3. CASE UpdateStatus
    <3>1. CASE ~UpToDate(snapFresh)
      BY <2>3, <3>1 DEF UpdateStatus, UpdateProfile, profileVars
    <3>2. CASE UpToDate(snapFresh)
      <4>1. profile' = [profile EXCEPT !.status = snap.status]
        BY <2>3, <3>2 DEF UpdateStatus, UpdateProfile
      <4>2. profile'.status = snap.status
        BY <1>0, <4>1 DEF SysctlProfile
      <4>3. snap.status.nodeStatuses = profile.status.nodeStatuses
        BY <1>0, <2>3, <3>2 DEF CopyInv, UpdateStatus, UpToDate
      <4> QED BY <4>2, <4>3
    <3> QED BY <3>1, <3>2
  <2>4. CASE ReconcileStart \/ CleanupDaemonSet \/ CleanupCronJob \/ CleanupConfigMap
             \/ EnsureConfigMap \/ ReconcileCronJob \/ SelectNodes \/ ReconcileDaemonSet
    BY <2>4
       DEF ReconcileStart, CleanupDaemonSet, CleanupCronJob, CleanupConfigMap,
           EnsureConfigMap, ReconcileCronJob, SelectNodes, ReconcileDaemonSet, profileVars
  <2> QED BY <1>3, <2>1, <2>2, <2>3, <2>4 DEF ReconcileStep
<1>4. ASSUME NEW r \in reports, RecordReport(r)
      PROVE  \E q \in reports \ reports' : q.node = n
  <2>1. cache = profile /\ r \in InFlight /\ reports' = reports \ {r}
    BY <1>0, <1>4 DEF RecordReport, RecordStatus, UpToDate, CopyInv, TypeOK, EnvTypeOK
  <2>2. profile'.status = Recorded(profile.status, r)
    BY <1>0, <1>4, <2>1 DEF RecordReport, RecordStatus, WriteProfile, SysctlProfile
  <2>3. n = r.node
    BY <1>0, <2>1, <2>2, RecordedType DEF SysctlProfile
  <2> QED BY <2>1, <2>3
<1> QED BY <1>1, <1>2, <1>3, <1>4, ManagerFrame

\* Neither the controller's status write nor any other step undoes or invents
\* what a report said of a node.
THEOREM ReportsAreNotOverwrittenCorrect == Spec => ReportsAreNotOverwritten
<1> DEFINE A == \A n \in Nodes :
                  (profile # None /\ profile' # None /\
                   profile'.status.nodeStatuses[n] # profile.status.nodeStatuses[n])
                  => \E r \in reports \ reports' : r.node = n
<1>1. ControllerInv /\ [Next]_vars => [A]_vars
  BY ReportsKept
<1> HIDE DEF A
<1>2. Spec => [][A]_vars
  BY <1>1, ControllerCorrect, PTL DEF Spec
<1> QED BY <1>2 DEF A, ReportsAreNotOverwritten

----------------------------------------------------------------------------
\* Claims.

\* What has been written stays written.
LEMMA WrittenGrows ==
    ASSUME TypeOK, [Next]_vars
    PROVE  \A n \in Nodes : written[n] \subseteq written'[n]
<1>0. written \in [Nodes -> SUBSET Hashes]
  BY DEF TypeOK, HostsTypeOK
<1>1. CASE UNCHANGED written
  BY <1>1
<1>2. ASSUME NEW p \in pods, Apply(p)
      PROVE  \A n \in Nodes : written[n] \subseteq written'[n]
  BY <1>0, <1>2 DEF Apply
<1>3. UNCHANGED written \/ \E p \in pods : Apply(p)
  <2>1. CASE UNCHANGED vars
    BY <2>1 DEF vars, hostVars
  <2>2. CASE UserNext
    BY <2>2 DEF UserNext, CreateProfile, EditSpec, EditSchedule, DeleteProfile, hostVars
  <2>3. CASE FailureNext
    BY <2>3 DEF FailureNext, ChangeNode, LoseLiveValues, CrashContainer, LoseReport,
                RestartManager, ReconcileError, Resync, hostVars
  <2>4. CASE ClusterNext
    BY <2>4 DEF ClusterNext, SchedulePod, RunCronJob, KillPod, StartContainer, hostVars
  <2>5. CASE \E p \in pods : WorkerNext(p)
    BY <2>5 DEF WorkerNext, Load, LoadRefused, ApplyFails, sendReport, hostVars
  <2>6. CASE ReconcileStep
    BY <2>6 DEF ReconcileStep, ReconcileStart, AddFinalizer, CleanupDaemonSet,
                CleanupCronJob, CleanupConfigMap, RemoveFinalizer, EnsureConfigMap,
                ReconcileCronJob, SelectNodes, ReconcileDaemonSet, UpdateStatus,
                UpdateProfile, hostVars
  <2>7. CASE ManagerNext
    BY <2>6, <2>7 DEF ManagerNext, SyncProfile, NodeCacheSync, applyReport, IgnoreReport,
                      RecordReport, RecordStatus, ConflictOnReport, hostVars
  <2> QED BY <2>1, <2>2, <2>3, <2>4, <2>5, <2>7 DEF Next
<1> QED BY <1>1, <1>2, <1>3

\* A worker that is about to report a success was there before, or has just
\* written its config.
LEMMA SendersFrame ==
    ASSUME TypeOK, [Next]_vars, NEW p \in pods', p.pc = "sendOk"
    PROVE  \/ \E q \in pods : q.pc = "sendOk" /\ q.node = p.node /\ q.content = p.content
           \/ \E q \in pods : Apply(q) /\ q.node = p.node /\ q.content = p.content
<1>0. pods \subseteq Pod
  BY DEF TypeOK, HostsTypeOK
<1>1. CASE pods' \subseteq pods
  BY <1>1
\* A pod is replaced by one that is not about to report a success.
<1>2. ASSUME NEW q \in Pod, NEW l, NEW c, l # "sendOk",
             \/ pods' = (pods \ {q}) \cup {[q EXCEPT !.pc = l]}
             \/ pods' = (pods \ {q}) \cup {[q EXCEPT !.pc = l, !.content = c]}
      PROVE  p \in pods
  <2>1. [q EXCEPT !.pc = l].pc = l /\ [q EXCEPT !.pc = l, !.content = c].pc = l
    BY DEF Pod
  <2> QED BY <1>2, <2>1
<1>3. ASSUME NEW kind, pods' = Orphaned(kind)
      PROVE  \E q \in pods : q.pc = "sendOk" /\ q.node = p.node /\ q.content = p.content
  <2>1. PICK q \in pods : p = IF q.kind = kind THEN [q EXCEPT !.orphan = TRUE] ELSE q
    BY <1>3 DEF Orphaned
  <2>2. p.pc = q.pc /\ p.node = q.node /\ p.content = q.content
    BY <1>0, <2>1 DEF Pod
  <2> QED BY <2>2
<1>4. CASE UNCHANGED vars
  BY <1>1, <1>4 DEF vars
<1>5. CASE UserNext
  BY <1>1, <1>5 DEF UserNext, CreateProfile, EditSpec, EditSchedule, DeleteProfile
<1>6. CASE FailureNext
  <2>1. ASSUME NEW n \in Nodes, LoseLiveValues(n) PROVE p \in pods
    BY <1>0, <2>1 DEF LoseLiveValues, Pod
  <2>2. ASSUME NEW q \in pods, CrashContainer(q) PROVE p \in pods
    BY <1>0, <1>2, <2>2 DEF CrashContainer
  <2> QED BY <1>1, <1>6, <2>1, <2>2
          DEF FailureNext, ChangeNode, LoseReport, RestartManager, ReconcileError, Resync
<1>7. CASE ClusterNext
  <2>1. ASSUME NEW n \in Nodes, SchedulePod(n) \/ RunCronJob(n) PROVE p \in pods
    BY <2>1 DEF SchedulePod, RunCronJob, NewPod
  <2>2. ASSUME NEW q \in pods, KillPod(q) PROVE p \in pods
    BY <2>2 DEF KillPod
  <2>3. ASSUME NEW q \in pods, StartContainer(q) PROVE p \in pods
    BY <1>0, <1>2, <2>3 DEF StartContainer
  <2> QED BY <1>7, <2>1, <2>2, <2>3 DEF ClusterNext
<1>8. ASSUME NEW q \in pods, WorkerNext(q)
      PROVE  \/ p \in pods
             \/ Apply(q) /\ q.node = p.node /\ q.content = p.content
  <2>0. q \in Pod
    BY <1>0
  <2>1. ASSUME NEW c \in rendered, Load(q, c) PROVE p \in pods
    BY <1>2, <2>0, <2>1 DEF Load, Replace
  <2>2. ASSUME NEW c \in rendered, LoadRefused(q, c) PROVE p \in pods
    BY <1>2, <2>0, <2>2 DEF LoadRefused, Replace
  <2>3. CASE Apply(q)
    <3>1. p \in pods \/ p = [q EXCEPT !.pc = IF resultOK(FALSE) THEN "sendOk" ELSE "sendFailed"]
      BY <2>3 DEF Apply, Replace
    <3> QED BY <2>0, <2>3, <3>1 DEF Pod
  <2>4. CASE ApplyFails(q)
    BY <1>2, <2>0, <2>4 DEF ApplyFails, Replace, resultOK
  <2>5. CASE sendReport(q)
    BY <1>2, <2>0, <2>5 DEF sendReport, Replace
  <2> QED BY <1>8, <2>1, <2>2, <2>3, <2>4, <2>5 DEF WorkerNext
<1>9. CASE ReconcileStep
  <2>1. CASE CleanupDaemonSet \/ ReconcileDaemonSet
    BY <1>1, <1>3, <2>1 DEF CleanupDaemonSet, ReconcileDaemonSet, deleteDaemonSet, ensureDaemonSet
  <2>2. CASE CleanupCronJob \/ ReconcileCronJob
    BY <1>1, <1>3, <2>2 DEF CleanupCronJob, ReconcileCronJob, ensureNoCronJob, ensureCronJob
  <2> QED BY <1>1, <1>9, <2>1, <2>2
          DEF ReconcileStep, ReconcileStart, AddFinalizer, CleanupConfigMap, RemoveFinalizer,
              EnsureConfigMap, SelectNodes, UpdateStatus, UpdateProfile
<1>10. CASE ManagerNext
  BY <1>1, <1>9, <1>10
     DEF ManagerNext, SyncProfile, NodeCacheSync, applyReport, IgnoreReport, RecordReport, RecordStatus,
         ConflictOnReport
<1> QED BY <1>4, <1>5, <1>6, <1>7, <1>8, <1>10 DEF Next

\* A report on its way was on its way before, or a worker has just sent it.
LEMMA ReportsFrame ==
    ASSUME TypeOK, [Next]_vars, NEW r \in reports'
    PROVE  \/ \E q \in reports : q.node = r.node /\ q.hash = r.hash /\ q.success = r.success
           \/ \E p \in pods : /\ r.success => p.pc = "sendOk"
                               /\ r.node = p.node
                               /\ r.hash = HashBytes(p.content)
<1>0. reports \subseteq InFlight
  BY DEF TypeOK, EnvTypeOK
<1>1. CASE reports' \subseteq reports
  BY <1>1
<1>2. ASSUME NEW q \in reports, ConflictOnReport(q)
      PROVE  \E s \in reports : s.node = r.node /\ s.hash = r.hash /\ s.success = r.success
  BY <1>0, <1>2 DEF ConflictOnReport, InFlight
<1>3. ASSUME NEW p \in pods, sendReport(p)
      PROVE  r \in reports \/ /\ r.success => p.pc = "sendOk"
                              /\ r.node = p.node
                              /\ r.hash = HashBytes(p.content)
  <2> DEFINE q == [node |-> p.node, hash |-> HashBytes(p.content),
                   success |-> p.pc = "sendOk", tries |-> 0]
  <2>1. r \in reports \/ r = q
    BY <1>3 DEF sendReport
  <2>2. q.success = (p.pc = "sendOk") /\ q.node = p.node /\ q.hash = HashBytes(p.content)
    OBVIOUS
  <2> QED BY <2>1, <2>2
<1>4. CASE UNCHANGED vars
  BY <1>1, <1>4 DEF vars
<1>5. CASE UserNext
  BY <1>1, <1>5 DEF UserNext, CreateProfile, EditSpec, EditSchedule, DeleteProfile
<1>6. CASE FailureNext
  BY <1>1, <1>6
     DEF FailureNext, ChangeNode, LoseLiveValues, CrashContainer, LoseReport,
         RestartManager, ReconcileError, Resync
<1>7. CASE ClusterNext
  BY <1>1, <1>7 DEF ClusterNext, SchedulePod, RunCronJob, KillPod, StartContainer
<1>8. CASE \E p \in pods : WorkerNext(p)
  BY <1>1, <1>3, <1>8 DEF WorkerNext, Load, LoadRefused, Apply, ApplyFails
<1>9. CASE ReconcileStep
  BY <1>1, <1>9 DEF ReconcileStep, ReconcileStart, AddFinalizer, CleanupDaemonSet,
              CleanupCronJob, CleanupConfigMap, RemoveFinalizer, EnsureConfigMap,
              ReconcileCronJob, SelectNodes, ReconcileDaemonSet, UpdateStatus, UpdateProfile
<1>10. CASE ManagerNext
  BY <1>1, <1>2, <1>9, <1>10
     DEF ManagerNext, SyncProfile, NodeCacheSync, applyReport, IgnoreReport, RecordReport, RecordStatus
<1> QED BY <1>4, <1>5, <1>6, <1>7, <1>8, <1>10 DEF Next

\* A copy that says of every node what some truthful copy said is truthful.
LEMMA TruthfulCopy ==
    ASSUME TypeOK, [Next]_vars, NEW old, NEW new, Truthful(old), old # None,
           new.status.nodeStatuses = old.status.nodeStatuses
    PROVE  \A n \in Nodes : new.status.nodeStatuses[n].phase = "Applied" =>
               new.status.nodeStatuses[n].appliedHash \in written'[n]
BY WrittenGrows DEF Truthful

\* What a recorded report adds to the status is what the report claims.
LEMMA RecordedClaims ==
    ASSUME NEW st \in Status, NEW r \in InFlight
    PROVE  LET e == Recorded(st, r).nodeStatuses[r.node]
           IN  e.phase = "Applied" => r.success /\ e.appliedHash = r.hash
<1> DEFINE u == upsertNodeStatus(st, r)
<1>1. Recorded(st, r).nodeStatuses = u.nodeStatuses
  BY DEF Recorded, recomputeCounts, upsertNodeStatus, Status
<1>2. r.node \in Nodes
  BY DEF InFlight
<1>3. CASE r.success
  <2>1. u.nodeStatuses[r.node] = Succeeded(r.hash)
    BY <1>2, <1>3 DEF upsertNodeStatus, Status
  <2> QED BY <1>1, <1>3, <2>1 DEF Succeeded
<1>4. CASE ~r.success
  <2>1. u.nodeStatuses[r.node] = Failed(st.nodeStatuses[r.node])
    BY <1>2, <1>4 DEF upsertNodeStatus, Status
  <2> QED BY <1>1, <2>1 DEF Failed
<1> QED BY <1>3, <1>4

LEMMA ClaimStep == ControllerInv /\ ClaimInv /\ [Next]_vars => ClaimInv'
<1> SUFFICES ASSUME ControllerInv, ClaimInv, [Next]_vars PROVE ClaimInv'
  OBVIOUS
<1>0. /\ TypeOK /\ CopyInv
      /\ profile # None => profile \in SysctlProfile
      /\ cache # None => cache \in SysctlProfile
      /\ pc # "idle" => snap \in SysctlProfile /\ snap # None
      /\ written \in [Nodes -> SUBSET Hashes]
      /\ Truthful(profile) /\ Truthful(cache) /\ Truthful(snap)
  BY DEF ControllerInv, TypeOK, ProfileTypeOK, ReconcileTypeOK, HostsTypeOK,
         MaybeProfile, ClaimInv, AppliedWasWritten
<1>1. \A r \in reports' : r.success => r.hash \in written'[r.node]
  <2> SUFFICES ASSUME NEW r \in reports', r.success PROVE r.hash \in written'[r.node]
    OBVIOUS
  <2>1. \A q \in reports : q.node \in Nodes
    BY <1>0 DEF TypeOK, EnvTypeOK, InFlight
  <2>2. \A p \in pods : p.node \in Nodes
    BY <1>0 DEF TypeOK, HostsTypeOK, Pod
  <2> QED BY <1>0, <2>1, <2>2, ReportsFrame, WrittenGrows DEF ClaimInv
<1>2. \A p \in pods' : p.pc = "sendOk" => HashBytes(p.content) \in written'[p.node]
  <2> SUFFICES ASSUME NEW p \in pods', p.pc = "sendOk"
               PROVE  HashBytes(p.content) \in written'[p.node]
    OBVIOUS
  <2>1. \A q \in pods : q.node \in Nodes
    BY <1>0 DEF TypeOK, HostsTypeOK, Pod
  <2>2. ASSUME NEW q \in pods, Apply(q) PROVE HashBytes(q.content) \in written'[q.node]
    BY <1>0, <2>1, <2>2 DEF Apply
  <2> QED BY <1>0, <2>1, <2>2, SendersFrame, WrittenGrows DEF ClaimInv
<1>k. ASSUME NEW old, NEW new, Truthful(old), old # None,
             new.status.nodeStatuses = old.status.nodeStatuses
      PROVE  \A n \in Nodes : new.status.nodeStatuses[n].phase = "Applied" =>
                 new.status.nodeStatuses[n].appliedHash \in written'[n]
  BY <1>0, <1>k, TruthfulCopy
\* Each copy is one of the copies of the state before, or has its entries.
<1>p. ASSUME profile' = profile \/ profile' = None PROVE Truthful(profile)'
  BY <1>0, <1>k, <1>p DEF Truthful
<1>c. ASSUME cache' = cache \/ cache' = profile PROVE Truthful(cache)'
  BY <1>0, <1>k, <1>c DEF Truthful
<1>s. ASSUME snap' = snap \/ snap' = cache \/ snap' = None PROVE Truthful(snap)'
  BY <1>0, <1>k, <1>s DEF Truthful
<1>e. ASSUME profile # None, profile'.status.nodeStatuses = profile.status.nodeStatuses
      PROVE  Truthful(profile)'
  BY <1>0, <1>k, <1>e DEF Truthful
<1>3. CASE UNCHANGED <<profileVars, reconcileVars, ownedVars>> \/ SyncProfile
           \/ RestartManager \/ ReconcileError
  BY <1>1, <1>2, <1>3, <1>p, <1>c, <1>s
     DEF profileVars, reconcileVars, SyncProfile, RestartManager, ReconcileError, Fail, Done,
         ClaimInv, AppliedWasWritten
<1>4. CASE UserNext
  <2>1. Truthful(profile)'
    <3>1. ASSUME NEW c \in Configs, NEW drift \in DriftChecks, CreateProfile(c, drift)
          PROVE  Truthful(profile)'
      <4>1. profile'.status.nodeStatuses = [n \in Nodes |-> NoEntry]
        BY <3>1 DEF CreateProfile, WriteProfile, EmptyStatus
      <4> QED BY <4>1 DEF Truthful, NoEntry
    <3>2. ASSUME NEW c \in Configs, EditSpec(c) PROVE Truthful(profile)'
      BY <1>0, <1>e, <3>2, UserWrites DEF EditSpec, WriteProfile
    <3>3. CASE EditSchedule
      BY <1>0, <1>e, <3>3, UserWrites DEF EditSchedule, WriteProfile, SysctlProfile
    <3>4. CASE DeleteProfile
      BY <1>0, <1>e, <1>p, <3>4, UserWrites DEF DeleteProfile, WriteProfile, SysctlProfile
    <3> QED BY <1>4, <3>1, <3>2, <3>3, <3>4 DEF UserNext
  <2> QED BY <1>1, <1>2, <1>4, <1>c, <1>s, <2>1, UserFrame DEF ClaimInv, AppliedWasWritten
<1>5. ASSUME NEW r \in reports, RecordReport(r) PROVE ClaimInv'
  <2>1. cache = profile /\ profile \in SysctlProfile /\ r \in InFlight
    BY <1>0, <1>5 DEF RecordReport, RecordStatus, UpToDate, CopyInv, TypeOK, EnvTypeOK
  <2>2. profile'.status = Recorded(profile.status, r)
    BY <1>5, <2>1 DEF RecordReport, RecordStatus, WriteProfile, SysctlProfile
  <2>3. written' = written
    BY <1>5 DEF RecordReport, RecordStatus, hostVars
  <2>4. Truthful(profile)'
    <3> SUFFICES ASSUME NEW n \in Nodes, profile'.status.nodeStatuses[n].phase = "Applied"
                 PROVE  profile'.status.nodeStatuses[n].appliedHash \in written[n]
      BY <2>3 DEF Truthful
    <3>1. CASE n = r.node
      BY <2>1, <2>2, <3>1, RecordedClaims DEF SysctlProfile, ClaimInv
    <3>2. CASE n # r.node
      BY <1>0, <2>1, <2>2, <3>2, RecordedType, NoProfileAssumption DEF SysctlProfile, Truthful
    <3> QED BY <3>1, <3>2
  <2> QED BY <1>1, <1>2, <1>5, <1>c, <1>s, <2>4
          DEF RecordReport, RecordStatus, WriteProfile, ClaimInv, AppliedWasWritten
<1>6. CASE ReconcileStep
  <2>1. CASE AddFinalizer
    <3>1. CASE UpToDate(snapFresh)
      <4>1. snap = profile /\ profile' = [snap EXCEPT !.finalizer = TRUE] /\ profile # None
        BY <1>0, <2>1, <3>1 DEF AddFinalizer, UpdateProfile, UpToDate, CopyInv
      <4>2. Truthful(profile)'
        BY <1>0, <1>e, <4>1 DEF SysctlProfile
      <4> QED BY <1>1, <1>2, <1>c, <1>s, <2>1, <3>1, <4>2
              DEF AddFinalizer, UpdateProfile, Done, ClaimInv, AppliedWasWritten
    <3>2. CASE ~UpToDate(snapFresh)
      BY <1>1, <1>2, <1>p, <1>c, <1>s, <2>1, <3>2
         DEF AddFinalizer, UpdateProfile, Fail, Done, profileVars, ClaimInv, AppliedWasWritten
    <3> QED BY <3>1, <3>2
  <2>2. CASE RemoveFinalizer
    BY <1>1, <1>2, <1>p, <1>c, <1>s, <2>2
       DEF RemoveFinalizer, UpdateProfile, Fail, Done, profileVars, ClaimInv, AppliedWasWritten
  <2>3. CASE UpdateStatus
    <3>1. CASE UpToDate(snapFresh)
      <4>1. profile' = [profile EXCEPT !.status = snap.status] /\ profile \in SysctlProfile
            /\ snap # None
        BY <1>0, <2>3, <3>1 DEF UpdateStatus, UpdateProfile, UpToDate
      <4>2. profile'.status.nodeStatuses = snap.status.nodeStatuses
        BY <4>1 DEF SysctlProfile
      <4>3. Truthful(profile)'
        BY <1>0, <1>k, <4>1, <4>2 DEF Truthful
      <4> QED BY <1>1, <1>2, <1>c, <1>s, <2>3, <3>1, <4>3
              DEF UpdateStatus, UpdateProfile, Done, ClaimInv, AppliedWasWritten
    <3>2. CASE ~UpToDate(snapFresh)
      BY <1>1, <1>2, <1>p, <1>c, <1>s, <2>3, <3>2
         DEF UpdateStatus, UpdateProfile, Fail, Done, profileVars, ClaimInv, AppliedWasWritten
    <3> QED BY <3>1, <3>2
  <2>4. CASE ReconcileStart \/ CleanupDaemonSet \/ CleanupCronJob \/ CleanupConfigMap
             \/ EnsureConfigMap \/ ReconcileCronJob \/ SelectNodes
    BY <1>1, <1>2, <1>p, <1>c, <1>s, <2>4
       DEF ReconcileStart, CleanupDaemonSet, CleanupCronJob, CleanupConfigMap, EnsureConfigMap,
           ReconcileCronJob, SelectNodes, Goto, profileVars, reconcileVars, ClaimInv,
           AppliedWasWritten
  <2>5. CASE ReconcileDaemonSet
    <3> DEFINE hash     == hashContent(renderSysctlConf(snap))
               complete == allNodesApplied(snap.status, selected, hash)
               status   == newStatus(snap.status, snap.generation, hash, complete)
    <3>0. UNCHANGED profileVars /\ snap \in SysctlProfile /\ snap # None
      BY <1>0, <2>5 DEF ReconcileDaemonSet
    <3>1. snap' = None \/ snap' = [snap EXCEPT !.status = status]
      BY <2>5 DEF ReconcileDaemonSet, Done
    <3>2. status.nodeStatuses = snap.status.nodeStatuses
      <4>1. /\ snap.status \in Status /\ snap.generation \in Nat /\ hash \in Hashes
            /\ complete \in BOOLEAN /\ selected \subseteq Nodes
        BY <1>0, <3>0, HashType
           DEF TypeOK, ReconcileTypeOK, SysctlProfile, hashContent, renderSysctlConf,
               allNodesApplied
      <4> QED BY <4>1, NewStatusType
    <3> HIDE DEF status
    <3>3. snap' # None => snap'.status.nodeStatuses = snap.status.nodeStatuses
      BY <3>0, <3>1, <3>2 DEF SysctlProfile
    <3>4. Truthful(snap)'
      BY <1>0, <1>k, <3>0, <3>3 DEF Truthful
    <3> QED BY <1>1, <1>2, <1>p, <1>c, <3>0, <3>4 DEF profileVars, ClaimInv, AppliedWasWritten
  <2> QED BY <1>6, <2>1, <2>2, <2>3, <2>4, <2>5 DEF ReconcileStep
<1> QED BY <1>3, <1>4, <1>5, <1>6, ManagerFrame

\* Every copy of the status is truthful: a node recorded Applied at a hash has
\* had that config written, however late, lost or retried its reports were.
THEOREM AppliedWasWrittenCorrect == Spec => []AppliedWasWritten
<1>1. Init => ClaimInv
  BY DEF Init, ClaimInv, AppliedWasWritten, Truthful
<1>2. ControllerInv /\ ClaimInv /\ [Next]_vars => ClaimInv'
  BY ClaimStep
<1>3. ClaimInv => AppliedWasWritten
  BY DEF ClaimInv
<1> QED BY <1>1, <1>2, <1>3, ControllerCorrect, PTL DEF Spec

\* Only Reconcile removes the DaemonSet, when it cleans up or when it finds
\* the rollout complete.
LEMMA TeardownStep ==
    ASSUME ControllerInv, ClaimInv, [Next]_vars, daemonSet # None, daemonSet' = None
    PROVE  \/ snap.deleting
           \/ /\ selected # {}
              /\ \A n \in selected : hashContent(renderSysctlConf(snap)) \in written[n]
<1>1. TypeOK /\ FinalizerInv /\ Truthful(snap)
  BY DEF ControllerInv, ClaimInv, AppliedWasWritten
<1>2. CleanupDaemonSet \/ ReconcileDaemonSet
  <2>1. CASE ReconcileStep
    BY <2>1 DEF ReconcileStep, ReconcileStart, AddFinalizer, RemoveFinalizer, UpdateStatus,
                UpdateProfile, CleanupCronJob, CleanupConfigMap, EnsureConfigMap,
                ReconcileCronJob, SelectNodes, ownedVars
  <2>2. CASE UserNext
    BY <2>2 DEF UserNext, CreateProfile, EditSpec, EditSchedule, DeleteProfile, ownedVars
  <2>3. CASE SyncProfile \/ RestartManager \/ ReconcileError \/ \E r \in reports : RecordReport(r)
    BY <2>3 DEF SyncProfile, RestartManager, ReconcileError, RecordReport, RecordStatus, ownedVars
  <2> QED BY <2>1, <2>2, <2>3, ManagerFrame DEF ownedVars
<1>3. CASE CleanupDaemonSet
  BY <1>1, <1>3 DEF CleanupDaemonSet, FinalizerInv, Cleaning
<1>4. CASE ReconcileDaemonSet
  <2> DEFINE hash == hashContent(renderSysctlConf(snap))
  <2>1. snap \in SysctlProfile /\ snap # None /\ selected \subseteq Nodes
    BY <1>1, <1>4 DEF ReconcileDaemonSet, TypeOK, ReconcileTypeOK, MaybeProfile
  <2>2. hash # None
    BY <2>1, HashAssumption, NoneAssumption DEF SysctlProfile, renderSysctlConf, hashContent
  <2>3. allNodesApplied(snap.status, selected, hash)
    BY <1>4, <2>2 DEF ReconcileDaemonSet, ensureDaemonSet
  <2> HIDE DEF hash
  <2>4. selected # {} /\ selected \subseteq AppliedAt(snap.status, hash)
    BY <2>3 DEF allNodesApplied
  <2>5. \A n \in selected : hash \in written[n]
    BY <1>1, <2>1, <2>4 DEF AppliedAt, InPhase, Truthful
  <2> QED BY <2>4, <2>5 DEF hash
<1> QED BY <1>2, <1>3, <1>4

\* The DaemonSet goes away only with its profile or after every node listed has
\* had its config written: the decision is made from an old copy of the status
\* and an old list of nodes, in every interleaving with reports, edits, crashes
\* and removed nodes.
THEOREM TeardownIsEarnedCorrect == Spec => TeardownIsEarned
<1> DEFINE A == daemonSet # None /\ daemonSet' = None =>
                  \/ snap.deleting
                  \/ /\ selected # {}
                     /\ \A n \in selected : hashContent(renderSysctlConf(snap)) \in written[n]
<1>1. ControllerInv /\ ClaimInv /\ [Next]_vars => [A]_vars
  BY TeardownStep
<1>2. Init => ClaimInv
  BY DEF Init, ClaimInv, AppliedWasWritten, Truthful
<1>3. ControllerInv /\ ClaimInv /\ [Next]_vars => ClaimInv'
  BY ClaimStep
<1> HIDE DEF A
<1>4. Spec => [][A]_vars
  BY <1>1, <1>2, <1>3, ControllerCorrect, PTL DEF Spec
<1> QED BY <1>4 DEF A, TeardownIsEarned
----------------------------------------------------------------------------
\* Counters and entries.

\* The status has counters that agree with its entries.
CountsOf(st) ==
    /\ st.appliedNodes = Cardinality(InPhase(st, "Applied"))
    /\ st.failedNodes  = Cardinality(InPhase(st, "Failed"))

\* They agree in every copy.
CountsAgree(copy) == copy # None => CountsOf(copy.status)
CountsMatch == CountsAgree(profile) /\ CountsAgree(cache) /\ CountsAgree(snap)

\* A new profile has nothing to count.
LEMMA EmptyCounts == CountsOf(EmptyStatus)
<1>1. InPhase(EmptyStatus, "Applied") = {} /\ InPhase(EmptyStatus, "Failed") = {}
  BY DEF InPhase, EmptyStatus, NoEntry
<1> QED BY <1>1, FS_EmptySet DEF CountsOf, EmptyStatus

\* A report leaves the counters right, whatever they were.
LEMMA RecordedCounts ==
    ASSUME NEW st \in Status, NEW r \in InFlight
    PROVE  CountsOf(Recorded(st, r))
<1> DEFINE u == upsertNodeStatus(st, r)
<1>1. DOMAIN u = DOMAIN st
  BY DEF upsertNodeStatus
<1>2. {"nodeStatuses", "appliedNodes", "failedNodes"} \subseteq DOMAIN st
  BY DEF Status
<1> HIDE DEF u
<1>3. /\ recomputeCounts(u).nodeStatuses = u.nodeStatuses
      /\ recomputeCounts(u).appliedNodes = Cardinality(InPhase(u, "Applied"))
      /\ recomputeCounts(u).failedNodes = Cardinality(InPhase(u, "Failed"))
  BY <1>1, <1>2 DEF recomputeCounts
<1>4. \A phase : InPhase(recomputeCounts(u), phase) = InPhase(u, phase)
  BY <1>3 DEF InPhase
<1> QED BY <1>3, <1>4 DEF CountsOf, Recorded, u

\* Reconcile's status keeps entries and counters.
LEMMA NewStatusCounts ==
    ASSUME NEW st \in Status, NEW generation, NEW hash, NEW complete, CountsOf(st)
    PROVE  CountsOf(newStatus(st, generation, hash, complete))
<1> DEFINE new == newStatus(st, generation, hash, complete)
<1>1. /\ new.nodeStatuses = st.nodeStatuses
      /\ new.appliedNodes = st.appliedNodes
      /\ new.failedNodes = st.failedNodes
  BY DEF newStatus, Status
<1> HIDE DEF new
<1>2. \A phase : InPhase(new, phase) = InPhase(st, phase)
  BY <1>1 DEF InPhase
<1>3. CountsOf(new)
  BY <1>1, <1>2 DEF CountsOf
<1> QED BY <1>3 DEF new

LEMMA CountsStep == ControllerInv /\ CountsMatch /\ [Next]_vars => CountsMatch'
<1> SUFFICES ASSUME ControllerInv, CountsMatch, [Next]_vars PROVE CountsMatch'
  OBVIOUS
<1>0. /\ TypeOK /\ CopyInv
      /\ profile # None => profile \in SysctlProfile
      /\ cache # None => cache \in SysctlProfile
      /\ pc # "idle" => snap \in SysctlProfile /\ snap # None
  BY DEF ControllerInv, TypeOK, ProfileTypeOK, ReconcileTypeOK, MaybeProfile
\* Each copy is one of the copies of the state before, or has its status, or
\* has a status with the right counters.
<1>b. /\ profile # None => CountsOf(profile.status)
      /\ cache # None => CountsOf(cache.status)
      /\ snap # None => CountsOf(snap.status)
  BY DEF CountsMatch, CountsAgree
<1>c. CountsMatch' <=> /\ profile' # None => CountsOf(profile'.status)
                       /\ cache' # None => CountsOf(cache'.status)
                       /\ snap' # None => CountsOf(snap'.status)
  BY DEF CountsMatch, CountsAgree, CountsOf, InPhase
<1>3. CASE UNCHANGED <<profileVars, reconcileVars, ownedVars>> \/ SyncProfile
           \/ RestartManager \/ ReconcileError
  BY <1>3, <1>b, <1>c
     DEF profileVars, reconcileVars, SyncProfile, RestartManager, ReconcileError, Fail, Done
<1>4. CASE UserNext
  <2>1. profile' # None => CountsOf(profile'.status)
    <3>1. ASSUME NEW c \in Configs, NEW drift \in DriftChecks, CreateProfile(c, drift)
          PROVE  profile'.status = EmptyStatus
      BY <3>1 DEF CreateProfile, WriteProfile
    <3>2. ASSUME NEW c \in Configs, EditSpec(c)
          PROVE  profile # None /\ profile'.status = profile.status
      BY <1>0, <3>2, UserWrites DEF EditSpec, WriteProfile
    <3>3. CASE EditSchedule
      BY <1>0, <1>b, <3>3, UserWrites DEF EditSchedule, WriteProfile, SysctlProfile
    <3>4. CASE DeleteProfile
      BY <1>0, <1>b, <3>4, UserWrites DEF DeleteProfile, WriteProfile, SysctlProfile
    <3> QED BY <1>4, <1>b, <3>1, <3>2, <3>3, <3>4, EmptyCounts DEF UserNext
  <2> QED BY <1>4, <1>b, <1>c, <2>1, UserFrame
<1>5. ASSUME NEW r \in reports, RecordReport(r) PROVE CountsMatch'
  <2>1. cache = profile /\ profile \in SysctlProfile /\ r \in InFlight
    BY <1>0, <1>5 DEF RecordReport, RecordStatus, UpToDate, CopyInv, TypeOK, EnvTypeOK
  <2>2. profile'.status = Recorded(profile.status, r)
    BY <1>5, <2>1 DEF RecordReport, RecordStatus, WriteProfile, SysctlProfile
  <2>3. CountsOf(profile'.status)
    BY <2>1, <2>2, RecordedCounts DEF SysctlProfile
  <2> QED BY <1>5, <1>b, <1>c, <2>3 DEF RecordReport, RecordStatus, WriteProfile
<1>6. CASE ReconcileStep
  <2>1. CASE AddFinalizer
    <3>1. CASE UpToDate(snapFresh)
      <4>1. snap \in SysctlProfile /\ snap # None /\ profile' = [snap EXCEPT !.finalizer = TRUE]
        BY <1>0, <2>1, <3>1 DEF AddFinalizer, UpdateProfile
      <4>2. profile'.status = snap.status
        BY <4>1 DEF SysctlProfile
      <4> QED BY <1>b, <1>c, <2>1, <3>1, <4>1, <4>2 DEF AddFinalizer, UpdateProfile, Done
    <3>2. CASE ~UpToDate(snapFresh)
      BY <1>b, <1>c, <2>1, <3>2 DEF AddFinalizer, UpdateProfile, Fail, Done, profileVars
    <3> QED BY <3>1, <3>2
  <2>2. CASE RemoveFinalizer
    BY <1>b, <1>c, <2>2 DEF RemoveFinalizer, UpdateProfile, Fail, Done, profileVars
  <2>3. CASE UpdateStatus
    <3>1. CASE UpToDate(snapFresh)
      <4>1. profile' = [profile EXCEPT !.status = snap.status] /\ profile \in SysctlProfile
            /\ snap # None
        BY <1>0, <2>3, <3>1 DEF UpdateStatus, UpdateProfile, UpToDate
      <4>2. profile'.status = snap.status
        BY <4>1 DEF SysctlProfile
      <4> QED BY <1>b, <1>c, <2>3, <3>1, <4>1, <4>2 DEF UpdateStatus, UpdateProfile, Done
    <3>2. CASE ~UpToDate(snapFresh)
      BY <1>b, <1>c, <2>3, <3>2 DEF UpdateStatus, UpdateProfile, Fail, Done, profileVars
    <3> QED BY <3>1, <3>2
  <2>4. CASE ReconcileStart \/ CleanupDaemonSet \/ CleanupCronJob \/ CleanupConfigMap
             \/ EnsureConfigMap \/ ReconcileCronJob \/ SelectNodes
    BY <1>b, <1>c, <2>4
       DEF ReconcileStart, CleanupDaemonSet, CleanupCronJob, CleanupConfigMap, EnsureConfigMap,
           ReconcileCronJob, SelectNodes, Goto, profileVars, reconcileVars
  <2>5. CASE ReconcileDaemonSet
    <3> DEFINE hash     == hashContent(renderSysctlConf(snap))
               complete == allNodesApplied(snap.status, selected, hash)
               status   == newStatus(snap.status, snap.generation, hash, complete)
    <3>0. UNCHANGED profileVars /\ snap \in SysctlProfile /\ snap # None
      BY <1>0, <2>5 DEF ReconcileDaemonSet
    <3>1. snap' = None \/ snap' = [snap EXCEPT !.status = status]
      BY <2>5 DEF ReconcileDaemonSet, Done
    <3>2. CountsOf(status)
      BY <1>b, <3>0, NewStatusCounts DEF SysctlProfile
    <3> HIDE DEF status
    <3>3. snap' # None => CountsOf(snap'.status)
      BY <3>0, <3>1, <3>2 DEF SysctlProfile
    <3> QED BY <1>b, <1>c, <3>0, <3>3 DEF profileVars
  <2> QED BY <1>6, <2>1, <2>2, <2>3, <2>4, <2>5 DEF ReconcileStep
<1> QED BY <1>3, <1>4, <1>5, <1>6, ManagerFrame

\* In every copy of the status the counters agree with the entries, although
\* the report API and the controller both write it from copies.
LEMMA CountsMatchCorrect == Spec => []CountsMatch
<1>1. Init => CountsMatch
  BY DEF Init, CountsMatch, CountsAgree
<1>2. ControllerInv /\ CountsMatch /\ [Next]_vars => CountsMatch'
  BY CountsStep
<1> QED BY <1>1, <1>2, ControllerCorrect, PTL DEF Spec
=============================================================================
