---------------------------- MODULE OwnedObjects ----------------------------
(***************************************************************************)
(* CreateOrUpdate reads the ConfigMap, the CronJob and the DaemonSet of a  *)
(* profile from the manager's cache, and Delete goes to the API server     *)
(* without reading.  SysctlProfileController reads owned objects up to     *)
(* date; here the cache lags behind them by any number of writes.  A       *)
(* profile has its finalizer from the start, and the status is left out    *)
(* but for what Reconcile concludes from it: whether some selected node    *)
(* still needs the DaemonSet.                                              *)
(*                                                                         *)
(* One CreateOrUpdate is one step: whatever happens between its Get and    *)
(* its write might as well happen before the Get (a write of somebody      *)
(* else, which the cache has not seen) or after the write (news for the    *)
(* cache).                                                                 *)
(***************************************************************************)
EXTENDS Naturals, Sequences

CONSTANTS
    Contents,   \* what profiles render to
    None,       \* the absent object
    Moves,      \* which moves of others an instance allows
    MaxMoves    \* bound on their number

ASSUME MovesAssumption == MaxMoves \in Nat

Owned == {"configMap", "cronJob", "daemonSet"}

VARIABLES
    profile,        \* the profile in the API server, or None
    profileCache,   \* the informer's copy of it
    revision,       \* counts the writes of profiles
    object,         \* each owned object in the API server, or None
    cached,         \* the informers' copies of them
    pending,        \* states of each object the informer has yet to deliver
    queued,         \* the profile's key is in the work queue
    pc,             \* where the reconcile worker is
    snap,           \* the copy of the profile Reconcile works on
    moves,          \* moves made by others
    stripped        \* somebody else deleted the ConfigMap, and it is still gone

apiVars == <<profile, revision, object, pending>>
workerVars == <<pc, snap>>
vars == <<apiVars, profileCache, cached, queued, workerVars, moves, stripped>>

Profile ==
    [uid      : Nat,        \* the revision that created it
     version  : Nat,        \* the revision that wrote it last
     content  : Contents,   \* what it renders to
     driftCheck : BOOLEAN,  \* spec.schedule.driftCheck # ""
     rollout  : BOOLEAN,    \* some selected node has not applied that
     deleting : BOOLEAN]
Object == [uid : Nat, content : Contents]

\* None is neither.
ASSUME NoObjectAssumption == None \notin Profile \cup Object

PC == {"idle", "configMap", "cronJob", "daemonSet", "cleanupDaemonSet", "cleanupCronJob",
       "cleanupConfigMap", "removeFinalizer"}

Init ==
    /\ profile = None
    /\ profileCache = None
    /\ revision = 0
    /\ object = [o \in Owned |-> None]
    /\ cached = object
    /\ pending = [o \in Owned |-> <<>>]
    /\ queued = FALSE
    /\ pc = "idle"
    /\ snap = None
    /\ moves = 0
    /\ stripped = FALSE

\* A write of an owned object: the informer has yet to see it.
Write(o, obj) ==
    /\ object' = [object EXCEPT ![o] = obj]
    /\ pending' = [pending EXCEPT ![o] = Append(@, obj)]
    /\ stripped' = (stripped /\ (o = "configMap" => obj = None))

KeepObjects == UNCHANGED <<object, pending, stripped>>

----------------------------------------------------------------------------
\* Users, nodes and other controllers.

Move(kind) ==
    /\ kind \in Moves
    /\ moves < MaxMoves
    /\ moves' = moves + 1
    /\ UNCHANGED <<profileCache, cached, workerVars>>

CreateProfile(content, drift) ==
    /\ profile = None
    /\ Move("create")
    /\ revision' = revision + 1
    /\ profile' = [uid |-> revision', version |-> revision', content |-> content,
                    driftCheck |-> drift, rollout |-> TRUE, deleting |-> FALSE]
    /\ KeepObjects
    /\ UNCHANGED queued

EditProfile(new) ==
    /\ revision' = revision + 1
    /\ profile' = [new EXCEPT !.version = revision']
    /\ KeepObjects
    /\ UNCHANGED queued

EditSpec(content) ==
    /\ profile # None
    /\ content # profile.content
    /\ Move("edit")
    /\ EditProfile([profile EXCEPT !.content = content, !.rollout = TRUE])

EditSchedule ==
    /\ profile # None
    /\ Move("schedule")
    /\ EditProfile([profile EXCEPT !.driftCheck = ~ @])

\* Reports or nodes change what allNodesApplied says.
ChangeRollout ==
    /\ profile # None
    /\ Move("rollout")
    /\ EditProfile([profile EXCEPT !.rollout = ~ @])

DeleteProfile ==
    /\ profile # None
    /\ ~profile.deleting
    /\ Move("delete")
    /\ EditProfile([profile EXCEPT !.deleting = TRUE])

\* The DaemonSet controller updates the DaemonSet's status.
TouchDaemonSet ==
    /\ Move("touch")
    /\ object["daemonSet"] # None
    /\ Write("daemonSet", object["daemonSet"])
    /\ UNCHANGED <<profile, revision, queued>>

\* Somebody deletes an owned object.
DeleteByHand(o) ==
    /\ Move("byHand")
    /\ object[o] # None
    /\ object' = [object EXCEPT ![o] = None]
    /\ pending' = [pending EXCEPT ![o] = Append(@, None)]
    /\ stripped' = (stripped \/ o = "configMap")
    /\ UNCHANGED <<profile, revision, queued>>

----------------------------------------------------------------------------
\* The manager's informers.

SyncProfile ==
    /\ profileCache # profile
    /\ profileCache' = profile
    /\ queued' = TRUE
    /\ UNCHANGED <<apiVars, cached, workerVars, moves, stripped>>

\* Mutant: the DaemonSet is not watched.
ownsConfigMapOnly(o) == o = "configMap"

\* Owns(): the event of an owned object enqueues its owner.
owns(o) == o \in Owned

SyncObject(o) ==
    /\ pending[o] # <<>>
    /\ cached' = [cached EXCEPT ![o] = Head(pending[o])]
    /\ pending' = [pending EXCEPT ![o] = Tail(@)]
    /\ queued' = (queued \/ owns(o))
    /\ UNCHANGED <<profile, revision, object, profileCache, workerVars, moves, stripped>>

\* The informers of a new manager list everything.
Restart ==
    /\ "restart" \in Moves
    /\ moves < MaxMoves
    /\ moves' = moves + 1
    /\ profileCache' = profile
    /\ cached' = object
    /\ pending' = [o \in Owned |-> <<>>]
    /\ queued' = (profile # None)
    /\ pc' = "idle"
    /\ snap' = None
    /\ UNCHANGED <<profile, revision, object, stripped>>

----------------------------------------------------------------------------
\* Reconcile.

Goto(step) ==
    /\ pc' = step
    /\ snap' = IF step = "idle" THEN None ELSE snap

\* A failed call requeues the key.
Fail == Goto("idle") /\ KeepObjects /\ queued' = TRUE

\* Mutant: objects carry no controller reference.
looksRightUnowned(copy) == copy.content = snap.content

\* The mutate function finds nothing to change.  SetControllerReference puts
\* the uid of the profile in place of that of an earlier one of its name.  This
\* is exact for the ConfigMap.  The other two mutate functions put their pod
\* template in place of one that the server has filled in with defaults, so
\* they always find a change and send an Update, which is refused if the copy is
\* old; doing nothing instead leaves more to be repaired later.
looksRight(copy) == copy = [uid |-> snap.uid, content |-> snap.content]

\* Mutant: the labels of the selector name the config hash.
selectorByHash(content) == content

\* The pods a DaemonSet selects, the same whatever the config.
selector(content) == "profile"

\* Mutant: not found is ignored, and so is that there is nothing to do.
entryPointNotFound(p) ==
    IF p # None /\ p.deleting THEN "cleanupDaemonSet" ELSE "configMap"

entryPoint(p) ==
    IF p = None THEN "idle" ELSE IF p.deleting THEN "cleanupDaemonSet" ELSE "configMap"

\* Get, from the cache.
ReconcileStart ==
    /\ pc = "idle"
    /\ queued
    /\ queued' = FALSE
    /\ snap' = profileCache
    /\ pc' = entryPoint(profileCache)
    /\ UNCHANGED <<apiVars, profileCache, cached, moves, stripped>>

\* The API server takes an Update only of the present object, and never of a
\* DaemonSet's selector.
Accepted(o, copy) ==
    /\ pending[o] = <<>>
    /\ o = "daemonSet" => selector(copy.content) = selector(snap.content)

\* Create what the cache does not have, leave alone what looks right in it,
\* update the rest.  Create fails if the object exists after all.
CreateOrUpdate(o, next) ==
    LET copy  == cached[o]
        Right == copy # None /\ looksRight(copy)
        Taken == IF copy = None THEN object[o] = None ELSE Accepted(o, copy)
    IN  \/ Right /\ Goto(next) /\ KeepObjects /\ UNCHANGED queued
        \/ /\ ~Right /\ Taken
           /\ Write(o, [uid |-> snap.uid, content |-> snap.content])
           /\ Goto(next)
           /\ UNCHANGED queued
        \/ ~Right /\ ~Taken /\ Fail

\* IgnoreNotFound(Delete)
Delete(o, next) ==
    /\ IF object[o] # None THEN Write(o, None) ELSE KeepObjects
    /\ Goto(next)
    /\ UNCHANGED queued

\* What the profile calls for.
Wanted(p, o) == CASE o = "configMap" -> TRUE
                  [] o = "cronJob"   -> p.driftCheck
                  [] o = "daemonSet" -> p.rollout

Ensure(o, next) ==
    /\ pc = o
    /\ IF Wanted(snap, o) THEN CreateOrUpdate(o, next) ELSE Delete(o, next)
    /\ UNCHANGED <<profile, revision, profileCache, cached, moves>>

EnsureConfigMap == Ensure("configMap", "cronJob")
ReconcileCronJob == Ensure("cronJob", "daemonSet")
ReconcileDaemonSet == Ensure("daemonSet", "idle")

Cleanup(step, o, next) ==
    /\ pc = step
    /\ Delete(o, next)
    /\ UNCHANGED <<profile, revision, profileCache, cached, moves>>

cleanup ==
    \/ Cleanup("cleanupDaemonSet", "daemonSet", "cleanupCronJob")
    \/ Cleanup("cleanupCronJob", "cronJob", "cleanupConfigMap")
    \/ Cleanup("cleanupConfigMap", "configMap", "removeFinalizer")

\* An Update from an old copy is a conflict.
RemoveFinalizer ==
    /\ pc = "removeFinalizer"
    /\ IF snap = profile
       THEN profile' = None /\ Goto("idle") /\ KeepObjects /\ UNCHANGED queued
       ELSE Fail /\ UNCHANGED profile
    /\ UNCHANGED <<revision, profileCache, cached, moves>>

\* Any call may fail.
ReconcileError ==
    /\ pc # "idle"
    /\ "error" \in Moves
    /\ moves < MaxMoves
    /\ moves' = moves + 1
    /\ Fail
    /\ UNCHANGED <<profile, revision, profileCache, cached>>

ReconcileStep ==
    \/ ReconcileStart
    \/ EnsureConfigMap
    \/ ReconcileCronJob
    \/ ReconcileDaemonSet
    \/ cleanup
    \/ RemoveFinalizer

Next ==
    \/ \E c \in Contents, drift \in BOOLEAN : CreateProfile(c, drift)
    \/ \E c \in Contents : EditSpec(c)
    \/ EditSchedule
    \/ ChangeRollout
    \/ DeleteProfile
    \/ TouchDaemonSet
    \/ \E o \in Owned : DeleteByHand(o) \/ SyncObject(o)
    \/ SyncProfile
    \/ Restart
    \/ ReconcileError
    \/ ReconcileStep

\* Informers deliver and the work queue is served.
Spec ==
    /\ Init
    /\ [][Next]_vars
    /\ WF_vars(SyncProfile)
    /\ \A o \in Owned : WF_vars(SyncObject(o))
    /\ WF_vars(ReconcileStep)

----------------------------------------------------------------------------
\* Every variable has the type its declaration names, and Reconcile has a
\* working copy exactly while it runs.
TypeOK ==
    /\ {profile, profileCache, snap} \subseteq Profile \cup {None}
    /\ revision \in Nat
    /\ object \in [Owned -> Object \cup {None}]
    /\ cached \in [Owned -> Object \cup {None}]
    /\ pending \in [Owned -> Seq(Object \cup {None})]
    /\ {queued, stripped} \subseteq BOOLEAN
    /\ pc \in PC
    /\ (snap = None) <=> (pc = "idle")
    /\ moves \in 0 .. MaxMoves

\* No DaemonSet is created for a ConfigMap that only the cache still has: a
\* profile re-created under the same name does not take the old ConfigMap for
\* its own, and its DaemonSet finds a ConfigMap of the same owner.  (What
\* somebody else deleted is gone until Reconcile is told.)
DaemonSetHasOwnConfigMap ==
    object["daemonSet"] # None /\ ~stripped =>
        /\ object["configMap"] # None
        /\ object["configMap"].uid = object["daemonSet"].uid

\* The owned objects are what the profile calls for, and its own.
AsWanted ==
    \A o \in Owned :
        object[o] = IF profile # None /\ Wanted(profile, o)
                    THEN [uid |-> profile.uid, content |-> profile.content]
                    ELSE None

\* When the manager rests and has seen everything, the owned objects are as
\* wanted: a call that a stale cache made do nothing, or undo nothing, was made
\* again.
SettledAsWanted ==
    (/\ pc = "idle"
     /\ ~queued
     /\ profileCache = profile
     /\ \A o \in Owned : pending[o] = <<>>)
    => AsWanted

\* Once users and nodes rest, the objects become and stay as wanted: neither
\* conflicts with a lagging cache nor the events of its own writes keep the
\* controller from it.
Converges == <>[]AsWanted
=============================================================================
