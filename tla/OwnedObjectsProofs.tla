------------------------- MODULE OwnedObjectsProofs -------------------------
(***************************************************************************)
(* Proofs about OwnedObjects, for any contents and any number of moves of  *)
(* others.                                                                 *)
(*                                                                         *)
(* The work queue, the informers' lag and the steps of Reconcile together  *)
(* are what repairs an object; the invariant says, for each step Reconcile *)
(* can be at, which objects are right unless a repair is on its way.       *)
(***************************************************************************)
EXTENDS OwnedObjects, TLAPS

----------------------------------------------------------------------------
\* The inductive invariant.

Copies == {profile, profileCache, snap} \ {None}

\* Versions are given out once: no copy has one that is yet to come.
VersionsGiven == \A p \in Copies : p.uid <= revision /\ p.version <= revision

\* Where Reconcile is tells whether its copy is being deleted.
EnsurePC == {"configMap", "cronJob", "daemonSet"}
CleanupPC == {"cleanupDaemonSet", "cleanupCronJob", "cleanupConfigMap", "removeFinalizer"}
SnapFitsPC ==
    /\ pc \in EnsurePC => ~snap.deleting
    /\ pc \in CleanupPC => snap.deleting

\* A copy that is not being deleted is one of the present profile: a profile
\* goes only after the cache has seen its deletion.
LiveCopiesCurrent ==
    \A p \in {profileCache, snap} \ {None} :
        ~p.deleting => profile # None /\ p.uid = profile.uid

\* Reconcile's copy is not ahead of the cache, nor is the cache ahead of the
\* API server.
CopiesInOrder ==
    /\ snap # None /\ snap = profile => profileCache = profile
    /\ snap # None /\ ~queued => snap = profileCache
    /\ profile # None /\ snap # None /\ snap.uid = profile.uid =>
           /\ profileCache # None
           /\ profileCache.uid = profile.uid
           /\ snap.deleting => profileCache.deleting
    /\ profile # None /\ profileCache # None /\ profileCache.uid = profile.uid
        /\ profileCache.deleting => profile.deleting

\* The states of an object that the API server, the cache or the way between
\* them has.
Seen(o) == ({object[o], cached[o]} \cup {pending[o][i] : i \in 1 .. Len(pending[o])}) \ {None}

\* No object is ahead of the profiles, and one of the present profile, in
\* whatever place, was made by a Reconcile of it.
SeenIsKnown ==
    \A o \in Owned : \A x \in Seen(o) :
        /\ x.uid <= revision
        /\ profile # None /\ x.uid = profile.uid =>
              /\ profileCache # None /\ profileCache.uid = profile.uid
              /\ snap # None => snap.uid = profile.uid

\* The objects there are belong to the present profile.
ObjectsOwned ==
    \A o \in Owned : object[o] # None => profile # None /\ object[o].uid = profile.uid

\* The ConfigMap of the present profile, once made, is gone only by hand or
\* in the course of a deletion the manager knows of.
ConfigMapStays ==
    profile # None /\ object["configMap"] = None /\ ~stripped
        /\ (\E x \in Seen("configMap") : x.uid = profile.uid) =>
            /\ profileCache # None /\ profileCache.deleting
            /\ snap # None => snap.deleting

\* What Reconcile has done so far.
Progress ==
    /\ pc \in {"cronJob", "daemonSet"} /\ ~stripped => object["configMap"] # None
    /\ pc \in CleanupPC \ {"cleanupDaemonSet"} => object["daemonSet"] = None
    /\ pc \in {"cleanupConfigMap", "removeFinalizer"} => object["cronJob"] = None
    /\ pc = "removeFinalizer" => object["configMap"] = None
    /\ object["daemonSet"] # None /\ ~stripped => object["configMap"] # None

\* The informer delivers the present state last.
DeliversLast ==
    \A o \in Owned :
        object[o] = IF pending[o] = <<>> THEN cached[o] ELSE pending[o][Len(pending[o])]

\* Reconcile will run again.
WillRun ==
    \/ queued
    \/ profileCache # profile
    \/ \E o \in Owned : pending[o] # <<>>

RightFor(o) ==
    object[o] = IF profile # None /\ Wanted(profile, o)
                THEN [uid |-> profile.uid, content |-> profile.content]
                ELSE None

\* The objects that Reconcile is through with are right.
RightUnlessWillRun ==
    ~WillRun =>
        /\ pc \in {"idle", "cronJob", "daemonSet"} => RightFor("configMap")
        /\ pc \in {"idle", "daemonSet"} => RightFor("cronJob")
        /\ pc = "idle" => RightFor("daemonSet")

IInv ==
    /\ TypeOK
    /\ VersionsGiven
    /\ SnapFitsPC
    /\ LiveCopiesCurrent
    /\ CopiesInOrder
    /\ SeenIsKnown
    /\ ObjectsOwned
    /\ ConfigMapStays
    /\ Progress
    /\ DeliversLast
    /\ RightUnlessWillRun

----------------------------------------------------------------------------
\* Lemmas about the operators of the model.

\* What a profile calls for, object by object.
LEMMA WantedCases ==
    ASSUME NEW p
    PROVE  /\ Wanted(p, "configMap") = TRUE
           /\ Wanted(p, "cronJob") = p.driftCheck
           /\ Wanted(p, "daemonSet") = p.rollout
BY DEF Wanted

\* A write adds its state at the end of what the informer has yet to deliver.
LEMMA AppendSeen ==
    ASSUME TypeOK, NEW o \in Owned, NEW obj,
           object' = [object EXCEPT ![o] = obj],
           pending' = [pending EXCEPT ![o] = Append(@, obj)],
           cached' = cached
    PROVE  /\ \A q \in Owned : Seen(q)' \subseteq Seen(q) \cup ({obj} \ {None})
           /\ \A q \in Owned : q # o => Seen(q)' = Seen(q)
<1>1. /\ pending[o] \in Seq(Object \cup {None})
      /\ pending'[o] = Append(pending[o], obj)
      /\ object'[o] = obj
  BY DEF TypeOK
<1>2. \A i \in 1 .. Len(pending'[o]) :
        pending'[o][i] = IF i = Len(pending[o]) + 1 THEN obj ELSE pending[o][i]
  BY <1>1
<1>3. Len(pending'[o]) = Len(pending[o]) + 1 /\ Len(pending[o]) \in Nat
  BY <1>1
<1>4. Seen(o)' \subseteq Seen(o) \cup ({obj} \ {None})
  BY <1>1, <1>2, <1>3 DEF Seen
<1>5. ASSUME NEW q \in Owned, q # o
      PROVE  Seen(q)' = Seen(q)
  <2>1. object'[q] = object[q] /\ pending'[q] = pending[q] /\ cached'[q] = cached[q]
    BY <1>5 DEF TypeOK
  <2>2. QED
    BY <2>1 DEF Seen
<1>6. QED
  BY <1>4, <1>5

LEMMA AppendDelivers ==
    ASSUME TypeOK, DeliversLast, NEW o \in Owned, NEW obj,
           object' = [object EXCEPT ![o] = obj],
           pending' = [pending EXCEPT ![o] = Append(@, obj)],
           cached' = cached
    PROVE  DeliversLast' /\ pending'[o] # <<>>
<1>1. /\ pending[o] \in Seq(Object \cup {None})
      /\ pending'[o] = Append(pending[o], obj)
      /\ object'[o] = obj
  BY DEF TypeOK
<1>2. /\ Len(pending'[o]) = Len(pending[o]) + 1
      /\ Len(pending[o]) \in Nat
      /\ pending'[o][Len(pending'[o])] = obj
      /\ pending'[o] # <<>>
  BY <1>1
<1>3. ASSUME NEW q \in Owned, q # o
      PROVE  object'[q] = object[q] /\ pending'[q] = pending[q] /\ cached'[q] = cached[q]
  BY <1>3 DEF TypeOK
<1>4. QED
  BY <1>1, <1>2, <1>3 DEF DeliversLast

LEMMA AppendTyped ==
    ASSUME TypeOK, NEW o \in Owned, NEW obj \in Object \cup {None},
           object' = [object EXCEPT ![o] = obj],
           pending' = [pending EXCEPT ![o] = Append(@, obj)]
    PROVE  /\ object' \in [Owned -> Object \cup {None}]
           /\ pending' \in [Owned -> Seq(Object \cup {None})]
<1>1. pending[o] \in Seq(Object \cup {None})
  BY DEF TypeOK
<1>2. Append(pending[o], obj) \in Seq(Object \cup {None})
  BY <1>1
<1>3. QED
  BY <1>2 DEF TypeOK

LEMMA SameSeen ==
    ASSUME UNCHANGED <<object, pending, cached>>
    PROVE  /\ \A o \in Owned : Seen(o)' = Seen(o)
           /\ DeliversLast => DeliversLast'
BY DEF Seen, DeliversLast

----------------------------------------------------------------------------
\* The invariant holds to begin with.
LEMMA InitIInv == Init => IInv
<1> SUFFICES ASSUME Init PROVE IInv
  OBVIOUS
<1> USE DEF Init
<1>1. TypeOK
  <2>1. pending \in [Owned -> Seq(Object \cup {None})]
    BY DEF Init
  <2>2. moves \in 0 .. MaxMoves
    BY MovesAssumption
  <2>3. object \in [Owned -> Object \cup {None}] /\ cached \in [Owned -> Object \cup {None}]
    OBVIOUS
  <2>4. {queued, stripped} \subseteq BOOLEAN
    BY Zenon
  <2>5. QED
    BY <2>1, <2>2, <2>3, <2>4 DEF TypeOK, PC
<1>2. VersionsGiven /\ SnapFitsPC /\ LiveCopiesCurrent /\ CopiesInOrder
  BY DEF VersionsGiven, SnapFitsPC, LiveCopiesCurrent, CopiesInOrder, Copies, EnsurePC, CleanupPC
<1>3. SeenIsKnown /\ ObjectsOwned /\ ConfigMapStays /\ Progress /\ DeliversLast
  <2>1. \A o \in Owned : Seen(o) = {}
    BY DEF Seen
  <2>2. QED
    BY <2>1 DEF SeenIsKnown, ObjectsOwned, ConfigMapStays, Progress, DeliversLast, CleanupPC, Owned
<1>4. RightUnlessWillRun
  BY DEF RightUnlessWillRun, RightFor, Owned
<1>5. QED
  BY <1>1, <1>2, <1>3, <1>4 DEF IInv

----------------------------------------------------------------------------
\* Writes of the profile.

\* A new version of the profile is in no copy, so Reconcile will run.
LEMMA ProfileWritten ==
    ASSUME IInv, NEW p \in Profile, p.version = revision + 1,
           profile' = p, profileCache' = profileCache
    PROVE  profileCache' # profile' /\ snap # profile' /\ WillRun'
<1>1. profileCache # None => profileCache \in Profile /\ profileCache.version <= revision
  BY DEF IInv, TypeOK, VersionsGiven, Copies
<1>2. snap # None => snap \in Profile /\ snap.version <= revision
  BY DEF IInv, TypeOK, VersionsGiven, Copies
<1>3. revision \in Nat /\ p # None
  BY NoObjectAssumption DEF IInv, TypeOK
<1>4. profileCache # p /\ snap # p
  BY <1>1, <1>2, <1>3 DEF Profile
<1>5. QED
  BY <1>4 DEF WillRun

LEMMA CreateProfilePreserves ==
    ASSUME IInv, NEW c \in Contents, NEW drift \in BOOLEAN, CreateProfile(c, drift)
    PROVE  IInv'
<1> DEFINE p == [uid |-> revision', version |-> revision', content |-> c,
                 driftCheck |-> drift, rollout |-> TRUE, deleting |-> FALSE]
<1>1. /\ profile = None
      /\ revision' = revision + 1
      /\ profile' = p
      /\ moves' = moves + 1 /\ moves < MaxMoves
      /\ UNCHANGED <<profileCache, object, cached, pending, queued, pc, snap, stripped>>
  BY DEF CreateProfile, Move, KeepObjects, workerVars
<1>2. revision \in Nat /\ revision' \in Nat /\ moves' \in 0 .. MaxMoves
  BY <1>1, MovesAssumption DEF IInv, TypeOK
<1>3. /\ p \in Profile
      /\ p.uid = revision + 1 /\ p.version = revision + 1 /\ ~p.deleting
  BY <1>1, <1>2 DEF Profile
<1>4. p # None
  BY <1>3, NoObjectAssumption
<1>5. profileCache' # profile' /\ snap # profile' /\ WillRun'
  BY <1>1, <1>3, ProfileWritten
<1> HIDE DEF p
<1>6. TypeOK'
  BY <1>1, <1>2, <1>3 DEF IInv, TypeOK
<1>7. VersionsGiven'
  BY <1>1, <1>2, <1>3 DEF IInv, TypeOK, VersionsGiven, Copies, Profile
<1>8. SnapFitsPC'
  BY <1>1 DEF IInv, SnapFitsPC
<1>9. LiveCopiesCurrent'
  BY <1>1 DEF IInv, LiveCopiesCurrent
<1>10. \A q \in {profileCache, snap} \ {None} : q.uid # p.uid
  BY <1>2, <1>3 DEF IInv, TypeOK, VersionsGiven, Copies, Profile
<1>11. CopiesInOrder'
  BY <1>1, <1>5, <1>10 DEF IInv, CopiesInOrder
<1>12. \A o \in Owned : Seen(o)' = Seen(o)
  BY <1>1, SameSeen
<1>13. ASSUME NEW o \in Owned, NEW x \in Seen(o)
       PROVE  x.uid <= revision /\ x.uid \in Nat
  <2>1. x \in Object
    BY <1>13 DEF IInv, TypeOK, Seen
  <2>2. QED
    BY <1>13, <2>1 DEF IInv, SeenIsKnown, Object
<1>14. SeenIsKnown'
  BY <1>1, <1>2, <1>3, <1>12, <1>13 DEF SeenIsKnown
<1>15. ObjectsOwned'
  BY <1>1 DEF IInv, ObjectsOwned
<1>16. ConfigMapStays'
  BY <1>1, <1>2, <1>3, <1>12, <1>13 DEF ConfigMapStays, Owned
<1>17. Progress'
  BY <1>1 DEF IInv, Progress
<1>18. DeliversLast'
  BY <1>1, SameSeen DEF IInv
<1>19. RightUnlessWillRun'
  BY <1>5 DEF RightUnlessWillRun
<1>20. QED
  BY <1>6, <1>7, <1>8, <1>9, <1>11, <1>14, <1>15, <1>16, <1>17, <1>18, <1>19 DEF IInv

\* The edits of a profile: spec, schedule, what reports make of it, deletion.
LEMMA EditPreserves ==
    ASSUME IInv, profile # None,
           NEW p \in Profile,
           p.uid = profile.uid, p.version = revision + 1,
           profile.deleting => p.deleting,
           profile' = p, revision' = revision + 1,
           moves' \in 0 .. MaxMoves,
           UNCHANGED <<profileCache, object, cached, pending, queued, pc, snap, stripped>>
    PROVE  IInv'
<1>1. p # None /\ profile \in Profile
  BY NoObjectAssumption DEF IInv, TypeOK
<1>2. revision \in Nat /\ revision' \in Nat
  BY DEF IInv, TypeOK
<1>3. profileCache' # profile' /\ snap # profile' /\ WillRun'
  BY ProfileWritten
<1>4. TypeOK'
  BY <1>2 DEF IInv, TypeOK
<1>5. VersionsGiven'
  BY <1>1, <1>2 DEF IInv, TypeOK, VersionsGiven, Copies, Profile
<1>6. SnapFitsPC'
  BY DEF IInv, SnapFitsPC
<1>7. LiveCopiesCurrent'
  BY <1>1 DEF IInv, LiveCopiesCurrent
<1>8. CopiesInOrder'
  BY <1>1, <1>3 DEF IInv, CopiesInOrder
<1>9. \A o \in Owned : Seen(o)' = Seen(o)
  BY SameSeen
<1>10. ASSUME NEW o \in Owned, NEW x \in Seen(o)
       PROVE  x.uid <= revision /\ x.uid \in Nat
  <2>1. x \in Object
    BY <1>10 DEF IInv, TypeOK, Seen
  <2>2. QED
    BY <1>10, <2>1 DEF IInv, SeenIsKnown, Object
<1>11. SeenIsKnown'
  <2>1. ASSUME NEW o \in Owned, NEW x \in Seen(o)
        PROVE  x.uid <= revision'
    BY <1>2, <1>10, <2>1
  <2>2. QED
    BY <1>1, <1>9, <2>1 DEF IInv, SeenIsKnown
<1>12. ObjectsOwned'
  BY <1>1 DEF IInv, ObjectsOwned
<1>13. ConfigMapStays'
  BY <1>1, <1>9 DEF IInv, ConfigMapStays, Owned
<1>14. Progress'
  BY DEF IInv, Progress
<1>15. DeliversLast'
  BY SameSeen DEF IInv
<1>16. RightUnlessWillRun'
  BY <1>3 DEF RightUnlessWillRun
<1>17. QED
  BY <1>4, <1>5, <1>6, <1>7, <1>8, <1>11, <1>12, <1>13, <1>14, <1>15, <1>16 DEF IInv

\* Each edit is one of those.
LEMMA EditProfilePreserves ==
    ASSUME IInv, NEW kind, Move(kind), profile # None,
           NEW new \in Profile, new.uid = profile.uid,
           profile.deleting => new.deleting,
           EditProfile(new)
    PROVE  IInv'
<1> DEFINE p == [new EXCEPT !.version = revision']
<1>1. revision \in Nat /\ revision' = revision + 1 /\ profile' = p
  BY DEF EditProfile, IInv, TypeOK
<1>2. /\ p \in Profile
      /\ p.uid = profile.uid
      /\ p.version = revision + 1
      /\ p.deleting = new.deleting
  BY <1>1 DEF Profile
<1>3. UNCHANGED <<profileCache, object, cached, pending, queued, pc, snap, stripped>>
  BY DEF EditProfile, KeepObjects, Move, workerVars
<1>4. moves' \in 0 .. MaxMoves
  BY MovesAssumption DEF Move, IInv, TypeOK
<1> HIDE DEF p
<1>5. QED
  BY <1>1, <1>2, <1>3, <1>4, EditPreserves

LEMMA EditsPreserve ==
    ASSUME IInv,
           \/ \E c \in Contents : EditSpec(c)
           \/ EditSchedule
           \/ ChangeRollout
           \/ DeleteProfile
    PROVE  IInv'
<1>1. profile # None => profile \in Profile
  BY DEF IInv, TypeOK
<1>2. ASSUME NEW c \in Contents, EditSpec(c)
      PROVE  IInv'
  <2> DEFINE new == [profile EXCEPT !.content = c, !.rollout = TRUE]
  <2>1. profile # None /\ Move("edit") /\ EditProfile(new)
    BY <1>2 DEF EditSpec
  <2>2. new \in Profile /\ new.uid = profile.uid /\ new.deleting = profile.deleting
    BY <1>1, <2>1 DEF Profile
  <2> HIDE DEF new
  <2>3. QED
    BY <2>1, <2>2, EditProfilePreserves
<1>3. CASE EditSchedule
  <2> DEFINE new == [profile EXCEPT !.driftCheck = ~ @]
  <2>1. profile # None /\ Move("schedule") /\ EditProfile(new)
    BY <1>3 DEF EditSchedule
  <2>2. new \in Profile /\ new.uid = profile.uid /\ new.deleting = profile.deleting
    BY <1>1, <2>1 DEF Profile
  <2> HIDE DEF new
  <2>3. QED
    BY <2>1, <2>2, EditProfilePreserves
<1>4. CASE ChangeRollout
  <2> DEFINE new == [profile EXCEPT !.rollout = ~ @]
  <2>1. profile # None /\ Move("rollout") /\ EditProfile(new)
    BY <1>4 DEF ChangeRollout
  <2>2. new \in Profile /\ new.uid = profile.uid /\ new.deleting = profile.deleting
    BY <1>1, <2>1 DEF Profile
  <2> HIDE DEF new
  <2>3. QED
    BY <2>1, <2>2, EditProfilePreserves
<1>5. CASE DeleteProfile
  <2> DEFINE new == [profile EXCEPT !.deleting = TRUE]
  <2>1. profile # None /\ Move("delete") /\ EditProfile(new)
    BY <1>5 DEF DeleteProfile
  <2>2. new \in Profile /\ new.uid = profile.uid /\ new.deleting
    BY <1>1, <2>1 DEF Profile
  <2> HIDE DEF new
  <2>3. QED
    BY <2>1, <2>2, EditProfilePreserves
<1>6. QED
  BY <1>2, <1>3, <1>4, <1>5

----------------------------------------------------------------------------
\* Writes of owned objects.

\* What a step keeps that leaves the profile and its cached copy alone.
LEMMA CopiesKept ==
    ASSUME IInv, UNCHANGED <<profile, profileCache, revision>>,
           snap' \in {snap, None}, queued => queued'
    PROVE  VersionsGiven' /\ LiveCopiesCurrent' /\ CopiesInOrder'
<1>1. VersionsGiven'
  BY DEF IInv, VersionsGiven, Copies
<1>2. LiveCopiesCurrent'
  BY DEF IInv, LiveCopiesCurrent
<1>3. CopiesInOrder'
  BY DEF IInv, CopiesInOrder
<1>4. QED
  BY <1>1, <1>2, <1>3

\* A state of the present profile's object, or its absence, is written.
LEMMA ObjectWritten ==
    ASSUME IInv, NEW o \in Owned, NEW obj \in Object \cup {None},
           object' = [object EXCEPT ![o] = obj],
           pending' = [pending EXCEPT ![o] = Append(@, obj)],
           UNCHANGED <<cached, profile, profileCache, revision>>,
           snap' \in {snap, None},
           obj # None => /\ profile # None /\ obj.uid = profile.uid
                         /\ profileCache # None /\ profileCache.uid = profile.uid
                         /\ snap # None => snap.uid = profile.uid
    PROVE  /\ SeenIsKnown' /\ ObjectsOwned' /\ DeliversLast'
           /\ WillRun' /\ RightUnlessWillRun'
           /\ \A q \in Owned : Seen(q)' \subseteq Seen(q) \cup ({obj} \ {None})
           /\ object'[o] = obj
           /\ \A q \in Owned : q # o => object'[q] = object[q]
<1>1. TypeOK /\ DeliversLast /\ SeenIsKnown /\ ObjectsOwned /\ VersionsGiven
  BY DEF IInv
<1>2. \A q \in Owned : Seen(q)' \subseteq Seen(q) \cup ({obj} \ {None})
  BY <1>1, AppendSeen
<1>3. DeliversLast' /\ pending'[o] # <<>>
  BY <1>1, AppendDelivers
<1>4. WillRun' /\ RightUnlessWillRun'
  BY <1>3 DEF WillRun, RightUnlessWillRun
<1>5. obj # None => obj.uid <= revision
  BY <1>1 DEF VersionsGiven, Copies
<1>6. SeenIsKnown'
  BY <1>1, <1>2, <1>5 DEF SeenIsKnown
<1>7. object'[o] = obj /\ \A q \in Owned : q # o => object'[q] = object[q]
  BY <1>1 DEF TypeOK
<1>8. ObjectsOwned'
  BY <1>1, <1>7 DEF ObjectsOwned
<1>9. QED
  BY <1>2, <1>3, <1>4, <1>6, <1>7, <1>8

LEMMA TouchDaemonSetPreserves ==
    ASSUME IInv, TouchDaemonSet
    PROVE  IInv'
<1> DEFINE obj == object["daemonSet"]
<1>1. /\ moves' \in 0 .. MaxMoves
      /\ obj # None
      /\ object' = [object EXCEPT !["daemonSet"] = obj]
      /\ pending' = [pending EXCEPT !["daemonSet"] = Append(@, obj)]
      /\ UNCHANGED <<profile, profileCache, revision, cached, queued, pc, snap>>
  BY MovesAssumption DEF TouchDaemonSet, Write, Move, workerVars, IInv, TypeOK
<1>2. stripped' = stripped
  BY Zenon DEF TouchDaemonSet, Write, IInv, TypeOK
<1>3. obj \in Seen("daemonSet") /\ obj \in Object /\ "daemonSet" \in Owned
  BY <1>1 DEF Seen, Owned, IInv, TypeOK
<1>4. /\ profile # None /\ obj.uid = profile.uid
      /\ profileCache # None /\ profileCache.uid = profile.uid
      /\ snap # None => snap.uid = profile.uid
  BY <1>1, <1>3 DEF IInv, SeenIsKnown, ObjectsOwned
<1> HIDE DEF obj
<1>5. /\ SeenIsKnown' /\ ObjectsOwned' /\ DeliversLast' /\ WillRun' /\ RightUnlessWillRun'
      /\ \A q \in Owned : q # "daemonSet" => object'[q] = object[q]
  BY <1>1, <1>3, <1>4, ObjectWritten
<1>6. Seen("configMap")' = Seen("configMap")
  BY <1>1, <1>3, AppendSeen DEF IInv, Owned
<1>7. object' = object
  BY <1>1, <1>3 DEF obj, IInv, TypeOK
<1>8. VersionsGiven' /\ LiveCopiesCurrent' /\ CopiesInOrder'
  BY <1>1, CopiesKept
<1>9. pending' \in [Owned -> Seq(Object \cup {None})]
  BY <1>1, <1>3, AppendTyped DEF IInv
<1>10. TypeOK'
  BY <1>1, <1>2, <1>7, <1>9 DEF IInv, TypeOK
<1>11. SnapFitsPC'
  BY <1>1 DEF IInv, SnapFitsPC
<1>12. ConfigMapStays'
  BY <1>1, <1>2, <1>6, <1>7 DEF IInv, ConfigMapStays
<1>13. Progress'
  BY <1>1, <1>2, <1>7 DEF IInv, Progress
<1>14. QED
  BY <1>5, <1>8, <1>10, <1>11, <1>12, <1>13 DEF IInv

LEMMA DeleteByHandPreserves ==
    ASSUME IInv, NEW o \in Owned, DeleteByHand(o)
    PROVE  IInv'
<1>1. /\ moves' \in 0 .. MaxMoves
      /\ object[o] # None
      /\ object' = [object EXCEPT ![o] = None]
      /\ pending' = [pending EXCEPT ![o] = Append(@, None)]
      /\ UNCHANGED <<profile, profileCache, revision, cached, queued, pc, snap>>
  BY MovesAssumption DEF DeleteByHand, Move, workerVars, IInv, TypeOK
<1>2. /\ stripped' \in BOOLEAN
      /\ stripped => stripped'
      /\ o = "configMap" => stripped'
      /\ o # "configMap" => stripped' = stripped
  BY Zenon DEF DeleteByHand, IInv, TypeOK
<1>3. /\ SeenIsKnown' /\ ObjectsOwned' /\ DeliversLast' /\ WillRun' /\ RightUnlessWillRun'
      /\ object'[o] = None
      /\ \A q \in Owned : q # o => object'[q] = object[q]
  BY <1>1, ObjectWritten
<1>4. VersionsGiven' /\ LiveCopiesCurrent' /\ CopiesInOrder'
  BY <1>1, CopiesKept
<1>5. /\ object' \in [Owned -> Object \cup {None}]
      /\ pending' \in [Owned -> Seq(Object \cup {None})]
  BY <1>1, AppendTyped DEF IInv
<1>6. TypeOK'
  BY <1>1, <1>2, <1>5 DEF IInv, TypeOK
<1>7. SnapFitsPC'
  BY <1>1 DEF IInv, SnapFitsPC
<1>8. o # "configMap" => Seen("configMap")' = Seen("configMap")
  BY <1>1, AppendSeen DEF IInv, Owned
<1>9. ConfigMapStays'
  BY <1>1, <1>2, <1>3, <1>8 DEF IInv, ConfigMapStays, Owned
<1>10. Progress'
  BY <1>1, <1>2, <1>3 DEF IInv, Progress, Owned
<1>11. QED
  BY <1>3, <1>4, <1>6, <1>7, <1>9, <1>10 DEF IInv

----------------------------------------------------------------------------
\* The informers.

LEMMA SyncProfilePreserves ==
    ASSUME IInv, SyncProfile
    PROVE  IInv'
<1>1. /\ profileCache' = profile
      /\ UNCHANGED <<profile, revision, object, pending, cached, pc, snap, moves, stripped>>
  BY DEF SyncProfile, apiVars, workerVars
<1>2. queued' = TRUE
  BY DEF SyncProfile
<1>3. TypeOK'
  BY <1>1, <1>2 DEF IInv, TypeOK
<1>4. VersionsGiven' /\ SnapFitsPC' /\ LiveCopiesCurrent'
  BY <1>1 DEF IInv, VersionsGiven, Copies, SnapFitsPC, LiveCopiesCurrent
<1>5. CopiesInOrder'
  BY <1>1, <1>2 DEF IInv, CopiesInOrder
<1>6. \A o \in Owned : Seen(o)' = Seen(o)
  BY <1>1, SameSeen
<1>7. SeenIsKnown'
  BY <1>1, <1>6 DEF IInv, SeenIsKnown
<1>8. ObjectsOwned' /\ Progress'
  BY <1>1 DEF IInv, ObjectsOwned, Progress
<1>9. ConfigMapStays'
  <2>1. SUFFICES ASSUME profile # None, object["configMap"] = None, ~stripped,
                        NEW x \in Seen("configMap"), x.uid = profile.uid
                 PROVE  profile.deleting /\ (snap # None => snap.deleting)
    BY <1>1, <1>6 DEF ConfigMapStays, Owned
  <2>2. profileCache # None /\ profileCache.deleting /\ (snap # None => snap.deleting)
    BY <2>1 DEF IInv, ConfigMapStays
  <2>3. profileCache.uid = profile.uid
    BY <2>1 DEF IInv, SeenIsKnown, Owned
  <2>4. QED
    BY <2>1, <2>2, <2>3 DEF IInv, CopiesInOrder
<1>10. DeliversLast'
  BY <1>1, SameSeen DEF IInv
<1>11. RightUnlessWillRun'
  BY <1>2 DEF RightUnlessWillRun, WillRun
<1>12. QED
  BY <1>3, <1>4, <1>5, <1>7, <1>8, <1>9, <1>10, <1>11 DEF IInv

LEMMA SyncObjectPreserves ==
    ASSUME IInv, NEW o \in Owned, SyncObject(o)
    PROVE  IInv'
<1>1. /\ pending[o] # <<>>
      /\ cached' = [cached EXCEPT ![o] = Head(pending[o])]
      /\ pending' = [pending EXCEPT ![o] = Tail(@)]
      /\ UNCHANGED <<profile, revision, object, profileCache, pc, snap, moves, stripped>>
  BY DEF SyncObject, workerVars
<1>2. queued' = TRUE
  BY DEF SyncObject, owns
<1>3. TypeOK
  BY DEF IInv
<1> DEFINE s == pending[o]
<1>4. s \in Seq(Object \cup {None}) /\ s # <<>>
  BY <1>1, <1>3 DEF TypeOK
<1>5. /\ cached'[o] = Head(s) /\ pending'[o] = Tail(s)
      /\ \A q \in Owned : q # o => cached'[q] = cached[q] /\ pending'[q] = pending[q]
  BY <1>1, <1>3 DEF TypeOK
<1> HIDE DEF s
<1>6. /\ Len(s) \in Nat \ {0}
      /\ Head(s) = s[1] /\ Head(s) \in Object \cup {None}
      /\ Tail(s) \in Seq(Object \cup {None})
      /\ Len(Tail(s)) = Len(s) - 1
      /\ \A i \in 1 .. Len(Tail(s)) : Tail(s)[i] = s[i + 1]
      /\ Tail(s) = <<>> => Len(s) = 1
  <2>1. Len(s) \in Nat \ {0} /\ Head(s) = s[1] /\ Head(s) \in Object \cup {None}
    BY <1>4
  <2>2. Tail(s) \in Seq(Object \cup {None}) /\ Len(Tail(s)) = Len(s) - 1
    BY <1>4
  <2>3. \A i \in 1 .. Len(Tail(s)) : Tail(s)[i] = s[i + 1]
    BY <1>4
  <2>4. Tail(s) = <<>> => Len(s) = 1
    <3> DEFINE t == Tail(s)
    <3>1. Len(t) = Len(s) - 1 /\ Len(s) \in Nat
      BY <2>1, <2>2
    <3> HIDE DEF t
    <3>2. ASSUME t = <<>> PROVE Len(s) = 1
      BY <3>1, <3>2
    <3>3. QED
      BY <3>2 DEF t
  <2>5. QED
    BY <2>1, <2>2, <2>3, <2>4
<1>7. TypeOK'
  <2>1. /\ cached' \in [Owned -> Object \cup {None}]
        /\ pending' \in [Owned -> Seq(Object \cup {None})]
    BY <1>1, <1>3, <1>6 DEF TypeOK, s
  <2>2. QED
    BY <1>1, <1>2, <1>3, <2>1 DEF TypeOK
<1>8. VersionsGiven' /\ LiveCopiesCurrent' /\ CopiesInOrder'
  BY <1>1, <1>2, CopiesKept
<1>9. SnapFitsPC' /\ ObjectsOwned' /\ Progress'
  BY <1>1 DEF IInv, SnapFitsPC, ObjectsOwned, Progress
<1>10. \A q \in Owned : Seen(q)' \subseteq Seen(q)
  <2>1. Seen(o)' \subseteq Seen(o)
    <3>1. \A i \in 1 .. Len(Tail(s)) : i + 1 \in 1 .. Len(s) /\ Tail(s)[i] = s[i + 1]
      BY <1>6
    <3>2. 1 \in 1 .. Len(s)
      BY <1>6
    <3>3. QED
      BY <1>1, <1>5, <1>6, <3>1, <3>2 DEF Seen, s
  <2>2. ASSUME NEW q \in Owned, q # o PROVE Seen(q)' = Seen(q)
    BY <1>1, <1>5, <2>2 DEF Seen
  <2>3. QED
    BY <2>1, <2>2
<1>11. SeenIsKnown'
  BY <1>1, <1>10 DEF IInv, SeenIsKnown
<1>12. ConfigMapStays'
  BY <1>1, <1>10 DEF IInv, ConfigMapStays, Owned
<1>13. DeliversLast'
  <2>1. object[o] = s[Len(s)]
    BY <1>4 DEF IInv, DeliversLast, s
  <2>2. object[o] = IF Tail(s) = <<>> THEN Head(s) ELSE Tail(s)[Len(Tail(s))]
    <3>1. CASE Tail(s) = <<>>
      BY <1>6, <2>1, <3>1
    <3>2. CASE Tail(s) # <<>>
      <4>1. Len(Tail(s)) \in 1 .. Len(Tail(s))
        BY <1>6, <3>2
      <4>2. QED
        BY <1>6, <2>1, <3>2, <4>1
    <3>3. QED
      BY <3>1, <3>2
  <2>3. QED
    BY <1>1, <1>5, <2>2 DEF IInv, DeliversLast
<1>14. RightUnlessWillRun'
  BY <1>2 DEF RightUnlessWillRun, WillRun
<1>15. QED
  BY <1>7, <1>8, <1>9, <1>11, <1>12, <1>13, <1>14 DEF IInv

LEMMA RestartPreserves ==
    ASSUME IInv, Restart
    PROVE  IInv'
<1>1. /\ moves' \in 0 .. MaxMoves
      /\ profileCache' = profile
      /\ cached' = object
      /\ pending' = [o \in Owned |-> <<>>]
      /\ pc' = "idle" /\ snap' = None
      /\ UNCHANGED <<profile, revision, object, stripped>>
  BY MovesAssumption DEF Restart, IInv, TypeOK
<1>2. queued' \in BOOLEAN /\ (queued' <=> profile # None)
  BY DEF Restart
<1>3. pending' \in [Owned -> Seq(Object \cup {None})]
  BY <1>1
<1>4. TypeOK'
  BY <1>1, <1>2, <1>3 DEF IInv, TypeOK, PC
<1>5. VersionsGiven' /\ SnapFitsPC' /\ LiveCopiesCurrent' /\ CopiesInOrder'
  BY <1>1 DEF IInv, VersionsGiven, Copies, SnapFitsPC, EnsurePC, CleanupPC,
              LiveCopiesCurrent, CopiesInOrder
<1>6. \A o \in Owned : Seen(o)' \subseteq Seen(o)
  <2>1. \A o \in Owned : pending'[o] = <<>>
    BY <1>1
  <2>2. \A o \in Owned : {pending'[o][i] : i \in 1 .. Len(pending'[o])} = {}
    BY <2>1
  <2>3. QED
    BY <1>1, <2>2 DEF Seen
<1>7. SeenIsKnown'
  BY <1>1, <1>6 DEF IInv, SeenIsKnown
<1>8. ObjectsOwned'
  BY <1>1 DEF IInv, ObjectsOwned
<1>9. ConfigMapStays'
  <2>1. SUFFICES ASSUME profile # None, object["configMap"] = None, ~stripped,
                        NEW x \in Seen("configMap"), x.uid = profile.uid
                 PROVE  profile.deleting
    BY <1>1, <1>6 DEF ConfigMapStays, Owned
  <2>2. profileCache # None /\ profileCache.deleting
    BY <2>1 DEF IInv, ConfigMapStays
  <2>3. profileCache.uid = profile.uid
    BY <2>1 DEF IInv, SeenIsKnown, Owned
  <2>4. QED
    BY <2>1, <2>2, <2>3 DEF IInv, CopiesInOrder
<1>10. Progress'
  BY <1>1 DEF IInv, Progress, CleanupPC
<1>11. DeliversLast'
  BY <1>1 DEF DeliversLast
<1>12. RightUnlessWillRun'
  <2>1. profile = None => \A o \in Owned : object[o] = None
    BY DEF IInv, ObjectsOwned
  <2>2. QED
    BY <1>1, <1>2, <2>1 DEF RightUnlessWillRun, WillRun, RightFor, Owned
<1>13. QED
  BY <1>4, <1>5, <1>7, <1>8, <1>9, <1>10, <1>11, <1>12 DEF IInv

----------------------------------------------------------------------------
\* Reconcile.

LEMMA ReconcileStartPreserves ==
    ASSUME IInv, ReconcileStart
    PROVE  IInv'
<1>1. /\ snap' = profileCache
      /\ pc' = entryPoint(profileCache)
      /\ UNCHANGED <<profile, revision, object, pending, profileCache, cached, moves, stripped>>
  BY DEF ReconcileStart, apiVars
<1>2. queued' = FALSE
  BY DEF ReconcileStart
<1>3. /\ profileCache = None <=> pc' = "idle"
      /\ pc' \in {"idle", "cleanupDaemonSet", "configMap"}
      /\ pc' = "configMap" => ~profileCache.deleting
      /\ pc' = "cleanupDaemonSet" => profileCache.deleting
  BY <1>1 DEF entryPoint
<1>4. TypeOK'
  BY <1>1, <1>2, <1>3 DEF IInv, TypeOK, PC
<1>5. VersionsGiven' /\ LiveCopiesCurrent'
  BY <1>1 DEF IInv, VersionsGiven, Copies, LiveCopiesCurrent
<1>6. SnapFitsPC' /\ Progress'
  BY <1>1, <1>3 DEF IInv, SnapFitsPC, EnsurePC, CleanupPC, Progress
<1>7. CopiesInOrder'
  BY <1>1 DEF IInv, CopiesInOrder
<1>8. \A o \in Owned : Seen(o)' = Seen(o)
  BY <1>1, SameSeen
<1>9. SeenIsKnown'
  BY <1>1, <1>8 DEF IInv, SeenIsKnown
<1>10. ObjectsOwned' /\ DeliversLast'
  BY <1>1, SameSeen DEF IInv, ObjectsOwned
<1>11. ConfigMapStays'
  BY <1>1, <1>8 DEF IInv, ConfigMapStays, Owned
<1>12. RightUnlessWillRun'
  <2>1. profile = None => \A o \in Owned : object[o] = None
    BY DEF IInv, ObjectsOwned
  <2>2. QED
    BY <1>1, <1>3, <2>1 DEF RightUnlessWillRun, WillRun, RightFor, Owned
<1>13. QED
  BY <1>4, <1>5, <1>6, <1>7, <1>9, <1>10, <1>11, <1>12 DEF IInv

\* A call that fails leaves the objects as they are and requeues.
LEMMA FailPreserves ==
    ASSUME IInv, Fail, moves' \in 0 .. MaxMoves,
           UNCHANGED <<profile, revision, profileCache, cached>>
    PROVE  IInv'
<1>1. /\ pc' = "idle" /\ snap' = None
      /\ UNCHANGED <<object, pending, stripped>>
  BY DEF Fail, Goto, KeepObjects
<1>2. queued' = TRUE
  BY DEF Fail
<1>3. TypeOK'
  BY <1>1, <1>2 DEF IInv, TypeOK, PC
<1>4. VersionsGiven' /\ LiveCopiesCurrent' /\ CopiesInOrder'
  BY <1>1, <1>2, CopiesKept
<1>5. SnapFitsPC' /\ Progress'
  BY <1>1 DEF IInv, SnapFitsPC, EnsurePC, CleanupPC, Progress
<1>6. \A o \in Owned : Seen(o)' = Seen(o)
  BY <1>1, SameSeen
<1>7. SeenIsKnown' /\ ConfigMapStays'
  BY <1>1, <1>6 DEF IInv, SeenIsKnown, ConfigMapStays, Owned
<1>8. ObjectsOwned' /\ DeliversLast'
  BY <1>1, SameSeen DEF IInv, ObjectsOwned
<1>9. RightUnlessWillRun'
  BY <1>2 DEF RightUnlessWillRun, WillRun
<1>10. QED
  BY <1>3, <1>4, <1>5, <1>7, <1>8, <1>9 DEF IInv

LEMMA ReconcileErrorPreserves ==
    ASSUME IInv, ReconcileError
    PROVE  IInv'
<1>1. moves' \in 0 .. MaxMoves
  BY MovesAssumption DEF ReconcileError, IInv, TypeOK
<1>2. QED
  BY <1>1, FailPreserves DEF ReconcileError

\* The places of the steps that keep an object as a profile wants it.
EnsureStep(o, next) ==
    \/ o = "configMap" /\ next = "cronJob"
    \/ o = "cronJob"   /\ next = "daemonSet"
    \/ o = "daemonSet" /\ next = "idle"

LEMMA EnsurePreserves ==
    ASSUME IInv, NEW o \in Owned, NEW next, EnsureStep(o, next), Ensure(o, next)
    PROVE  IInv'
<1> DEFINE want == [uid |-> snap.uid, content |-> snap.content]
           Kept == Goto(next) /\ KeepObjects /\ UNCHANGED queued
           Put(obj) == Write(o, obj) /\ Goto(next) /\ UNCHANGED queued
<1>1. pc = o /\ pc # "idle" /\ o \in EnsurePC
  BY DEF Ensure, EnsureStep, EnsurePC
<1>2. UNCHANGED <<profile, revision, profileCache, cached, moves>>
  BY DEF Ensure
<1>3. snap # None /\ snap \in Profile /\ ~snap.deleting
  BY <1>1 DEF IInv, TypeOK, SnapFitsPC
<1>4. /\ profile # None /\ snap.uid = profile.uid
      /\ profileCache # None /\ profileCache.uid = profile.uid
  BY <1>3 DEF IInv, LiveCopiesCurrent, CopiesInOrder
<1>5. want \in Object /\ want # None /\ want.uid = profile.uid
  BY <1>3, <1>4, NoObjectAssumption DEF Object, Profile
<1>6. \/ Kept /\ Wanted(snap, o) /\ cached[o] # None /\ cached[o] = want
      \/ Kept /\ ~Wanted(snap, o) /\ object[o] = None
      \/ Put(want)
      \/ Put(None) /\ ~Wanted(snap, o)
      \/ Fail
  BY DEF Ensure, CreateOrUpdate, Delete, looksRight
<1>7. ASSUME Goto(next)
      PROVE  /\ pc' = next
             /\ snap' = IF next = "idle" THEN None ELSE snap
             /\ (snap' = None) <=> (pc' = "idle")
             /\ pc' \in {"cronJob", "daemonSet", "idle"}
  BY <1>3, <1>7 DEF Goto, EnsureStep
<1>8. ASSUME Goto(next), UNCHANGED queued
      PROVE  VersionsGiven' /\ LiveCopiesCurrent' /\ CopiesInOrder' /\ SnapFitsPC'
  <2>1. VersionsGiven' /\ LiveCopiesCurrent' /\ CopiesInOrder'
    BY <1>2, <1>7, <1>8, CopiesKept
  <2>2. SnapFitsPC'
    BY <1>3, <1>7, <1>8 DEF SnapFitsPC, EnsurePC, CleanupPC
  <2>3. QED
    BY <2>1, <2>2
<1> HIDE DEF want
<1>9. ASSUME Kept,
             \/ Wanted(snap, o) /\ cached[o] # None /\ cached[o] = want
             \/ ~Wanted(snap, o) /\ object[o] = None
      PROVE  IInv'
  <2>1. UNCHANGED <<object, pending, stripped, cached>> /\ Goto(next)
    BY <1>2, <1>9 DEF KeepObjects
  <2>2. UNCHANGED queued
    BY <1>9
  <2>3. TypeOK'
    BY <1>2, <1>7, <2>1, <2>2 DEF IInv, TypeOK, PC
  <2>4. \A q \in Owned : Seen(q)' = Seen(q)
    BY <2>1, SameSeen
  <2>5. SeenIsKnown' /\ ConfigMapStays'
    BY <1>2, <1>7, <2>1, <2>4 DEF IInv, SeenIsKnown, ConfigMapStays, Owned
  <2>6. ObjectsOwned' /\ DeliversLast'
    BY <1>2, <2>1, SameSeen DEF IInv, ObjectsOwned
  <2>7. o = "configMap" /\ ~stripped => object["configMap"] # None
    <3> SUFFICES ASSUME o = "configMap", ~stripped, object["configMap"] = None
                 PROVE  FALSE
      OBVIOUS
    <3>1. cached["configMap"] # None /\ cached["configMap"] = want
      BY <1>9, WantedCases
    <3>2. cached["configMap"] \in Seen("configMap")
      BY <3>1 DEF Seen
    <3>3. QED
      BY <1>3, <1>4, <1>5, <3>1, <3>2 DEF IInv, ConfigMapStays
  <2>8. Progress'
    BY <1>1, <1>7, <2>1, <2>7 DEF IInv, Progress, CleanupPC, EnsureStep
  <2>9. RightUnlessWillRun'
    <3>1. SUFFICES ASSUME ~WillRun
                   PROVE  RightUnlessWillRun'
      BY <1>2, <2>1, <2>2 DEF RightUnlessWillRun, WillRun
    <3>2. snap = profile /\ pending[o] = <<>>
      BY <1>3, <3>1 DEF WillRun, IInv, CopiesInOrder
    <3>3. object[o] = cached[o]
      BY <3>2 DEF IInv, DeliversLast
    <3>4. RightFor(o)
      BY <1>4, <1>9, <3>2, <3>3 DEF RightFor, want
    <3>5. RightFor(o)' /\ \A q \in Owned : RightFor(q) => RightFor(q)'
      BY <1>2, <2>1, <3>4 DEF RightFor
    <3>6. QED
      BY <1>1, <1>7, <2>1, <3>1, <3>5 DEF RightUnlessWillRun, IInv, EnsureStep, Owned
  <2>10. QED
    BY <1>8, <2>1, <2>2, <2>3, <2>5, <2>6, <2>8, <2>9 DEF IInv
<1>10. ASSUME NEW obj \in {want, None}, Put(obj), obj = None => ~Wanted(snap, o)
       PROVE  IInv'
  <2>1. /\ object' = [object EXCEPT ![o] = obj]
        /\ pending' = [pending EXCEPT ![o] = Append(@, obj)]
        /\ Goto(next)
    BY <1>10 DEF Write
  <2>2. UNCHANGED queued
    BY <1>10
  <2>3. /\ stripped' \in BOOLEAN
        /\ stripped' => stripped /\ (o = "configMap" => obj = None)
        /\ stripped /\ o # "configMap" => stripped'
    BY <1>10, Zenon DEF Write, IInv, TypeOK
  <2>4. o = "configMap" => obj # None
    BY <1>10, WantedCases
  <2>5. obj \in Object \cup {None}
    BY <1>5, <1>10
  <2>6. /\ SeenIsKnown' /\ ObjectsOwned' /\ DeliversLast' /\ RightUnlessWillRun'
        /\ object'[o] = obj
        /\ \A q \in Owned : q # o => object'[q] = object[q]
    <3>1. snap' \in {snap, None}
      BY <1>7, <2>1
    <3>2. QED
      BY <1>2, <1>4, <1>5, <2>1, <2>5, <3>1, ObjectWritten
  <2>7. /\ object' \in [Owned -> Object \cup {None}]
        /\ pending' \in [Owned -> Seq(Object \cup {None})]
    BY <2>1, <2>5, AppendTyped DEF IInv
  <2>8. TypeOK'
    BY <1>2, <1>7, <2>1, <2>2, <2>3, <2>7 DEF IInv, TypeOK, PC
  <2>9. o # "configMap" => Seen("configMap")' = Seen("configMap")
    BY <1>2, <2>1, AppendSeen DEF IInv, Owned
  <2>10. ConfigMapStays'
    <3>1. CASE o = "configMap"
      BY <2>4, <2>6, <3>1 DEF ConfigMapStays
    <3>2. CASE o # "configMap"
      BY <1>2, <1>7, <2>1, <2>3, <2>6, <2>9, <3>2 DEF IInv, ConfigMapStays, Owned
    <3>3. QED
      BY <3>1, <3>2
  <2>11. Progress'
    BY <1>1, <1>7, <2>1, <2>3, <2>4, <2>6 DEF IInv, Progress, CleanupPC, EnsureStep, Owned
  <2>12. QED
    BY <1>8, <2>1, <2>2, <2>6, <2>8, <2>10, <2>11 DEF IInv
<1>11. CASE Fail
  <2>1. moves' \in 0 .. MaxMoves
    BY <1>2 DEF IInv, TypeOK
  <2>2. QED
    BY <1>2, <1>11, <2>1, FailPreserves
<1>12. QED
  BY <1>5, <1>6, <1>9, <1>10, <1>11

\* The places of the steps of cleanup.
CleanupStep(step, o, next) ==
    \/ step = "cleanupDaemonSet" /\ o = "daemonSet" /\ next = "cleanupCronJob"
    \/ step = "cleanupCronJob"   /\ o = "cronJob"   /\ next = "cleanupConfigMap"
    \/ step = "cleanupConfigMap" /\ o = "configMap" /\ next = "removeFinalizer"

LEMMA CleanupPreserves ==
    ASSUME IInv, NEW step, NEW o \in Owned, NEW next, CleanupStep(step, o, next),
           Cleanup(step, o, next)
    PROVE  IInv'
<1>1. /\ pc = step /\ pc' = next
      /\ step \in CleanupPC /\ next \in CleanupPC \ {"cleanupDaemonSet"}
      /\ UNCHANGED <<profile, revision, profileCache, cached, snap, moves>>
  BY DEF Cleanup, CleanupStep, Delete, Goto, CleanupPC
<1>2. UNCHANGED queued
  BY DEF Cleanup, Delete
<1>3. snap # None /\ snap \in Profile /\ snap.deleting
  BY <1>1 DEF IInv, TypeOK, SnapFitsPC, CleanupPC
<1>4. VersionsGiven' /\ LiveCopiesCurrent' /\ CopiesInOrder'
  BY <1>1, <1>2, CopiesKept
<1>5. SnapFitsPC'
  BY <1>1, <1>3 DEF SnapFitsPC, EnsurePC, CleanupPC
<1>6. RightUnlessWillRun'
  BY <1>1 DEF RightUnlessWillRun, CleanupPC
<1>7. CASE object[o] = None
  <2>1. UNCHANGED <<object, pending, stripped>>
    BY <1>7 DEF Cleanup, Delete, KeepObjects
  <2>2. TypeOK'
    BY <1>1, <1>2, <1>3, <2>1 DEF IInv, TypeOK, PC, CleanupPC
  <2>3. \A q \in Owned : Seen(q)' = Seen(q)
    BY <1>1, <2>1, SameSeen
  <2>4. SeenIsKnown' /\ ConfigMapStays'
    BY <1>1, <2>1, <2>3 DEF IInv, SeenIsKnown, ConfigMapStays, Owned
  <2>5. ObjectsOwned' /\ DeliversLast'
    BY <1>1, <2>1, SameSeen DEF IInv, ObjectsOwned
  <2>6. Progress'
    BY <1>1, <1>7, <2>1 DEF IInv, Progress, CleanupPC, CleanupStep
  <2>7. QED
    BY <1>4, <1>5, <1>6, <2>2, <2>4, <2>5, <2>6 DEF IInv
<1>8. CASE object[o] # None
  <2>1. /\ object' = [object EXCEPT ![o] = None]
        /\ pending' = [pending EXCEPT ![o] = Append(@, None)]
    BY <1>8 DEF Cleanup, Delete, Write
  <2>2. stripped' = stripped
    BY <1>8, Zenon DEF Cleanup, Delete, Write, IInv, TypeOK
  <2>3. /\ SeenIsKnown' /\ ObjectsOwned' /\ DeliversLast'
        /\ \A q \in Owned : Seen(q)' \subseteq Seen(q)
        /\ object'[o] = None
        /\ \A q \in Owned : q # o => object'[q] = object[q]
    BY <1>1, <2>1, ObjectWritten
  <2>4. /\ object' \in [Owned -> Object \cup {None}]
        /\ pending' \in [Owned -> Seq(Object \cup {None})]
    BY <2>1, AppendTyped DEF IInv
  <2>5. TypeOK'
    BY <1>1, <1>2, <1>3, <2>2, <2>4 DEF IInv, TypeOK, PC, CleanupPC
  <2>6. Progress'
    BY <1>1, <2>2, <2>3 DEF IInv, Progress, CleanupPC, CleanupStep, Owned
  <2>7. ConfigMapStays'
    <3>1. object[o] \in Seen(o)
      BY <1>8 DEF Seen
    <3>2. profile # None /\ object[o].uid = profile.uid
      BY <1>8 DEF IInv, ObjectsOwned
    <3>3. profileCache # None /\ snap.uid = profile.uid
      BY <1>3, <3>1, <3>2 DEF IInv, SeenIsKnown
    <3>4. profileCache.deleting
      BY <1>3, <3>2, <3>3 DEF IInv, CopiesInOrder
    <3>5. QED
      BY <1>1, <1>3, <3>3, <3>4 DEF ConfigMapStays
  <2>8. QED
    BY <1>4, <1>5, <1>6, <2>3, <2>5, <2>6, <2>7 DEF IInv
<1>9. QED
  BY <1>7, <1>8

LEMMA RemoveFinalizerPreserves ==
    ASSUME IInv, RemoveFinalizer
    PROVE  IInv'
<1>1. pc = "removeFinalizer" /\ UNCHANGED <<revision, profileCache, cached, moves>>
  BY DEF RemoveFinalizer
<1>2. snap # None /\ snap \in Profile /\ snap.deleting
  BY <1>1 DEF IInv, TypeOK, SnapFitsPC, CleanupPC
<1>3. CASE snap = profile
  <2>1. /\ profile' = None /\ pc' = "idle" /\ snap' = None
        /\ UNCHANGED <<object, pending, stripped>>
    BY <1>3 DEF RemoveFinalizer, Goto, KeepObjects
  <2>2. UNCHANGED queued
    BY <1>3 DEF RemoveFinalizer
  <2>3. profileCache = profile
    BY <1>2, <1>3 DEF IInv, CopiesInOrder
  <2>4. \A o \in Owned : object[o] = None
    BY <1>1 DEF IInv, Progress, CleanupPC, Owned
  <2>5. TypeOK'
    BY <1>1, <2>1, <2>2 DEF IInv, TypeOK, PC
  <2>6. VersionsGiven' /\ SnapFitsPC'
    BY <1>1, <2>1 DEF IInv, VersionsGiven, Copies, SnapFitsPC, EnsurePC, CleanupPC
  <2>7. LiveCopiesCurrent' /\ CopiesInOrder'
    BY <1>1, <1>2, <1>3, <2>1, <2>3 DEF LiveCopiesCurrent, CopiesInOrder
  <2>8. \A o \in Owned : Seen(o)' = Seen(o)
    BY <1>1, <2>1, SameSeen
  <2>9. SeenIsKnown' /\ ObjectsOwned' /\ ConfigMapStays'
    BY <1>1, <2>1, <2>4, <2>8 DEF IInv, SeenIsKnown, ObjectsOwned, ConfigMapStays
  <2>10. Progress'
    BY <2>1, <2>4 DEF Progress, CleanupPC, Owned
  <2>11. DeliversLast'
    BY <1>1, <2>1, SameSeen DEF IInv
  <2>12. RightUnlessWillRun'
    BY <1>1, <1>2, <1>3, <2>1, <2>3 DEF RightUnlessWillRun, WillRun
  <2>13. QED
    BY <2>5, <2>6, <2>7, <2>9, <2>10, <2>11, <2>12 DEF IInv
<1>4. CASE snap # profile
  <2>1. moves' \in 0 .. MaxMoves
    BY <1>1 DEF IInv, TypeOK
  <2>2. QED
    BY <1>1, <1>4, <2>1, FailPreserves DEF RemoveFinalizer
<1>5. QED
  BY <1>3, <1>4

----------------------------------------------------------------------------
LEMMA StutterPreserves ==
    ASSUME IInv, UNCHANGED vars
    PROVE  IInv'
<1>1. UNCHANGED <<profile, revision, object, pending, profileCache, cached, queued, pc, snap,
                  moves, stripped>>
  BY DEF vars, apiVars, workerVars
<1>2. TypeOK' /\ VersionsGiven' /\ SnapFitsPC' /\ LiveCopiesCurrent' /\ CopiesInOrder'
  BY <1>1 DEF IInv, TypeOK, VersionsGiven, Copies, SnapFitsPC, LiveCopiesCurrent, CopiesInOrder
<1>3. SeenIsKnown' /\ ObjectsOwned' /\ ConfigMapStays' /\ Progress' /\ DeliversLast'
  BY <1>1 DEF IInv, SeenIsKnown, Seen, ObjectsOwned, ConfigMapStays, Progress, DeliversLast
<1>4. RightUnlessWillRun'
  BY <1>1 DEF IInv, RightUnlessWillRun, WillRun, RightFor
<1>5. QED
  BY <1>2, <1>3, <1>4 DEF IInv

\* Every step preserves the invariant.
LEMMA NextPreserves == IInv /\ [Next]_vars => IInv'
<1> SUFFICES ASSUME IInv, [Next]_vars PROVE IInv'
  OBVIOUS
<1>1. ASSUME NEW c \in Contents, NEW drift \in BOOLEAN, CreateProfile(c, drift)
      PROVE  IInv'
  BY <1>1, CreateProfilePreserves
<1>2. CASE (\E c \in Contents : EditSpec(c)) \/ EditSchedule \/ ChangeRollout \/ DeleteProfile
  BY <1>2, EditsPreserve
<1>3. CASE TouchDaemonSet
  BY <1>3, TouchDaemonSetPreserves
<1>4. ASSUME NEW o \in Owned, DeleteByHand(o) \/ SyncObject(o)
      PROVE  IInv'
  BY <1>4, DeleteByHandPreserves, SyncObjectPreserves
<1>5. CASE SyncProfile
  BY <1>5, SyncProfilePreserves
<1>6. CASE Restart
  BY <1>6, RestartPreserves
<1>7. CASE ReconcileError
  BY <1>7, ReconcileErrorPreserves
<1>8. CASE ReconcileStart
  BY <1>8, ReconcileStartPreserves
<1>9. CASE EnsureConfigMap
  BY <1>9, EnsurePreserves DEF EnsureConfigMap, EnsureStep, Owned
<1>10. CASE ReconcileCronJob
  BY <1>10, EnsurePreserves DEF ReconcileCronJob, EnsureStep, Owned
<1>11. CASE ReconcileDaemonSet
  BY <1>11, EnsurePreserves DEF ReconcileDaemonSet, EnsureStep, Owned
<1>12. CASE cleanup
  <2>1. CASE Cleanup("cleanupDaemonSet", "daemonSet", "cleanupCronJob")
    BY <2>1, CleanupPreserves DEF CleanupStep, Owned
  <2>2. CASE Cleanup("cleanupCronJob", "cronJob", "cleanupConfigMap")
    BY <2>2, CleanupPreserves DEF CleanupStep, Owned
  <2>3. CASE Cleanup("cleanupConfigMap", "configMap", "removeFinalizer")
    BY <2>3, CleanupPreserves DEF CleanupStep, Owned
  <2>4. QED
    BY <1>12, <2>1, <2>2, <2>3 DEF cleanup
<1>13. CASE RemoveFinalizer
  BY <1>13, RemoveFinalizerPreserves
<1>14. CASE UNCHANGED vars
  BY <1>14, StutterPreserves
<1>15. QED
  BY <1>1, <1>2, <1>3, <1>4, <1>5, <1>6, <1>7, <1>8, <1>9, <1>10, <1>11, <1>12, <1>13, <1>14
     DEF Next, ReconcileStep

----------------------------------------------------------------------------
\* The invariant holds in every reachable state.
THEOREM Invariance == Spec => []IInv
BY InitIInv, NextPreserves, PTL DEF Spec

\* Every variable keeps its type, and Reconcile has a copy of the profile
\* exactly while it runs.
THEOREM TypeCorrect == Spec => []TypeOK
<1>1. IInv => TypeOK
  BY DEF IInv
<1>2. QED
  BY <1>1, Invariance, PTL

\* CreateOrUpdate from a lagging cache never leaves a DaemonSet without a
\* ConfigMap of the same profile, across deletion and re-creation, restarts
\* and errors, unless somebody else deleted that ConfigMap.
THEOREM DaemonSetOwnConfigMap == Spec => []DaemonSetHasOwnConfigMap
<1>1. IInv => DaemonSetHasOwnConfigMap
  <2> SUFFICES ASSUME IInv, object["daemonSet"] # None, ~stripped
               PROVE  /\ object["configMap"] # None
                      /\ object["configMap"].uid = object["daemonSet"].uid
    BY DEF DaemonSetHasOwnConfigMap
  <2>1. object["configMap"] # None
    BY DEF IInv, Progress
  <2>2. QED
    BY <2>1 DEF IInv, ObjectsOwned, Owned
<1>2. QED
  BY <1>1, Invariance, PTL

\* Whatever a lagging cache made Reconcile overlook, an event that puts it
\* right is on its way: when nothing is, the objects are as wanted.
THEOREM Settles == Spec => []SettledAsWanted
<1>1. IInv => SettledAsWanted
  <2> SUFFICES ASSUME IInv, pc = "idle", ~WillRun
               PROVE  AsWanted
    BY DEF SettledAsWanted, WillRun
  <2>1. RightFor("configMap") /\ RightFor("cronJob") /\ RightFor("daemonSet")
    BY DEF IInv, RightUnlessWillRun
  <2>2. QED
    BY <2>1 DEF RightFor, AsWanted, Owned
<1>2. QED
  BY <1>1, Invariance, PTL
=============================================================================
