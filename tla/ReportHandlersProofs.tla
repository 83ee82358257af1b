------------------------ MODULE ReportHandlersProofs ------------------------
(***************************************************************************)
(* Theorems about the report API on several replicas, for any number of    *)
(* replicas, reports and attempts: its types, that it implements the       *)
(* ledger, that status.erroredPods is exact, that every entry of           *)
(* nodeStatuses is explained by the reports recorded, and that the metric  *)
(* keeps to what was recorded.                                             *)
(***************************************************************************)
EXTENDS ReportHandlers, FiniteSetTheorems, TLAPS

----------------------------------------------------------------------------
\* The functions over the status.

\* A new profile has a well-formed status.
LEMMA NoReportsType == NoReports \in ReportedStatus
  BY DEF NoReports, ReportedStatus, NodeStatus, NodePhase, MaybeHash, NoEntry

\* Counting nodes gives a number.
LEMMA InPhaseFinite ==
  ASSUME NEW st, NEW phase
  PROVE  /\ IsFiniteSet(InPhase(st, phase))
         /\ Cardinality(InPhase(st, phase)) \in Nat
<1>1. InPhase(st, phase) \subseteq Nodes
  BY DEF InPhase
<1>. QED
  BY <1>1, NodesAssumption, FS_Subset, FS_CardinalityType

\* The counters are numbers.
LEMMA CountsType ==
  ASSUME NEW st \in ReportedStatus
  PROVE  recomputeCounts(st) \in ReportedStatus
<1>1. /\ Cardinality(InPhase(st, "Applied")) \in Nat
      /\ Cardinality(InPhase(st, "Failed")) \in Nat
  BY InPhaseFinite
<1>. QED
  BY <1>1 DEF recomputeCounts, ReportedStatus

\* The entry a report makes has the type of an entry.
LEMMA EntryType ==
  ASSUME NEW e \in NodeStatus, NEW hash \in Hashes
  PROVE  Succeeded(hash) \in NodeStatus /\ Failed(e) \in NodeStatus
  BY DEF Succeeded, Failed, NodeStatus, NodePhase, MaybeHash

\* Inserting or updating an entry keeps the type of the status.
LEMMA UpsertType ==
  ASSUME NEW st \in ReportedStatus, NEW q \in Requests
  PROVE  /\ upsertNodeStatus(st, q) \in ReportedStatus
         /\ upsertScriptNodeStatus(st, q) \in ReportedStatus
         /\ upsertNodeStatus(st, q).erroredPods =
               IF q.success THEN st.erroredPods ELSE st.erroredPods + 1
         /\ upsertScriptNodeStatus(st, q).erroredPods = st.erroredPods
<1> DEFINE old == st.nodeStatuses[q.node]
           With(e) == [st.nodeStatuses EXCEPT ![q.node] = e]
<1>1. q.node \in Nodes /\ q.hash \in Hashes /\ q.success \in BOOLEAN
  BY RequestsAssumption
<1>2. old \in NodeStatus
  BY <1>1 DEF ReportedStatus
<1>3. Succeeded(q.hash) \in NodeStatus /\ Failed(old) \in NodeStatus
  BY <1>1, <1>2, EntryType
<1>4. /\ With(Succeeded(q.hash)) \in [Nodes -> NodeStatus]
      /\ With(Failed(old)) \in [Nodes -> NodeStatus]
  BY <1>1, <1>3 DEF ReportedStatus
<1>5. st.erroredPods \in Nat
  BY DEF ReportedStatus
<1>6. CASE q.success
  <2>1. /\ upsertNodeStatus(st, q) = [st EXCEPT !.nodeStatuses = With(Succeeded(q.hash))]
        /\ upsertScriptNodeStatus(st, q) = [st EXCEPT !.nodeStatuses = With(Succeeded(q.hash))]
    BY <1>6 DEF upsertNodeStatus, upsertScriptNodeStatus
  <2>. HIDE DEF With
  <2>. QED  BY <1>4, <1>6, <2>1 DEF ReportedStatus
<1>7. CASE ~q.success
  <2>1. /\ upsertNodeStatus(st, q) = [st EXCEPT !.nodeStatuses = With(Failed(old)),
                                                !.erroredPods = @ + 1]
        /\ upsertScriptNodeStatus(st, q) = [st EXCEPT !.nodeStatuses = With(Failed(old))]
    BY <1>7 DEF upsertNodeStatus, upsertScriptNodeStatus
  <2>. HIDE DEF With, old
  <2>2. /\ upsertNodeStatus(st, q) \in ReportedStatus
        /\ upsertNodeStatus(st, q).erroredPods = st.erroredPods + 1
    <3> DEFINE errored == st.erroredPods + 1
    <3>1. upsertNodeStatus(st, q) = [st EXCEPT !.nodeStatuses = With(Failed(old)),
                                               !.erroredPods = errored]
      BY <2>1
    <3>2. errored \in Nat
      BY <1>5
    <3>. HIDE DEF errored
    <3>3. /\ upsertNodeStatus(st, q) \in ReportedStatus
          /\ upsertNodeStatus(st, q).erroredPods = errored
      BY <1>4, <3>1, <3>2 DEF ReportedStatus
    <3>. QED  BY <3>3 DEF errored
  <2>3. /\ upsertScriptNodeStatus(st, q) \in ReportedStatus
        /\ upsertScriptNodeStatus(st, q).erroredPods = st.erroredPods
    BY <1>4, <1>5, <2>1 DEF ReportedStatus
  <2>. QED  BY <1>7, <2>2, <2>3
<1>. QED
  BY <1>6, <1>7

\* Recording a report keeps the type of the status.
LEMMA RecordOnType ==
  ASSUME NEW st \in ReportedStatus, NEW q \in Requests
  PROVE  RecordOn(q.kind, st, q) \in ReportedStatus
  BY UpsertType, CountsType
     DEF RecordOn, Recorded, ScriptRecorded, recomputeScriptCounts

----------------------------------------------------------------------------
\* Types.

\* Initially the types are right.
LEMMA InitType == Init => TypeOK
<1>. SUFFICES ASSUME Init PROVE TypeOK
  OBVIOUS
<1>1. PICK K \in Existing :
        object = [k \in Kinds |->
                    IF k \in K THEN [version |-> 1, created |-> 1, status |-> NoReports]
                    ELSE None]
  BY DEF Init
<1>2. object \in [Kinds -> MaybeObject]
  BY <1>1, NoReportsType DEF MaybeObject, Object
<1>3. handler \in [Requests -> Handler]
  BY RequestsAssumption DEF Init, At, Handler, HandlerPC, MaybeObject
<1>4. \A q \in Requests : handler[q].pc = "sent"
  BY DEF Init, At
<1>5. /\ copies \in [Replicas -> [Kinds -> MaybeObject]]
      /\ revision \in [Kinds -> Nat]
      /\ counter \in [Replicas -> [Nodes -> Nat]]
  BY <1>2 DEF Init
<1>6. acceptedAt \in [Requests -> Nat] /\ moves \in 0 .. MaxMoves
  BY RequestsAssumption DEF Init
<1>7. uncounted \in BOOLEAN
  BY DEF Init
<1>. QED
  BY <1>2, <1>3, <1>4, <1>5, <1>6, <1>7 DEF TypeOK

\* A handler that is not serving is well formed.
LEMMA AtType ==
  ASSUME NEW step \in HandlerPC
  PROVE  At(step) \in Handler
  BY RequestsAssumption DEF At, Handler, MaybeObject

\* A write keeps the types of the API server's variables.
LEMMA WriteType ==
  ASSUME TypeOK, NEW k \in Kinds, NEW obj \in MaybeObject, Write(k, obj)
  PROVE  object' \in [Kinds -> MaybeObject] /\ revision' \in [Kinds -> Nat]
  BY DEF TypeOK, Write, NewVersion

\* So does a step of one handler.
LEMMA StepType ==
  ASSUME TypeOK, NEW q \in Requests, NEW h \in Handler, Step(q, h),
         h.pc \in {"get", "update", "count"} => h.replica \in Replicas,
         h.pc = "update" => h.copy # None
  PROVE  /\ handler' \in [Requests -> Handler]
         /\ \A p \in Requests :
              /\ handler'[p].pc \in {"get", "update", "count"} => handler'[p].replica \in Replicas
              /\ handler'[p].pc = "update" => handler'[p].copy # None
  BY DEF TypeOK, Step

\* One lemma per action: it keeps the types.
LEMMA ApiType ==
  ASSUME TypeOK, NEW k \in Kinds, Create(k) \/ Rewrite(k) \/ Delete(k)
  PROVE  TypeOK'
<1>1. revision[k] \in Nat /\ NewVersion(k) \in Nat /\ moves' \in 0 .. MaxMoves
  BY RequestsAssumption DEF TypeOK, NewVersion, Create, Rewrite, Delete, Move
<1>2. object' \in [Kinds -> MaybeObject] /\ revision' \in [Kinds -> Nat]
  <2>1. CASE Create(k)
    <3>1. [version |-> NewVersion(k), created |-> NewVersion(k), status |-> NoReports]
            \in MaybeObject
      BY <1>1, NoReportsType DEF MaybeObject, Object
    <3>. QED  BY <2>1, <3>1, WriteType DEF Create
  <2>2. CASE Rewrite(k)
    <3>1. [object[k] EXCEPT !.version = NewVersion(k)] \in MaybeObject
      BY <1>1, <2>2 DEF Rewrite, TypeOK, MaybeObject, Object
    <3>. QED  BY <2>2, <3>1, WriteType DEF Rewrite
  <2>3. CASE Delete(k)
    BY <2>3, WriteType DEF Delete, MaybeObject
  <2>. QED  BY <2>1, <2>2, <2>3
<1>3. UNCHANGED <<copies, handler, counter, acceptedAt, uncounted>>
  BY DEF Create, Rewrite, Delete
<1>. QED
  BY <1>1, <1>2, <1>3 DEF TypeOK

LEMMA SyncType ==
  ASSUME TypeOK, NEW r \in Replicas, NEW k \in Kinds, Sync(r, k)
  PROVE  TypeOK'
<1>1. copies' \in [Replicas -> [Kinds -> MaybeObject]]
  BY DEF TypeOK, Sync
<1>. QED
  BY <1>1 DEF TypeOK, Sync, apiVars

LEMMA RestartType ==
  ASSUME TypeOK, NEW r \in Replicas, Restart(r)
  PROVE  TypeOK'
<1>1. At("done") \in Handler
  BY AtType DEF HandlerPC
<1>2. /\ handler' \in [Requests -> Handler]
      /\ \A q \in Requests :
            /\ handler'[q].pc \in {"get", "update", "count"} => handler'[q].replica \in Replicas
            /\ handler'[q].pc = "update" => handler'[q].copy # None
  BY <1>1 DEF TypeOK, Restart, At
<1>3. /\ copies' \in [Replicas -> [Kinds -> MaybeObject]]
      /\ counter' \in [Replicas -> [Nodes -> Nat]]
  BY DEF TypeOK, Restart
<1>4. moves' \in 0 .. MaxMoves /\ uncounted' \in BOOLEAN
  BY RequestsAssumption DEF TypeOK, Restart, Move
<1>5. UNCHANGED <<object, revision, acceptedAt>>
  BY DEF Restart, apiVars
<1>. QED
  BY <1>2, <1>3, <1>4, <1>5 DEF TypeOK

LEMMA ReceiveType ==
  ASSUME TypeOK, NEW q \in Requests, NEW r \in Replicas, Receive(q, r)
  PROVE  TypeOK'
<1> DEFINE h == [handler[q] EXCEPT !.pc = "get", !.replica = r]
<1>1. h \in Handler /\ h.pc = "get" /\ h.replica = r /\ Step(q, h)
  BY DEF TypeOK, Receive, Handler, HandlerPC
<1>2. UNCHANGED <<object, revision, copies, counter, acceptedAt, moves, uncounted>>
  BY DEF Receive, apiVars
<1>3. /\ handler' \in [Requests -> Handler]
      /\ \A p \in Requests :
            /\ handler'[p].pc \in {"get", "update", "count"} => handler'[p].replica \in Replicas
            /\ handler'[p].pc = "update" => handler'[p].copy # None
  <2>. HIDE DEF h
  <2>. QED  BY <1>1, StepType
<1>. QED
  BY <1>2, <1>3 DEF TypeOK

LEMMA CounterType ==
  ASSUME TypeOK, NEW q \in Requests, NEW step, handler[q].replica \in Replicas,
         IncErrored(q, step)
  PROVE  counter' \in [Replicas -> [Nodes -> Nat]]
  BY RequestsAssumption DEF TypeOK, IncErrored

LEMMA GetType ==
  ASSUME TypeOK, NEW q \in Requests, Get(q)
  PROVE  TypeOK'
<1> DEFINE copy == copies[handler[q].replica][q.kind]
           h == IF copy = None THEN At("done")
                ELSE [handler[q] EXCEPT !.pc = "update", !.copy = copy]
<1>1. q.kind \in Kinds /\ handler[q] \in Handler /\ handler[q].replica \in Replicas
  BY RequestsAssumption DEF TypeOK, Get
<1>2. copy \in MaybeObject
  BY <1>1 DEF TypeOK
<1>3. At("done") \in Handler /\ At("done").pc = "done"
  BY AtType DEF HandlerPC, At
<1>4. /\ h \in Handler
      /\ h.pc \in {"get", "update", "count"} => h.replica \in Replicas
      /\ h.pc = "update" => h.copy # None
  <2>. HIDE DEF copy
  <2>. QED  BY <1>1, <1>2, <1>3 DEF Handler, HandlerPC
<1>5. Step(q, h)
  BY DEF Get
<1>6. /\ handler' \in [Requests -> Handler]
      /\ \A p \in Requests :
            /\ handler'[p].pc \in {"get", "update", "count"} => handler'[p].replica \in Replicas
            /\ handler'[p].pc = "update" => handler'[p].copy # None
  <2>. HIDE DEF h
  <2>. QED  BY <1>4, <1>5, StepType
<1>7. counter' \in [Replicas -> [Nodes -> Nat]]
  BY <1>1, CounterType DEF Get
<1>8. UNCHANGED <<object, revision, copies, acceptedAt, moves, uncounted>>
  BY DEF Get, apiVars
<1>. QED
  BY <1>6, <1>7, <1>8 DEF TypeOK

LEMMA AcceptedType ==
  ASSUME TypeOK, NEW q \in Requests, NEW answered \in BOOLEAN, UpdateAccepted(q, answered)
  PROVE  TypeOK'
<1> DEFINE obj == [version |-> NewVersion(q.kind), created |-> object[q.kind].created,
                   status |-> RecordOn(q.kind, handler[q].copy.status, q)]
           h == IF answered THEN [handler[q] EXCEPT !.pc = "count", !.copy = None]
                ELSE At("done")
<1>1. /\ q.kind \in Kinds
      /\ handler[q] \in Handler
      /\ handler[q].replica \in Replicas
      /\ handler[q].copy \in Object
      /\ object[q.kind] \in Object
      /\ NewVersion(q.kind) \in Nat
  BY RequestsAssumption
     DEF TypeOK, UpdateAccepted, SameVersion, Handler, MaybeObject, NewVersion
<1>2. RecordOn(q.kind, handler[q].copy.status, q) \in ReportedStatus
  BY <1>1, RecordOnType DEF Object
<1>3. obj \in MaybeObject
  BY <1>1, <1>2 DEF Object, MaybeObject
<1>4. object' \in [Kinds -> MaybeObject] /\ revision' \in [Kinds -> Nat]
  <2>1. Write(q.kind, obj)
    BY DEF UpdateAccepted
  <2>. HIDE DEF obj
  <2>. QED  BY <1>1, <1>3, <2>1, WriteType
<1>5. At("done") \in Handler /\ At("done").pc = "done"
  BY AtType DEF HandlerPC, At
<1>6. /\ h \in Handler
      /\ h.pc \in {"get", "update", "count"} => h.replica \in Replicas
      /\ h.pc # "update"
  BY <1>1, <1>5 DEF Handler, HandlerPC, MaybeObject
<1>7. /\ handler' \in [Requests -> Handler]
      /\ \A p \in Requests :
            /\ handler'[p].pc \in {"get", "update", "count"} => handler'[p].replica \in Replicas
            /\ handler'[p].pc = "update" => handler'[p].copy # None
  <2>1. Step(q, h)
    BY DEF UpdateAccepted
  <2>. HIDE DEF h
  <2>. QED  BY <1>6, <2>1, StepType
<1>8. acceptedAt' \in [Requests -> Nat]
  BY <1>1 DEF TypeOK, UpdateAccepted
<1>9. /\ moves' \in 0 .. MaxMoves
      /\ uncounted' \in BOOLEAN
      /\ UNCHANGED <<copies, counter>>
  <2>1. UNCHANGED <<copies, counter>>
    BY DEF UpdateAccepted
  <2>2. \/ UNCHANGED <<moves, uncounted>>
        \/ Move /\ uncounted' \in BOOLEAN
    BY DEF UpdateAccepted
  <2>3. moves' \in 0 .. MaxMoves
    BY <2>2, RequestsAssumption DEF TypeOK, Move
  <2>4. uncounted' \in BOOLEAN
    BY <2>2 DEF TypeOK
  <2>. QED  BY <2>1, <2>3, <2>4
<1>. QED
  BY <1>4, <1>7, <1>8, <1>9 DEF TypeOK

LEMMA RefusedType ==
  ASSUME TypeOK, NEW q \in Requests, UpdateRefused(q)
  PROVE  TypeOK'
<1> DEFINE h == IF object[q.kind] # None /\ RetriesLeft(handler[q].tries)
                THEN [handler[q] EXCEPT !.pc = "get", !.tries = @ + 1, !.copy = None]
                ELSE At("done")
<1>1. handler[q] \in Handler /\ handler[q].replica \in Replicas
  BY DEF TypeOK, UpdateRefused
<1>2. At("done") \in Handler /\ At("done").pc = "done"
  BY AtType DEF HandlerPC, At
<1>3. RetriesLeft(handler[q].tries) => handler[q].tries + 1 \in 0 .. MaxTries - 1
  BY <1>1, RequestsAssumption DEF RetriesLeft, Handler
<1>4. /\ h \in Handler
      /\ h.pc \in {"get", "update", "count"} => h.replica \in Replicas
      /\ h.pc # "update"
  BY <1>1, <1>2, <1>3 DEF Handler, HandlerPC, MaybeObject
<1>5. Step(q, h)
  BY DEF UpdateRefused
<1>6. /\ handler' \in [Requests -> Handler]
      /\ \A p \in Requests :
            /\ handler'[p].pc \in {"get", "update", "count"} => handler'[p].replica \in Replicas
            /\ handler'[p].pc = "update" => handler'[p].copy # None
  <2>. HIDE DEF h
  <2>. QED  BY <1>4, <1>5, StepType
<1>7. UNCHANGED <<object, revision, copies, counter, acceptedAt, moves, uncounted>>
  BY DEF UpdateRefused, apiVars
<1>. QED
  BY <1>6, <1>7 DEF TypeOK

LEMMA CountType ==
  ASSUME TypeOK, NEW q \in Requests, Count(q)
  PROVE  TypeOK'
<1>1. At("done") \in Handler /\ At("done").pc = "done"
  BY AtType DEF HandlerPC, At
<1>2. /\ handler' \in [Requests -> Handler]
      /\ \A p \in Requests :
            /\ handler'[p].pc \in {"get", "update", "count"} => handler'[p].replica \in Replicas
            /\ handler'[p].pc = "update" => handler'[p].copy # None
  BY <1>1, StepType DEF Count
<1>3. counter' \in [Replicas -> [Nodes -> Nat]]
  BY CounterType DEF Count, TypeOK
<1>4. UNCHANGED <<object, revision, copies, acceptedAt, moves, uncounted>>
  BY DEF Count, apiVars
<1>. QED
  BY <1>2, <1>3, <1>4 DEF TypeOK

LEMMA NextType == TypeOK /\ [Next]_vars => TypeOK'
<1>. SUFFICES ASSUME TypeOK, [Next]_vars PROVE TypeOK'
  OBVIOUS
<1>1. CASE \E k \in Kinds : Create(k) \/ Rewrite(k) \/ Delete(k)
  BY <1>1, ApiType
<1>2. CASE \E r \in Replicas, k \in Kinds : Sync(r, k)
  BY <1>2, SyncType
<1>3. CASE \E r \in Replicas : Restart(r)
  BY <1>3, RestartType
<1>4. CASE \E q \in Requests, r \in Replicas : Receive(q, r)
  BY <1>4, ReceiveType
<1>5. CASE \E q \in Requests, answered \in BOOLEAN : UpdateAccepted(q, answered)
  BY <1>5, AcceptedType
<1>6. CASE \E q \in Requests : Get(q) \/ UpdateRefused(q) \/ Count(q)
  BY <1>6, GetType, RefusedType, CountType
<1>7. CASE UNCHANGED vars
  BY <1>7 DEF vars, apiVars, TypeOK
<1>. QED
  BY <1>1, <1>2, <1>3, <1>4, <1>5, <1>6, <1>7 DEF Next, handleReport

\* Every variable keeps its type, and no report is attempted more than
\* MaxTries times, whatever the interleaving of replicas.
THEOREM HandlersTypeCorrect == Spec => []TypeOK
  BY InitType, NextType, PTL DEF Spec

----------------------------------------------------------------------------
\* Versions.

\* A copy of an object is no newer than its last version, and is the object if
\* it has its version.
Current(c, obj, last) ==
  c # None =>
    /\ c.version <= last
    /\ obj # None /\ obj.version = c.version => c = obj

VersionInv ==
  /\ \A k \in Kinds : object[k] # None => object[k].version <= revision[k]
  /\ \A r \in Replicas, k \in Kinds : Current(copies[r][k], object[k], revision[k])
  /\ \A q \in Requests : Current(handler[q].copy, object[q.kind], revision[q.kind])

\* A write leaves every copy behind.
LEMMA WriteOutdates ==
  ASSUME TypeOK, VersionInv, NEW k \in Kinds, NEW obj \in MaybeObject, Write(k, obj),
         obj # None => obj.version = NewVersion(k)
  PROVE  /\ \A l \in Kinds : object'[l] # None => object'[l].version <= revision'[l]
         /\ \A r \in Replicas, l \in Kinds : Current(copies[r][l], object'[l], revision'[l])
         /\ \A q \in Requests :
               Current(handler[q].copy, object'[q.kind], revision'[q.kind])
<1>1. /\ revision[k] \in Nat
      /\ object'[k] = obj
      /\ revision'[k] = revision[k] + 1
      /\ \A l \in Kinds \ {k} : object'[l] = object[l] /\ revision'[l] = revision[l]
  BY DEF TypeOK, Write, NewVersion
<1>2. ASSUME NEW c \in MaybeObject, NEW l \in Kinds, Current(c, object[l], revision[l])
      PROVE  Current(c, object'[l], revision'[l])
  <2>1. CASE l = k
    <3>1. c # None => c.version \in Nat
      BY DEF MaybeObject, Object
    <3>. QED  BY <1>1, <1>2, <2>1, <3>1 DEF Current, NewVersion
  <2>2. CASE l # k
    BY <1>1, <1>2, <2>2
  <2>. QED  BY <2>1, <2>2
<1>3. \A l \in Kinds : object'[l] # None => object'[l].version <= revision'[l]
  BY <1>1 DEF VersionInv, NewVersion
<1>4. \A r \in Replicas, l \in Kinds : copies[r][l] \in MaybeObject
  BY DEF TypeOK
<1>5. \A q \in Requests : handler[q].copy \in MaybeObject /\ q.kind \in Kinds
  BY RequestsAssumption DEF TypeOK, Handler
<1>. QED
  BY <1>2, <1>3, <1>4, <1>5 DEF VersionInv

\* Initially every copy is the object.
LEMMA InitVersion == Init => VersionInv
<1>. SUFFICES ASSUME Init PROVE VersionInv
  OBVIOUS
<1>1. PICK K \in Existing :
        object = [k \in Kinds |->
                    IF k \in K THEN [version |-> 1, created |-> 1, status |-> NoReports]
                    ELSE None]
  BY DEF Init
<1>2. \A k \in Kinds : object[k] # None => object[k].version = 1
  BY <1>1
<1>3. /\ \A k \in Kinds : revision[k] = 1
      /\ \A r \in Replicas : copies[r] = object
      /\ \A q \in Requests : handler[q].copy = None
  BY DEF Init, At
<1>. QED
  BY <1>2, <1>3 DEF VersionInv, Current

\* Steps that write no object and give handlers only copies their replicas
\* have.
LEMMA KeepVersions ==
  ASSUME TypeOK, VersionInv, UNCHANGED <<object, revision, copies>>,
         \A q \in Requests :
            \/ handler'[q].copy \in {handler[q].copy, None}
            \/ \E r \in Replicas : handler'[q].copy = copies[r][q.kind]
  PROVE  VersionInv'
<1>1. \A q \in Requests : q.kind \in Kinds
  BY RequestsAssumption
<1>2. ASSUME NEW q \in Requests
      PROVE  Current(handler'[q].copy, object[q.kind], revision[q.kind])
  BY <1>1 DEF VersionInv, Current
<1>. QED
  BY <1>2 DEF VersionInv

\* One lemma per kind of step: copies stay current or become outdated.
LEMMA ApiVersion ==
  ASSUME TypeOK, VersionInv, NEW k \in Kinds, Create(k) \/ Rewrite(k) \/ Delete(k)
  PROVE  VersionInv'
<1>1. UNCHANGED <<copies, handler>>
  BY DEF Create, Rewrite, Delete
<1>2. PICK obj \in MaybeObject :
         Write(k, obj) /\ (obj # None => obj.version = NewVersion(k))
  <2>1. NewVersion(k) \in Nat
    BY DEF TypeOK, NewVersion
  <2>2. CASE Create(k)
    <3> DEFINE new == [version |-> NewVersion(k), created |-> NewVersion(k),
                       status |-> NoReports]
    <3>1. new \in MaybeObject /\ new.version = NewVersion(k) /\ Write(k, new)
      BY <2>1, <2>2, NoReportsType DEF MaybeObject, Object, Create
    <3>. QED  BY <3>1
  <2>3. CASE Rewrite(k)
    <3> DEFINE new == [object[k] EXCEPT !.version = NewVersion(k)]
    <3>1. new \in MaybeObject /\ new.version = NewVersion(k) /\ Write(k, new)
      BY <2>1, <2>3 DEF TypeOK, MaybeObject, Object, Rewrite
    <3>. QED  BY <3>1
  <2>4. CASE Delete(k)
    BY <2>4 DEF Delete, MaybeObject
  <2>. QED  BY <2>2, <2>3, <2>4
<1>. QED
  BY <1>1, <1>2, WriteOutdates DEF VersionInv

LEMMA SyncVersion ==
  ASSUME TypeOK, VersionInv, NEW r \in Replicas, NEW k \in Kinds, Sync(r, k)
  PROVE  VersionInv'
<1>1. UNCHANGED <<object, revision, handler>>
  BY DEF Sync, apiVars
<1>2. Current(object[k], object[k], revision[k])
  BY DEF VersionInv, Current
<1>3. \A s \in Replicas, l \in Kinds : Current(copies'[s][l], object[l], revision[l])
  BY <1>2 DEF TypeOK, VersionInv, Sync
<1>. QED
  BY <1>1, <1>3 DEF VersionInv

LEMMA RestartVersion ==
  ASSUME TypeOK, VersionInv, NEW r \in Replicas, Restart(r)
  PROVE  VersionInv'
<1>1. UNCHANGED <<object, revision>>
  BY DEF Restart, apiVars
<1>2. \A k \in Kinds : Current(object[k], object[k], revision[k])
  BY DEF VersionInv, Current
<1>3. \A s \in Replicas, l \in Kinds : Current(copies'[s][l], object[l], revision[l])
  BY <1>2 DEF TypeOK, VersionInv, Restart
<1>4. \A q \in Requests : handler'[q].copy \in {handler[q].copy, None}
  BY DEF Restart, At
<1>5. \A q \in Requests : Current(handler'[q].copy, object[q.kind], revision[q.kind])
  BY <1>4 DEF VersionInv, Current
<1>. QED
  BY <1>1, <1>3, <1>5 DEF VersionInv

LEMMA AcceptedVersion ==
  ASSUME TypeOK, VersionInv, NEW q \in Requests, NEW answered \in BOOLEAN,
         UpdateAccepted(q, answered)
  PROVE  VersionInv'
<1> DEFINE obj == [version |-> NewVersion(q.kind), created |-> object[q.kind].created,
                   status |-> RecordOn(q.kind, handler[q].copy.status, q)]
<1>1. /\ q.kind \in Kinds
      /\ handler[q].copy \in Object
      /\ object[q.kind] \in Object
      /\ NewVersion(q.kind) \in Nat
  BY RequestsAssumption
     DEF TypeOK, UpdateAccepted, SameVersion, Handler, MaybeObject, NewVersion
<1>2. RecordOn(q.kind, handler[q].copy.status, q) \in ReportedStatus
  BY <1>1, RecordOnType DEF Object
<1>3. obj \in MaybeObject /\ obj.version = NewVersion(q.kind) /\ Write(q.kind, obj)
  BY <1>1, <1>2 DEF Object, MaybeObject, UpdateAccepted
<1>4. /\ \A l \in Kinds : object'[l] # None => object'[l].version <= revision'[l]
      /\ \A r \in Replicas, l \in Kinds : Current(copies[r][l], object'[l], revision'[l])
      /\ \A p \in Requests : Current(handler[p].copy, object'[p.kind], revision'[p.kind])
  <2>. HIDE DEF obj
  <2>. QED  BY <1>1, <1>3, WriteOutdates
<1>5. \A p \in Requests : handler'[p].copy \in {handler[p].copy, None}
  BY DEF TypeOK, UpdateAccepted, Step, At, Handler
<1>6. \A p \in Requests : Current(handler'[p].copy, object'[p.kind], revision'[p.kind])
  BY <1>4, <1>5 DEF Current
<1>7. UNCHANGED copies
  BY DEF UpdateAccepted
<1>. QED
  BY <1>4, <1>6, <1>7 DEF VersionInv

LEMMA HandlerVersion ==
  ASSUME TypeOK, VersionInv, NEW q \in Requests,
         \/ \E r \in Replicas : Receive(q, r)
         \/ Get(q) \/ UpdateRefused(q) \/ Count(q)
  PROVE  VersionInv'
<1>1. UNCHANGED <<object, revision, copies>>
  BY DEF Receive, Get, UpdateRefused, Count, apiVars
<1>2. \A p \in Requests \ {q} : handler'[p] = handler[p]
  BY DEF TypeOK, Receive, Get, UpdateRefused, Count, Step
<1>3. \/ handler'[q].copy \in {handler[q].copy, None}
      \/ \E r \in Replicas : handler'[q].copy = copies[r][q.kind]
  <2>1. handler[q] \in Handler
    BY DEF TypeOK
  <2>2. CASE \E r \in Replicas : Receive(q, r)
    <3>1. PICK r \in Replicas :
              handler' = [handler EXCEPT ![q] = [handler[q] EXCEPT !.pc = "get", !.replica = r]]
      BY <2>2 DEF Receive, Step
    <3>2. handler'[q] = [handler[q] EXCEPT !.pc = "get", !.replica = r]
      BY <3>1 DEF TypeOK
    <3>. QED  BY <2>1, <3>2 DEF Handler
  <2>3. CASE Get(q)
    <3>1. handler[q].replica \in Replicas
      BY <2>3 DEF TypeOK, Get
    <3>. QED  BY <2>1, <2>3, <3>1 DEF TypeOK, Get, Step, At, Handler
  <2>4. CASE UpdateRefused(q)
    <3>1. \/ Step(q, [handler[q] EXCEPT !.pc = "get", !.tries = @ + 1, !.copy = None])
          \/ Step(q, At("done"))
      BY <2>4 DEF UpdateRefused
    <3>2. \/ handler'[q] = [handler[q] EXCEPT !.pc = "get", !.tries = @ + 1, !.copy = None]
          \/ handler'[q] = At("done")
      BY <3>1 DEF TypeOK, Step
    <3>3. handler'[q].copy = None
      <4>1. CASE handler'[q] = At("done")
        BY <4>1 DEF At
      <4>2. CASE handler'[q] = [handler[q] EXCEPT !.pc = "get", !.tries = @ + 1, !.copy = None]
        BY <2>1, <4>2 DEF Handler
      <4>. QED  BY <3>2, <4>1, <4>2
    <3>. QED  BY <3>3
  <2>5. CASE Count(q)
    BY <2>5 DEF TypeOK, Count, Step, At
  <2>. QED  BY <2>2, <2>3, <2>4, <2>5
<1>. QED
  BY <1>1, <1>2, <1>3, KeepVersions

LEMMA NextVersion == TypeOK /\ VersionInv /\ [Next]_vars => VersionInv'
<1>. SUFFICES ASSUME TypeOK, VersionInv, [Next]_vars PROVE VersionInv'
  OBVIOUS
<1>1. CASE \E k \in Kinds : Create(k) \/ Rewrite(k) \/ Delete(k)
  BY <1>1, ApiVersion
<1>2. CASE \E r \in Replicas, k \in Kinds : Sync(r, k)
  BY <1>2, SyncVersion
<1>3. CASE \E r \in Replicas : Restart(r)
  BY <1>3, RestartVersion
<1>4. CASE \E q \in Requests, answered \in BOOLEAN : UpdateAccepted(q, answered)
  BY <1>4, AcceptedVersion
<1>5. CASE \E q \in Requests :
             (\E r \in Replicas : Receive(q, r)) \/ Get(q) \/ UpdateRefused(q) \/ Count(q)
  BY <1>5, HandlerVersion
<1>6. CASE UNCHANGED vars
  BY <1>6 DEF vars, apiVars, VersionInv
<1>. QED
  BY <1>1, <1>2, <1>3, <1>4, <1>5, <1>6 DEF Next, handleReport

\* No cached or working copy is mistaken for the present object: an update is
\* accepted only from what the object is.
THEOREM VersionCorrect == Spec => [](TypeOK /\ VersionInv)
  BY InitType, NextType, InitVersion, NextVersion, PTL DEF Spec

----------------------------------------------------------------------------
\* The refinement.

\* The ledger computes with the same functions.
LEMMA SameOperators ==
  /\ Ledger!Kinds = Kinds
  /\ Ledger!NoReports = NoReports
  /\ \A k, st, q : Ledger!RecordOn(k, st, q) = RecordOn(k, st, q)
<1>1. Ledger!Kinds = Kinds
  BY DEF Ledger!Kinds, Kinds
<1>2. Ledger!NoReports = NoReports
  BY DEF Ledger!NoReports, NoReports, Ledger!NoEntry, NoEntry
<1>3. \A st, phase : Ledger!InPhase(st, phase) = InPhase(st, phase)
  BY DEF Ledger!InPhase, InPhase
<1>4. \A S : Ledger!Cardinality(S) = Cardinality(S)
  BY DEF Ledger!Cardinality, Cardinality
<1>5. \A st : Ledger!recomputeCounts(st) = recomputeCounts(st)
  BY <1>3, <1>4 DEF Ledger!recomputeCounts, recomputeCounts
<1>6. \A hash, entry : /\ Ledger!Succeeded(hash) = Succeeded(hash)
                       /\ Ledger!Failed(entry) = Failed(entry)
  BY DEF Ledger!Succeeded, Succeeded, Ledger!Failed, Failed
<1>7. \A st, q : Ledger!upsertNodeStatus(st, q) = upsertNodeStatus(st, q)
  BY <1>6 DEF Ledger!upsertNodeStatus, upsertNodeStatus
<1>8. \A st, q : Ledger!upsertScriptNodeStatus(st, q) = upsertScriptNodeStatus(st, q)
  BY <1>6 DEF Ledger!upsertScriptNodeStatus, upsertScriptNodeStatus
<1>9. \A k, st, q : Ledger!RecordOn(k, st, q) = RecordOn(k, st, q)
  BY <1>5, <1>7, <1>8
     DEF Ledger!RecordOn, RecordOn, Ledger!Recorded, Recorded,
         Ledger!ScriptRecorded, ScriptRecorded,
         Ledger!recomputeScriptCounts, recomputeScriptCounts
<1>. QED
  BY <1>1, <1>2, <1>9

\* The abstract state.
LedgerOf == [k \in Kinds |-> IF object[k] = None THEN None ELSE object[k].status]
OpenNow == {q \in Requests : handler[q].pc \in {"sent", "get", "update"}}

\* Initial states map to initial states.
LEMMA InitLedger == Init => Ledger!LedgerInit
<1>. SUFFICES ASSUME Init PROVE Ledger!LedgerInit
  OBVIOUS
<1>1. PICK K \in Existing :
        object = [k \in Kinds |->
                    IF k \in K THEN [version |-> 1, created |-> 1, status |-> NoReports]
                    ELSE None]
  BY DEF Init
<1>2. \A k \in Kinds : object[k] # None => object[k].status = NoReports
  BY <1>1
<1>3. LedgerOf \in [Kinds -> {None, NoReports}]
  BY <1>2 DEF LedgerOf
<1>4. OpenNow = Requests
  BY DEF Init, At, OpenNow
<1>. QED
  BY <1>3, <1>4, SameOperators DEF Ledger!LedgerInit, LedgerOf, OpenNow

\* A step that records nothing and closes no profile: reports may be discarded.
LEMMA DiscardStep ==
  ASSUME LedgerOf' = LedgerOf, OpenNow' \subseteq OpenNow
  PROVE  Ledger!LedgerNext
<1>1. PICK Q \in SUBSET OpenNow : OpenNow' = OpenNow \ Q
  <2>1. OpenNow' = OpenNow \ (OpenNow \ OpenNow')
    OBVIOUS
  <2>. QED  BY <2>1
<1>2. Ledger!Discard(Q)
  BY <1>1 DEF Ledger!Discard, LedgerOf, OpenNow
<1>. QED
  BY <1>1, <1>2 DEF Ledger!LedgerNext, OpenNow

\* Writing the status and nothing else is the abstract write.
LEMMA WriteLedger ==
  ASSUME TypeOK, NEW k \in Kinds, NEW obj \in MaybeObject, Write(k, obj)
  PROVE  LedgerOf' = [LedgerOf EXCEPT ![k] = IF obj = None THEN None ELSE obj.status]
<1>1. \A l \in Kinds : object'[l] = IF l = k THEN obj ELSE object[l]
  BY DEF TypeOK, Write
<1>. QED
  BY <1>1 DEF LedgerOf

\* One lemma per kind of step: it is a step of the ledger.
LEMMA CreateLedger ==
  ASSUME TypeOK, NEW k \in Kinds, Create(k)
  PROVE  Ledger!LedgerNext
<1> DEFINE new == [version |-> NewVersion(k), created |-> NewVersion(k), status |-> NoReports]
<1>1. NewVersion(k) \in Nat
  BY DEF TypeOK, NewVersion
<1>2. new \in Object /\ new.status = NoReports /\ Write(k, new) /\ object[k] = None
  BY <1>1, NoReportsType DEF Object, Create
<1>3. LedgerOf' = [LedgerOf EXCEPT ![k] = NoReports]
  <2>. HIDE DEF new
  <2>. QED  BY <1>2, WriteLedger, NoObjectAssumption DEF MaybeObject
<1>4. LedgerOf[k] = None /\ OpenNow' = OpenNow
  BY <1>2 DEF LedgerOf, OpenNow, Create
<1>5. Ledger!Open(k)
  BY <1>3, <1>4, SameOperators DEF Ledger!Open, LedgerOf, OpenNow
<1>. QED
  BY <1>5, SameOperators DEF Ledger!LedgerNext

LEMMA DeleteLedger ==
  ASSUME TypeOK, NEW k \in Kinds, Delete(k)
  PROVE  Ledger!LedgerNext
<1>1. LedgerOf' = [LedgerOf EXCEPT ![k] = None]
  BY WriteLedger DEF Delete, MaybeObject
<1>2. OpenNow' = OpenNow
  BY DEF OpenNow, Delete
<1>3. Ledger!Close(k)
  BY <1>1, <1>2 DEF Ledger!Close, LedgerOf, OpenNow
<1>. QED
  BY <1>3, SameOperators DEF Ledger!LedgerNext

LEMMA RewriteLedger ==
  ASSUME TypeOK, NEW k \in Kinds, Rewrite(k)
  PROVE  Ledger!LedgerNext
<1> DEFINE new == [object[k] EXCEPT !.version = NewVersion(k)]
<1>1. object[k] \in Object /\ NewVersion(k) \in Nat
  BY DEF TypeOK, MaybeObject, Rewrite, NewVersion
<1>2. new \in Object /\ new.status = object[k].status /\ Write(k, new)
  BY <1>1 DEF Object, Rewrite
<1>3. LedgerOf' = [LedgerOf EXCEPT ![k] = object[k].status]
  <2>. HIDE DEF new
  <2>. QED  BY <1>2, WriteLedger, NoObjectAssumption DEF MaybeObject
<1>4. LedgerOf' = LedgerOf
  BY <1>1, <1>3, NoObjectAssumption DEF LedgerOf
<1>5. OpenNow' = OpenNow
  BY DEF OpenNow, Rewrite
<1>. QED
  BY <1>4, <1>5, DiscardStep

LEMMA AcceptedLedger ==
  ASSUME TypeOK, VersionInv, NEW q \in Requests, NEW answered \in BOOLEAN,
         UpdateAccepted(q, answered)
  PROVE  Ledger!LedgerNext
<1> DEFINE recorded == RecordOn(q.kind, object[q.kind].status, q)
           new == [version |-> NewVersion(q.kind), created |-> object[q.kind].created,
                   status |-> recorded]
<1>1. /\ q.kind \in Kinds
      /\ object[q.kind] \in Object
      /\ NewVersion(q.kind) \in Nat
      /\ handler[q].copy \in Object
      /\ handler[q].copy.version = object[q.kind].version
  BY RequestsAssumption
     DEF TypeOK, UpdateAccepted, SameVersion, Handler, MaybeObject, NewVersion
\* The crux: an accepted update was made from the object as it is.
<1>2. handler[q].copy = object[q.kind]
  BY <1>1, NoObjectAssumption DEF VersionInv, Current
<1>3. recorded \in ReportedStatus
  BY <1>1, RecordOnType DEF Object
<1>4. new \in Object /\ new.status = recorded /\ Write(q.kind, new)
  BY <1>1, <1>2, <1>3 DEF Object, UpdateAccepted
<1>5. LedgerOf' = [LedgerOf EXCEPT ![q.kind] = recorded]
  <2>. HIDE DEF new, recorded
  <2>. QED  BY <1>1, <1>4, WriteLedger, NoObjectAssumption DEF MaybeObject
<1>6. LedgerOf[q.kind] = object[q.kind].status /\ LedgerOf[q.kind] # None
  <2>1. object[q.kind].status \in ReportedStatus
    BY <1>1 DEF Object
  <2>2. object[q.kind].status # None
    BY <2>1, NoStatusAssumption
  <2>. QED  BY <1>1, <2>2, NoObjectAssumption DEF LedgerOf
<1>7. q \in OpenNow /\ OpenNow' = OpenNow \ {q}
  <2>1. handler'[q].pc \in {"count", "done"}
    BY DEF TypeOK, UpdateAccepted, Step, At, Handler
  <2>2. \A p \in Requests \ {q} : handler'[p] = handler[p]
    BY DEF TypeOK, UpdateAccepted, Step
  <2>. QED  BY <2>1, <2>2 DEF OpenNow, UpdateAccepted
<1>8. Ledger!Record(q)
  BY <1>5, <1>6, <1>7, SameOperators DEF Ledger!Record, LedgerOf, OpenNow
<1>. QED
  BY <1>7, <1>8 DEF Ledger!LedgerNext, OpenNow

\* No step but the acceptance of an update opens or closes a report otherwise
\* than by giving it up.
LEMMA OpenShrinks ==
  ASSUME TypeOK,
         \/ \E r \in Replicas, k \in Kinds : Sync(r, k)
         \/ \E r \in Replicas : Restart(r)
         \/ \E q \in Requests, r \in Replicas : Receive(q, r)
         \/ \E q \in Requests : Get(q) \/ UpdateRefused(q) \/ Count(q)
         \/ UNCHANGED vars
  PROVE  OpenNow' \subseteq OpenNow
<1>1. CASE (\E r \in Replicas, k \in Kinds : Sync(r, k)) \/ UNCHANGED vars
  BY <1>1 DEF Sync, vars, OpenNow
<1>2. CASE \E r \in Replicas : Restart(r)
  BY <1>2 DEF Restart, At, OpenNow
<1>3. CASE \E q \in Requests, r \in Replicas : Receive(q, r)
  BY <1>3 DEF TypeOK, Receive, Step, OpenNow
<1>4. CASE \E q \in Requests : Get(q) \/ UpdateRefused(q) \/ Count(q)
  <2>1. PICK q \in Requests : Get(q) \/ UpdateRefused(q) \/ Count(q)
    BY <1>4
  <2>2. \A p \in Requests \ {q} : handler'[p] = handler[p]
    BY <2>1 DEF TypeOK, Get, UpdateRefused, Count, Step
  <2>3. CASE Get(q) \/ UpdateRefused(q)
    BY <2>2, <2>3 DEF Get, UpdateRefused, OpenNow
  <2>4. CASE Count(q)
    <3>1. handler'[q].pc = "done"
      BY <2>4 DEF TypeOK, Count, Step, At
    <3>. QED  BY <2>2, <3>1 DEF OpenNow
  <2>. QED  BY <2>1, <2>3, <2>4
<1>. QED  BY <1>1, <1>2, <1>3, <1>4

\* Every other step leaves the objects alone and opens no report again.
LEMMA OtherLedger ==
  ASSUME TypeOK,
         \/ \E r \in Replicas, k \in Kinds : Sync(r, k)
         \/ \E r \in Replicas : Restart(r)
         \/ \E q \in Requests, r \in Replicas : Receive(q, r)
         \/ \E q \in Requests : Get(q) \/ UpdateRefused(q) \/ Count(q)
         \/ UNCHANGED vars
  PROVE  Ledger!LedgerNext
<1>1. object' = object
  BY DEF Sync, Restart, Receive, Get, UpdateRefused, Count, apiVars, vars
<1>2. LedgerOf' = LedgerOf
  BY <1>1 DEF LedgerOf
<1>3. OpenNow' \subseteq OpenNow
  BY OpenShrinks
<1>. QED
  BY <1>2, <1>3, DiscardStep

LEMMA NextLedger == TypeOK /\ VersionInv /\ [Next]_vars => Ledger!LedgerNext
<1>. SUFFICES ASSUME TypeOK, VersionInv, [Next]_vars PROVE Ledger!LedgerNext
  OBVIOUS
<1>1. CASE \E k \in Kinds : Create(k) \/ Rewrite(k) \/ Delete(k)
  BY <1>1, CreateLedger, RewriteLedger, DeleteLedger
<1>2. CASE \E q \in Requests, answered \in BOOLEAN : UpdateAccepted(q, answered)
  BY <1>2, AcceptedLedger
<1>3. CASE \/ \E r \in Replicas, k \in Kinds : Sync(r, k)
           \/ \E r \in Replicas : Restart(r)
           \/ \E q \in Requests, r \in Replicas : Receive(q, r)
           \/ \E q \in Requests : Get(q) \/ UpdateRefused(q) \/ Count(q)
           \/ UNCHANGED vars
  BY <1>3, OtherLedger
<1>. QED
  BY <1>1, <1>2, <1>3 DEF Next, handleReport

\* The handlers of any number of replicas implement the ledger: every report
\* takes effect atomically, once or not at all.
THEOREM LedgerImplemented == Spec => ImplementsLedger
<1>1. TypeOK /\ VersionInv /\ [Next]_vars => [Ledger!LedgerNext]_<<LedgerOf, OpenNow>>
  BY NextLedger
<1>2. Init => Ledger!LedgerInit
  BY InitLedger
<1>. QED
  BY <1>1, <1>2, VersionCorrect, PTL
     DEF Spec, ImplementsLedger, Ledger!LedgerSpec, LedgerOf, OpenNow

----------------------------------------------------------------------------
\* erroredPods.

\* Reports that are still open are not recorded, and what is recorded is no
\* newer than the last version.
AcceptInv ==
  /\ \A q \in Requests : acceptedAt[q] <= revision[q.kind]
  /\ \A q \in OpenNow : acceptedAt[q] = 0
  /\ \A k \in Kinds : object[k] # None =>
        1 <= object[k].created /\ object[k].created <= revision[k]

FailuresOn(k) == {q \in RecordedOn(k) : ~q.success}

\* There are finitely many reports.
LEMMA FailuresFinite ==
  \A k \in Kinds : IsFiniteSet(FailuresOn(k)) /\ Cardinality(FailuresOn(k)) \in Nat
<1>. SUFFICES ASSUME NEW k \in Kinds
              PROVE  IsFiniteSet(FailuresOn(k)) /\ Cardinality(FailuresOn(k)) \in Nat
  OBVIOUS
<1>1. FailuresOn(k) \subseteq Requests
  BY DEF FailuresOn, RecordedOn
<1>. QED
  BY <1>1, RequestsAssumption, FS_Subset, FS_CardinalityType

\* A failed report adds one to the erroredPods of a SysctlProfile, and nothing
\* else changes it.
LEMMA RecordOnErrored ==
  ASSUME NEW st \in ReportedStatus, NEW q \in Requests
  PROVE  /\ q.kind = "SysctlProfile" /\ ~q.success =>
               RecordOn(q.kind, st, q).erroredPods = st.erroredPods + 1
         /\ q.kind = "ScriptProfile" \/ q.success =>
               RecordOn(q.kind, st, q).erroredPods = st.erroredPods
<1>1. ASSUME NEW u \in ReportedStatus
      PROVE  recomputeCounts(u).erroredPods = u.erroredPods
  BY DEF recomputeCounts, ReportedStatus
<1>2. q.kind \in Kinds
  BY RequestsAssumption
<1>3. CASE q.kind = "ScriptProfile"
  BY <1>1, <1>3, UpsertType DEF RecordOn, ScriptRecorded, recomputeScriptCounts
<1>4. CASE q.kind = "SysctlProfile"
  <2>1. RecordOn(q.kind, st, q).erroredPods = upsertNodeStatus(st, q).erroredPods
    BY <1>1, <1>4, UpsertType DEF RecordOn, Recorded
  <2>2. upsertNodeStatus(st, q).erroredPods =
           IF q.success THEN st.erroredPods ELSE st.erroredPods + 1
    BY UpsertType
  <2>. QED  BY <1>4, <2>1, <2>2
<1>. QED
  BY <1>2, <1>3, <1>4 DEF Kinds

\* Initially nothing is recorded.
LEMMA InitAccept == Init => AcceptInv /\ ErroredPodsExact
<1>. SUFFICES ASSUME Init PROVE AcceptInv /\ ErroredPodsExact
  OBVIOUS
<1>1. PICK K \in Existing :
        object = [k \in Kinds |->
                    IF k \in K THEN [version |-> 1, created |-> 1, status |-> NoReports]
                    ELSE None]
  BY DEF Init
<1>2. \A k \in Kinds : object[k] # None => object[k].created = 1 /\ object[k].status = NoReports
  BY <1>1
<1>3. /\ \A k \in Kinds : revision[k] = 1
      /\ \A q \in Requests : acceptedAt[q] = 0
      /\ \A q \in Requests : q.kind \in Kinds
  BY RequestsAssumption DEF Init
<1>4. AcceptInv
  BY <1>2, <1>3 DEF AcceptInv, OpenNow
<1>5. ErroredPodsExact
  <2>. SUFFICES ASSUME NEW k \in Kinds, object[k] # None
                PROVE  object[k].status.erroredPods =
                         IF k = "SysctlProfile" THEN Cardinality(FailuresOn(k)) ELSE 0
    BY DEF ErroredPodsExact, FailuresOn
  <2>1. FailuresOn(k) = {}
    BY <1>2, <1>3 DEF FailuresOn, RecordedOn
  <2>2. Cardinality(FailuresOn(k)) = 0
    BY <2>1, FS_EmptySet
  <2>3. object[k].status.erroredPods = 0
    BY <1>2 DEF NoReports
  <2>. QED  BY <2>2, <2>3
<1>. QED
  BY <1>4, <1>5

\* Steps that record nothing and write no object.
LEMMA KeepAccept ==
  ASSUME AcceptInv, ErroredPodsExact, UNCHANGED <<object, revision, acceptedAt>>,
         OpenNow' \subseteq OpenNow
  PROVE  AcceptInv' /\ ErroredPodsExact'
<1>1. AcceptInv'
  BY DEF AcceptInv
<1>2. ErroredPodsExact'
  BY DEF ErroredPodsExact, RecordedOn
<1>. QED
  BY <1>1, <1>2

\* A profile that is created starts with no failures; other writes of users and
\* controllers leave what is recorded alone.
LEMMA ApiAccept ==
  ASSUME TypeOK, AcceptInv, ErroredPodsExact, NEW k \in Kinds,
         Create(k) \/ Rewrite(k) \/ Delete(k)
  PROVE  AcceptInv' /\ ErroredPodsExact'
<1>1. /\ revision'[k] = revision[k] + 1
      /\ revision[k] \in Nat
      /\ \A l \in Kinds \ {k} : object'[l] = object[l] /\ revision'[l] = revision[l]
      /\ \A l \in Kinds : revision[l] \in Nat
  BY DEF TypeOK, Create, Rewrite, Delete, Write, NewVersion
<1>2. UNCHANGED <<handler, acceptedAt>>
  BY DEF Create, Rewrite, Delete
<1>3. \A q \in Requests : acceptedAt[q] \in Nat /\ q.kind \in Kinds
  BY RequestsAssumption DEF TypeOK
<1>4. \/ object'[k] = None
      \/ /\ object'[k].created = revision[k] + 1
         /\ object'[k].status = NoReports
      \/ /\ object[k] \in Object
         /\ object'[k].created = object[k].created
         /\ object'[k].status = object[k].status
  <2>1. CASE Create(k)
    BY <2>1 DEF TypeOK, Create, Write, NewVersion
  <2>2. CASE Rewrite(k)
    <3>1. object[k] \in Object
      BY <2>2 DEF TypeOK, MaybeObject, Rewrite
    <3>2. object'[k] = [object[k] EXCEPT !.version = NewVersion(k)]
      BY <2>2 DEF TypeOK, Rewrite, Write
    <3>. QED  BY <3>1, <3>2 DEF Object
  <2>3. CASE Delete(k)
    BY <2>3 DEF TypeOK, Delete, Write
  <2>. QED  BY <2>1, <2>2, <2>3
<1>5. AcceptInv'
  <2>1. \A q \in Requests : acceptedAt'[q] <= revision'[q.kind]
    BY <1>1, <1>2, <1>3 DEF AcceptInv
  <2>2. \A q \in OpenNow' : acceptedAt'[q] = 0
    BY <1>2 DEF AcceptInv, OpenNow
  <2>3. \A l \in Kinds : object'[l] # None =>
           1 <= object'[l].created /\ object'[l].created <= revision'[l]
    BY <1>1, <1>4, NoObjectAssumption DEF AcceptInv, Object
  <2>. QED  BY <2>1, <2>2, <2>3 DEF AcceptInv
<1>6. ErroredPodsExact'
  <2>. SUFFICES ASSUME NEW l \in Kinds, object'[l] # None
                PROVE  object'[l].status.erroredPods =
                         IF l = "SysctlProfile" THEN Cardinality(FailuresOn(l)') ELSE 0
    BY DEF ErroredPodsExact, FailuresOn
  <2>1. CASE \/ object'[l] = object[l]
             \/ /\ object[l] \in Object
                /\ object'[l].created = object[l].created
                /\ object'[l].status = object[l].status
    <3>1. FailuresOn(l)' = FailuresOn(l)
      BY <1>2, <2>1 DEF FailuresOn, RecordedOn
    <3>2. object[l] # None
      BY <2>1, NoObjectAssumption
    <3>3. object[l].status.erroredPods =
             IF l = "SysctlProfile" THEN Cardinality(FailuresOn(l)) ELSE 0
      BY <3>2 DEF ErroredPodsExact, FailuresOn
    <3>. QED  BY <2>1, <3>1, <3>3
  <2>2. CASE l = k /\ object'[k].created = revision[k] + 1 /\ object'[k].status = NoReports
    <3>1. FailuresOn(l)' = {}
      BY <1>1, <1>2, <1>3, <2>2 DEF FailuresOn, RecordedOn, AcceptInv
    <3>2. Cardinality(FailuresOn(l)') = 0
      BY <3>1, FS_EmptySet
    <3>3. object'[l].status.erroredPods = 0
      BY <2>2 DEF NoReports
    <3>. QED  BY <3>2, <3>3
  <2>. QED  BY <1>1, <1>4, <2>1, <2>2
<1>. QED
  BY <1>5, <1>6

\* An accepted report is recorded now and was not before.
LEMMA AcceptedAccept ==
  ASSUME TypeOK, VersionInv, AcceptInv, ErroredPodsExact,
         NEW q \in Requests, NEW answered \in BOOLEAN, UpdateAccepted(q, answered)
  PROVE  AcceptInv' /\ ErroredPodsExact'
<1> DEFINE k == q.kind
           recorded == RecordOn(k, object[k].status, q)
<1>1. /\ k \in Kinds
      /\ object[k] \in Object
      /\ revision[k] \in Nat
      /\ handler[q].copy \in Object
      /\ handler[q].copy.version = object[k].version
  BY RequestsAssumption DEF TypeOK, UpdateAccepted, SameVersion, Handler, MaybeObject
<1>2. handler[q].copy = object[k]
  BY <1>1, NoObjectAssumption DEF VersionInv, Current
<1>3. /\ object' = [object EXCEPT ![k] = [version |-> NewVersion(k),
                                          created |-> object[k].created,
                                          status |-> recorded]]
      /\ revision' = [revision EXCEPT ![k] = revision[k] + 1]
      /\ acceptedAt' = [acceptedAt EXCEPT ![q] = revision[k] + 1]
  BY <1>2 DEF UpdateAccepted, Write, NewVersion
<1>4. /\ object'[k].created = object[k].created
      /\ object'[k].status = recorded
      /\ revision'[k] = revision[k] + 1
      /\ acceptedAt'[q] = revision[k] + 1
      /\ \A l \in Kinds \ {k} : object'[l] = object[l] /\ revision'[l] = revision[l]
      /\ \A p \in Requests \ {q} : acceptedAt'[p] = acceptedAt[p]
  <2>. HIDE DEF recorded, k
  <2>. QED  BY <1>1, <1>3 DEF TypeOK
<1>5. /\ \A p \in Requests : acceptedAt[p] \in Nat /\ p.kind \in Kinds /\ p.success \in BOOLEAN
      /\ \A l \in Kinds : revision[l] \in Nat
  BY RequestsAssumption DEF TypeOK
<1>6. q \in OpenNow /\ OpenNow' = OpenNow \ {q}
  <2>1. handler'[q].pc \in {"count", "done"}
    BY DEF TypeOK, UpdateAccepted, Step, At, Handler
  <2>2. \A p \in Requests \ {q} : handler'[p] = handler[p]
    BY DEF TypeOK, UpdateAccepted, Step
  <2>. QED  BY <2>1, <2>2 DEF OpenNow, UpdateAccepted
<1>7. object[k].created \in Nat /\ 1 <= object[k].created /\ object[k].created <= revision[k]
  BY <1>1, NoObjectAssumption DEF AcceptInv, Object
<1>. HIDE DEF recorded
<1>8. AcceptInv'
  <2>1. \A p \in Requests : acceptedAt'[p] <= revision'[p.kind]
    BY <1>1, <1>4, <1>5 DEF AcceptInv
  <2>2. \A p \in OpenNow' : acceptedAt'[p] = 0
    BY <1>4, <1>6 DEF AcceptInv, OpenNow
  <2>3. \A l \in Kinds : object'[l] # None =>
           1 <= object'[l].created /\ object'[l].created <= revision'[l]
    BY <1>1, <1>4, <1>5, <1>7 DEF AcceptInv
  <2>. QED  BY <2>1, <2>2, <2>3 DEF AcceptInv
<1>9. ErroredPodsExact'
  <2>. SUFFICES ASSUME NEW l \in Kinds, object'[l] # None
                PROVE  object'[l].status.erroredPods =
                         IF l = "SysctlProfile" THEN Cardinality(FailuresOn(l)') ELSE 0
    BY DEF ErroredPodsExact, FailuresOn
  <2>1. CASE l # k
    <3>1. FailuresOn(l)' = FailuresOn(l)
      BY <1>4, <2>1 DEF FailuresOn, RecordedOn
    <3>2. object'[l] = object[l]
      BY <1>4, <2>1
    <3>. QED  BY <3>1, <3>2 DEF ErroredPodsExact, FailuresOn
  <2>2. CASE l = k
    <3>1. object[k].status.erroredPods =
             IF k = "SysctlProfile" THEN Cardinality(FailuresOn(k)) ELSE 0
      BY <1>1, NoObjectAssumption DEF ErroredPodsExact, FailuresOn
    <3>2. object[k].status \in ReportedStatus
      BY <1>1 DEF Object
    <3>3. q \notin RecordedOn(k)
      BY <1>6, <1>7 DEF RecordedOn, AcceptInv
    <3>4. RecordedOn(k)' = RecordedOn(k) \cup {q}
      BY <1>1, <1>4, <1>7 DEF RecordedOn
    <3>5. CASE k = "SysctlProfile" /\ ~q.success
      <4>1. FailuresOn(k)' = FailuresOn(k) \cup {q} /\ q \notin FailuresOn(k)
        BY <3>3, <3>4, <3>5 DEF FailuresOn
      <4>2. Cardinality(FailuresOn(k)') = Cardinality(FailuresOn(k)) + 1
        BY <1>1, <4>1, FailuresFinite, FS_AddElement
      <4>3. recorded.erroredPods = object[k].status.erroredPods + 1
        BY <3>2, <3>5, RecordOnErrored DEF recorded
      <4>. QED  BY <1>4, <2>2, <3>1, <3>5, <4>2, <4>3
    <3>6. CASE k = "SysctlProfile" /\ q.success
      <4>1. FailuresOn(k)' = FailuresOn(k)
        BY <3>3, <3>4, <3>6 DEF FailuresOn
      <4>2. recorded.erroredPods = object[k].status.erroredPods
        BY <3>2, <3>6, RecordOnErrored DEF recorded
      <4>. QED  BY <1>4, <2>2, <3>1, <3>6, <4>1, <4>2
    <3>7. CASE k = "ScriptProfile"
      <4>1. recorded.erroredPods = object[k].status.erroredPods
        BY <3>2, <3>7, RecordOnErrored DEF recorded
      <4>. QED  BY <1>4, <2>2, <3>1, <3>7, <4>1
    <3>. QED  BY <1>1, <1>5, <3>5, <3>6, <3>7 DEF Kinds
  <2>. QED  BY <2>1, <2>2
<1>. QED
  BY <1>8, <1>9

LEMMA NextAccept ==
  TypeOK /\ VersionInv /\ AcceptInv /\ ErroredPodsExact /\ [Next]_vars
    => AcceptInv' /\ ErroredPodsExact'
<1>. SUFFICES ASSUME TypeOK, VersionInv, AcceptInv, ErroredPodsExact, [Next]_vars
              PROVE  AcceptInv' /\ ErroredPodsExact'
  OBVIOUS
<1>1. CASE \E k \in Kinds : Create(k) \/ Rewrite(k) \/ Delete(k)
  BY <1>1, ApiAccept
<1>2. CASE \E q \in Requests, answered \in BOOLEAN : UpdateAccepted(q, answered)
  BY <1>2, AcceptedAccept
<1>3. CASE \/ \E r \in Replicas, k \in Kinds : Sync(r, k)
           \/ \E r \in Replicas : Restart(r)
           \/ \E q \in Requests, r \in Replicas : Receive(q, r)
           \/ \E q \in Requests : Get(q) \/ UpdateRefused(q) \/ Count(q)
           \/ UNCHANGED vars
  <2>1. UNCHANGED <<object, revision, acceptedAt>>
    BY <1>3 DEF Sync, Restart, Receive, Get, UpdateRefused, Count, apiVars, vars
  <2>2. OpenNow' \subseteq OpenNow
    BY <1>3, OpenShrinks
  <2>. QED  BY <2>1, <2>2, KeepAccept
<1>. QED
  BY <1>1, <1>2, <1>3 DEF Next, handleReport

\* status.erroredPods is the number of failed reports recorded since the
\* profile was created, for any number of replicas, reports and retries.
THEOREM ErroredPodsCorrect == Spec => []ErroredPodsExact
<1>1. Init => TypeOK /\ VersionInv /\ AcceptInv /\ ErroredPodsExact
  BY InitType, InitVersion, InitAccept
<1>2. TypeOK /\ VersionInv /\ AcceptInv /\ ErroredPodsExact /\ [Next]_vars
        => (TypeOK /\ VersionInv /\ AcceptInv /\ ErroredPodsExact)'
  BY NextType, NextVersion, NextAccept
<1>. QED
  BY <1>1, <1>2, PTL DEF Spec

----------------------------------------------------------------------------
\* The entries of nodeStatuses.

\* Recording a report changes the entry of its node, and no other.
LEMMA RecordOnEntries ==
  ASSUME NEW st \in ReportedStatus, NEW q \in Requests
  PROVE  LET e == st.nodeStatuses[q.node]
             f == RecordOn(q.kind, st, q).nodeStatuses
         IN  /\ f[q.node] = IF q.success THEN Succeeded(q.hash) ELSE Failed(e)
             /\ \A n \in Nodes \ {q.node} : f[n] = st.nodeStatuses[n]
<1> DEFINE e == st.nodeStatuses[q.node]
           new == IF q.success THEN Succeeded(q.hash) ELSE Failed(e)
           With == [st.nodeStatuses EXCEPT ![q.node] = new]
<1>1. q.node \in Nodes /\ st.nodeStatuses \in [Nodes -> NodeStatus]
  BY RequestsAssumption DEF ReportedStatus
<1>2. ASSUME NEW u \in ReportedStatus
      PROVE  recomputeCounts(u).nodeStatuses = u.nodeStatuses
  BY DEF recomputeCounts, ReportedStatus
<1>3. upsertNodeStatus(st, q).nodeStatuses = With
  <2>1. CASE q.success
    <3>1. upsertNodeStatus(st, q) = [st EXCEPT !.nodeStatuses = With]
      BY <2>1 DEF upsertNodeStatus
    <3>. HIDE DEF With
    <3>. QED  BY <3>1 DEF ReportedStatus
  <2>2. CASE ~q.success
    <3> DEFINE errored == st.erroredPods + 1
    <3>1. upsertNodeStatus(st, q) = [st EXCEPT !.nodeStatuses = With, !.erroredPods = errored]
      BY <2>2 DEF upsertNodeStatus
    <3>. HIDE DEF With, errored
    <3>. QED  BY <3>1 DEF ReportedStatus
  <2>. QED  BY <2>1, <2>2
<1>4. upsertScriptNodeStatus(st, q).nodeStatuses = With
  <2>1. upsertScriptNodeStatus(st, q) = [st EXCEPT !.nodeStatuses = With]
    BY DEF upsertScriptNodeStatus
  <2>. HIDE DEF With
  <2>. QED  BY <2>1 DEF ReportedStatus
<1>. HIDE DEF With
<1>5. RecordOn(q.kind, st, q).nodeStatuses = With
  BY <1>2, <1>3, <1>4, UpsertType
     DEF RecordOn, Recorded, ScriptRecorded, recomputeScriptCounts
<1>. HIDE DEF new
<1>6. With[q.node] = new /\ \A n \in Nodes \ {q.node} : With[n] = st.nodeStatuses[n]
  BY <1>1 DEF With
<1>. QED
  BY <1>5, <1>6 DEF new

\* What explains an entry does so as long as no report of it is recorded anew.
LEMMA ExplainsKept ==
  ASSUME NEW e, NEW Q, Explains(e, Q), \A q \in Q : acceptedAt'[q] = acceptedAt[q]
  PROVE  Explains(e, Q)'
<1> DEFINE after(q)  == {p \in Q : acceptedAt[p] > acceptedAt[q]}
           successes == {q \in Q : q.success}
           failures  == {q \in Q : ~q.success}
<1>1. \A q \in Q : after(q)' = after(q)
  OBVIOUS
<1>2. {q \in failures : after(q)' \cap successes = {}}
        = {q \in failures : after(q) \cap successes = {}}
  BY <1>1
<1>3. /\ e.phase = "Absent" <=> Q = {}
      /\ \A q \in Q : after(q) = {} => e.phase = IF q.success THEN "Applied" ELSE "Failed"
      /\ successes = {} => e.appliedHash = None
      /\ \A q \in successes : after(q) \cap successes = {} => e.appliedHash = q.hash
      /\ e.failCount = Cardinality({q \in failures : after(q) \cap successes = {}})
  BY DEF Explains
<1>4. /\ \A q \in Q : after(q)' = {} => e.phase = IF q.success THEN "Applied" ELSE "Failed"
      /\ \A q \in successes : after(q)' \cap successes = {} => e.appliedHash = q.hash
      /\ e.failCount = Cardinality({q \in failures : after(q)' \cap successes = {}})
  <2>. HIDE DEF after
  <2>. QED  BY <1>1, <1>2, <1>3
<1>. QED
  BY <1>3, <1>4 DEF Explains

\* A report newer than those that explain an entry explains what is made of it.
LEMMA ExplainsNext ==
  ASSUME TypeOK, TypeOK', NEW e \in NodeStatus, NEW Q \in SUBSET Requests, Explains(e, Q),
         NEW q \in Requests, q \notin Q,
         \A p \in Q : acceptedAt'[p] = acceptedAt[p] /\ acceptedAt[p] < acceptedAt'[q]
  PROVE  Explains(IF q.success THEN Succeeded(q.hash) ELSE Failed(e), Q \cup {q})'
<1> DEFINE after(p)  == {o \in Q : acceptedAt[o] > acceptedAt[p]}
           successes == {p \in Q : p.success}
           failures  == {p \in Q : ~p.success}
           P == Q \cup {q}
           later(p) == {o \in P : acceptedAt'[o] > acceptedAt'[p]}
           new == IF q.success THEN Succeeded(q.hash) ELSE Failed(e)
           goodP == {p \in P : p.success}
           badP  == {p \in P : ~p.success}
<1>1. later(q) = {}
  BY DEF TypeOK
<1>2. \A p \in Q : later(p) = after(p) \cup {q}
  BY DEF TypeOK
<1>3. /\ e.phase = "Absent" <=> Q = {}
      /\ \A p \in Q : after(p) = {} => e.phase = IF p.success THEN "Applied" ELSE "Failed"
      /\ successes = {} => e.appliedHash = None
      /\ \A p \in successes : after(p) \cap successes = {} => e.appliedHash = p.hash
      /\ e.failCount = Cardinality({p \in failures : after(p) \cap successes = {}})
  BY DEF Explains
<1>4. \A p \in Q : q \in later(p)
  BY <1>2
<1>. SUFFICES /\ new.phase = "Absent" <=> P = {}
              /\ \A p \in P : later(p) = {} =>
                    new.phase = IF p.success THEN "Applied" ELSE "Failed"
              /\ goodP = {} => new.appliedHash = None
              /\ \A p \in goodP : later(p) \cap goodP = {} => new.appliedHash = p.hash
              /\ new.failCount = Cardinality({p \in badP : later(p) \cap goodP = {}})
  BY DEF Explains
<1>. HIDE DEF after, later
<1>5. /\ new.phase = "Absent" <=> P = {}
      /\ \A p \in P : later(p) = {} => new.phase = IF p.success THEN "Applied" ELSE "Failed"
  BY <1>4 DEF Succeeded, Failed
<1>6. CASE q.success
  <2>1. new = Succeeded(q.hash) /\ q \in goodP
    BY <1>6
  <2>2. \A p \in goodP : later(p) \cap goodP = {} => p = q
    BY <1>4, <2>1
  <2>3. {p \in badP : later(p) \cap goodP = {}} = {}
    BY <1>4, <1>6, <2>1
  <2>4. Cardinality({p \in badP : later(p) \cap goodP = {}}) = 0
    BY <2>3, FS_EmptySet
  <2>. HIDE DEF goodP, badP, new
  <2>5. new.appliedHash = q.hash /\ new.failCount = 0
    BY <2>1 DEF Succeeded
  <2>. QED  BY <1>5, <2>1, <2>2, <2>4, <2>5
<1>7. CASE ~q.success
  <2> DEFINE S == {p \in failures : after(p) \cap successes = {}}
  <2>1. goodP = successes /\ badP = failures \cup {q} /\ new = Failed(e)
    BY <1>7
  <2>2. \A p \in Q : later(p) \cap successes = after(p) \cap successes
    BY <1>2, <1>7
  <2>3. {p \in badP : later(p) \cap goodP = {}} = S \cup {q}
    BY <1>1, <2>1, <2>2
  <2>4. IsFiniteSet(S) /\ q \notin S
    BY RequestsAssumption, FS_Subset
  <2>5. Cardinality(S \cup {q}) = Cardinality(S) + 1
    BY <2>4, FS_AddElement
  <2>6. new.appliedHash = e.appliedHash /\ new.failCount = e.failCount + 1
    BY <2>1 DEF Failed
  <2>7. new.failCount = Cardinality({p \in badP : later(p) \cap goodP = {}})
    BY <1>3, <2>3, <2>5, <2>6
  <2>8. goodP = {} => new.appliedHash = None
    BY <1>3, <2>1, <2>6
  <2>9. \A p \in goodP : later(p) \cap goodP = {} => new.appliedHash = p.hash
    BY <1>3, <2>1, <2>2, <2>6
  <2>. QED  BY <1>5, <2>7, <2>8, <2>9
<1>8. q.success \in BOOLEAN
  BY RequestsAssumption
<1>. QED
  BY <1>6, <1>7, <1>8

ReportsOf(k, n) == {q \in RecordedOn(k) : q.node = n}

EntryExplained(k, n) == Explains(object[k].status.nodeStatuses[n], ReportsOf(k, n))

\* An entry is explained as before when it and the reports of it are the same.
LEMMA EntryKept ==
  ASSUME NEW k, NEW n, EntryExplained(k, n),
         object'[k].status.nodeStatuses[n] = object[k].status.nodeStatuses[n],
         ReportsOf(k, n)' = ReportsOf(k, n),
         \A q \in ReportsOf(k, n) : acceptedAt'[q] = acceptedAt[q]
  PROVE  EntryExplained(k, n)'
<1>1. PICK e : e = object[k].status.nodeStatuses[n]
  OBVIOUS
<1>2. PICK Q : Q = ReportsOf(k, n)
  OBVIOUS
<1>3. Explains(e, Q)
  BY <1>1, <1>2 DEF EntryExplained
<1>4. Explains(e, Q)'
  BY <1>2, <1>3, ExplainsKept
<1>5. e = object'[k].status.nodeStatuses[n] /\ Q = ReportsOf(k, n)'
  BY <1>1, <1>2
<1>. QED
  BY <1>4, <1>5 DEF EntryExplained

\* No report explains that there is no entry.
LEMMA NoEntryExplained == Explains(NoEntry, {}) /\ Explains(NoEntry, {})'
<1>1. Cardinality({}) = 0
  BY FS_EmptySet
<1>. QED
  BY <1>1 DEF Explains, NoEntry

LEMMA InitExplained == Init => EntriesExplained
<1>. SUFFICES ASSUME Init, NEW k \in Kinds, object[k] # None, NEW n \in Nodes
              PROVE  EntryExplained(k, n)
  BY DEF EntriesExplained, EntryExplained, ReportsOf
<1>1. PICK K \in Existing :
        object = [l \in Kinds |->
                    IF l \in K THEN [version |-> 1, created |-> 1, status |-> NoReports]
                    ELSE None]
  BY DEF Init
<1>2. object[k].created = 1 /\ object[k].status = NoReports
  BY <1>1
<1>3. object[k].status.nodeStatuses[n] = NoEntry
  BY <1>2 DEF NoReports
<1>4. ReportsOf(k, n) = {}
  BY <1>2 DEF Init, ReportsOf, RecordedOn
<1>. QED
  BY <1>3, <1>4, NoEntryExplained DEF EntryExplained

\* What users and controllers write leaves the entries and the reports of them
\* alone; a new profile has neither.
LEMMA ApiExplained ==
  ASSUME TypeOK, AcceptInv, EntriesExplained, NEW k \in Kinds,
         Create(k) \/ Rewrite(k) \/ Delete(k)
  PROVE  EntriesExplained'
<1>. SUFFICES ASSUME NEW l \in Kinds, object'[l] # None, NEW n \in Nodes
              PROVE  EntryExplained(l, n)'
  BY DEF EntriesExplained, EntryExplained, ReportsOf
<1>1. acceptedAt' = acceptedAt
  BY DEF Create, Rewrite, Delete
<1>2. CASE Create(k) /\ l = k
  <2>1. /\ revision[k] \in Nat
        /\ object'[k] = [version |-> NewVersion(k), created |-> NewVersion(k),
                         status |-> NoReports]
    BY <1>2 DEF TypeOK, Create, Write
  <2>2. object'[k].created = revision[k] + 1 /\ object'[k].status = NoReports
    BY <2>1 DEF NewVersion
  <2>3. object'[l].status.nodeStatuses[n] = NoEntry
    BY <1>2, <2>2 DEF NoReports
  <2>4. \A q \in Requests : q.kind = k => acceptedAt[q] \in Nat /\ acceptedAt[q] <= revision[k]
    BY DEF TypeOK, AcceptInv
  <2>5. ReportsOf(l, n)' = {}
    BY <1>1, <1>2, <2>1, <2>2, <2>4 DEF ReportsOf, RecordedOn
  <2>. QED  BY <2>3, <2>5, NoEntryExplained DEF EntryExplained
<1>3. CASE ~(Create(k) /\ l = k)
  <2>1. /\ object[l] # None
        /\ object'[l].created = object[l].created
        /\ object'[l].status = object[l].status
    <3>1. CASE l # k
      BY <3>1 DEF TypeOK, Create, Rewrite, Delete, Write
    <3>2. CASE l = k /\ Rewrite(k)
      <4>1. object[k] \in Object
        BY <3>2 DEF TypeOK, MaybeObject, Rewrite
      <4>2. object'[k] = [object[k] EXCEPT !.version = NewVersion(k)]
        BY <3>2 DEF TypeOK, Rewrite, Write
      <4>. QED  BY <3>2, <4>1, <4>2, NoObjectAssumption DEF Object
    <3>3. CASE l = k /\ Delete(k)
      BY <3>3 DEF TypeOK, Delete, Write
    <3>. QED  BY <1>3, <3>1, <3>2, <3>3
  <2>2. ReportsOf(l, n)' = ReportsOf(l, n)
    BY <1>1, <2>1 DEF ReportsOf, RecordedOn
  <2>3. EntryExplained(l, n)
    BY <2>1 DEF EntriesExplained, EntryExplained, ReportsOf
  <2>. QED  BY <1>1, <2>1, <2>2, <2>3, EntryKept
<1>. QED
  BY <1>2, <1>3

\* An accepted report is the newest, and explains the new entry of its node.
LEMMA AcceptedExplained ==
  ASSUME TypeOK, TypeOK', VersionInv, AcceptInv, EntriesExplained,
         NEW q \in Requests, NEW answered \in BOOLEAN, UpdateAccepted(q, answered)
  PROVE  EntriesExplained'
<1>. SUFFICES ASSUME NEW l \in Kinds, object'[l] # None, NEW n \in Nodes
              PROVE  EntryExplained(l, n)'
  BY DEF EntriesExplained, EntryExplained, ReportsOf
<1>1. PICK k : k = q.kind
  OBVIOUS
<1> DEFINE recorded == RecordOn(k, object[k].status, q)
<1>2. /\ k \in Kinds
      /\ object[k] \in Object
      /\ revision[k] \in Nat
      /\ handler[q].copy \in Object
      /\ handler[q].copy.version = object[k].version
  BY <1>1, RequestsAssumption DEF TypeOK, UpdateAccepted, SameVersion, Handler, MaybeObject
<1>3. handler[q].copy = object[k]
  BY <1>1, <1>2, NoObjectAssumption DEF VersionInv, Current
<1>4. /\ object' = [object EXCEPT ![k] = [version |-> NewVersion(k),
                                          created |-> object[k].created,
                                          status |-> recorded]]
      /\ acceptedAt' = [acceptedAt EXCEPT ![q] = revision[k] + 1]
  BY <1>1, <1>3 DEF UpdateAccepted, Write, NewVersion
<1>. HIDE DEF recorded
<1>5. /\ object'[k].created = object[k].created
      /\ object'[k].status = recorded
      /\ acceptedAt'[q] = revision[k] + 1
      /\ \A m \in Kinds \ {k} : object'[m] = object[m]
      /\ \A p \in Requests \ {q} : acceptedAt'[p] = acceptedAt[p]
  BY <1>2, <1>4 DEF TypeOK
<1>6. \A p \in Requests : p.kind = k => acceptedAt[p] \in Nat /\ acceptedAt[p] <= revision[k]
  BY DEF TypeOK, AcceptInv
<1>7. object[k].created \in Nat /\ 1 <= object[k].created /\ object[k].created <= revision[k]
  BY <1>2, NoObjectAssumption DEF AcceptInv, Object
<1>8. q \notin RecordedOn(k)
  <2>1. q \in OpenNow
    BY DEF OpenNow, UpdateAccepted
  <2>. QED  BY <1>7, <2>1 DEF RecordedOn, AcceptInv
<1>9. object[l] # None
  BY <1>2, <1>5, NoObjectAssumption
<1>10. EntryExplained(l, n)
  BY <1>9 DEF EntriesExplained, EntryExplained, ReportsOf
<1>11. object[k].status \in ReportedStatus
  BY <1>2 DEF Object
<1>12. /\ recorded.nodeStatuses[q.node] =
            IF q.success THEN Succeeded(q.hash) ELSE Failed(object[k].status.nodeStatuses[q.node])
       /\ \A m \in Nodes \ {q.node} :
            recorded.nodeStatuses[m] = object[k].status.nodeStatuses[m]
  BY <1>1, <1>11, RecordOnEntries DEF recorded
<1>13. CASE l # k
  <2>1. ReportsOf(l, n)' = ReportsOf(l, n) /\ object'[l] = object[l]
    BY <1>1, <1>5, <1>13 DEF ReportsOf, RecordedOn
  <2>2. \A p \in ReportsOf(l, n) : acceptedAt'[p] = acceptedAt[p]
    BY <1>1, <1>5, <1>13 DEF ReportsOf, RecordedOn
  <2>. QED  BY <1>10, <2>1, <2>2, EntryKept
<1>14. CASE l = k /\ n # q.node
  <2>1. ReportsOf(k, n)' = ReportsOf(k, n)
    BY <1>5, <1>14 DEF ReportsOf, RecordedOn
  <2>2. \A p \in ReportsOf(k, n) : acceptedAt'[p] = acceptedAt[p]
    BY <1>5, <1>14 DEF ReportsOf, RecordedOn
  <2>3. object'[k].status.nodeStatuses[n] = object[k].status.nodeStatuses[n]
    BY <1>5, <1>12, <1>14
  <2>. QED  BY <1>10, <1>14, <2>1, <2>2, <2>3, EntryKept
<1>15. CASE l = k /\ n = q.node
  <2>1. PICK e : e = object[k].status.nodeStatuses[n]
    OBVIOUS
  <2>2. PICK Q : Q = ReportsOf(k, n)
    OBVIOUS
  <2>3. e \in NodeStatus /\ Q \in SUBSET Requests /\ q \notin Q /\ Explains(e, Q)
    BY <1>8, <1>10, <1>11, <1>15, <2>1, <2>2
       DEF ReportedStatus, ReportsOf, RecordedOn, EntryExplained
  <2>4. \A p \in Q : acceptedAt'[p] = acceptedAt[p] /\ acceptedAt[p] < acceptedAt'[q]
    <3>. SUFFICES ASSUME NEW p \in Q
                  PROVE  acceptedAt'[p] = acceptedAt[p] /\ acceptedAt[p] < acceptedAt'[q]
      OBVIOUS
    <3>1. p \in Requests /\ p # q /\ p.kind = k
      BY <2>2, <2>3 DEF ReportsOf, RecordedOn
    <3>. QED  BY <1>2, <1>5, <1>6, <3>1
  <2>5. Explains(IF q.success THEN Succeeded(q.hash) ELSE Failed(e), Q \cup {q})'
    BY <2>3, <2>4, ExplainsNext
  <2>6. ReportsOf(k, n)' = Q \cup {q}
    BY <1>1, <1>2, <1>5, <1>7, <1>15, <2>2 DEF ReportsOf, RecordedOn
  <2>7. object'[k].status.nodeStatuses[n] =
          IF q.success THEN Succeeded(q.hash) ELSE Failed(e)
    BY <1>5, <1>12, <1>15, <2>1
  <2>. QED  BY <1>15, <2>5, <2>6, <2>7 DEF EntryExplained
<1>. QED
  BY <1>13, <1>14, <1>15

LEMMA NextExplained ==
  TypeOK /\ VersionInv /\ AcceptInv /\ EntriesExplained /\ [Next]_vars => EntriesExplained'
<1>. SUFFICES ASSUME TypeOK, VersionInv, AcceptInv, EntriesExplained, [Next]_vars
              PROVE  EntriesExplained'
  OBVIOUS
<1>1. CASE \E k \in Kinds : Create(k) \/ Rewrite(k) \/ Delete(k)
  BY <1>1, ApiExplained
<1>2. CASE \E q \in Requests, answered \in BOOLEAN : UpdateAccepted(q, answered)
  BY <1>2, NextType, AcceptedExplained
<1>3. CASE UNCHANGED <<object, acceptedAt>>
  <2>. SUFFICES ASSUME NEW k \in Kinds, object[k] # None, NEW n \in Nodes
                PROVE  EntryExplained(k, n)'
    BY <1>3 DEF EntriesExplained, EntryExplained, ReportsOf
  <2>1. EntryExplained(k, n)
    BY DEF EntriesExplained, EntryExplained, ReportsOf
  <2>2. ReportsOf(k, n)' = ReportsOf(k, n)
    BY <1>3 DEF ReportsOf, RecordedOn
  <2>. QED  BY <1>3, <2>1, <2>2, EntryKept
<1>. QED
  BY <1>1, <1>2, <1>3
     DEF Next, handleReport, Sync, Restart, Receive, Get, UpdateRefused, Count, apiVars, vars

\* The entry of every node is what the reports recorded since the profile was
\* created make of it, in the order they were accepted: the phase of the last,
\* the hash of the last success and the number of failures since.  However the
\* handlers of the replicas interleave, retry, or die.
THEOREM EntriesCorrect == Spec => []EntriesExplained
<1>1. Init => TypeOK /\ VersionInv /\ AcceptInv /\ ErroredPodsExact /\ EntriesExplained
  BY InitType, InitVersion, InitAccept, InitExplained
<1>2. TypeOK /\ VersionInv /\ AcceptInv /\ ErroredPodsExact /\ EntriesExplained /\ [Next]_vars
        => (TypeOK /\ VersionInv /\ AcceptInv /\ ErroredPodsExact /\ EntriesExplained)'
  BY NextType, NextVersion, NextAccept, NextExplained
<1>. QED
  BY <1>1, <1>2, PTL DEF Spec

----------------------------------------------------------------------------
\* The metric.

\* The failures recorded whose handler has still to count them.
PendingOn(n) == {q \in FailedOn(n) : handler[q].pc = "count"}

\* What was counted and what has still to be counted is no more than what was
\* recorded, and all of it as long as no handler was cut off and no counter
\* lost.
BalanceOn(n) ==
  /\ IsFiniteSet(Counted(n))
  /\ Cardinality(Counted(n)) + Cardinality(PendingOn(n)) <= Cardinality(FailedOn(n))
  /\ ~uncounted =>
        Cardinality(Counted(n)) + Cardinality(PendingOn(n)) = Cardinality(FailedOn(n))

MetricInv ==
  /\ \A q \in Requests : handler[q].pc = "count" => acceptedAt[q] # 0
  /\ \A n \in Nodes : BalanceOn(n)

\* There are finitely many reports.
LEMMA PendingFinite ==
  ASSUME NEW n
  PROVE  /\ IsFiniteSet(FailedOn(n)) /\ Cardinality(FailedOn(n)) \in Nat
         /\ IsFiniteSet(PendingOn(n)) /\ Cardinality(PendingOn(n)) \in Nat
<1>1. FailedOn(n) \subseteq Requests /\ PendingOn(n) \subseteq Requests
  BY DEF FailedOn, PendingOn
<1>. QED
  BY <1>1, RequestsAssumption, FS_Subset, FS_CardinalityType

\* The balance is what the metric promises.
LEMMA MetricFollows == MetricInv => MetricFollowsStatus
<1>. SUFFICES ASSUME MetricInv, NEW n \in Nodes
              PROVE  /\ Cardinality(Counted(n)) <= Cardinality(FailedOn(n))
                     /\ ~uncounted /\ (\A q \in Requests : handler[q].pc # "count") =>
                          Cardinality(Counted(n)) = Cardinality(FailedOn(n))
  BY DEF MetricFollowsStatus
<1>1. BalanceOn(n)
  BY DEF MetricInv
<1>2. /\ Cardinality(Counted(n)) \in Nat
      /\ Cardinality(PendingOn(n)) \in Nat
      /\ Cardinality(FailedOn(n)) \in Nat
  BY <1>1, PendingFinite, FS_CardinalityType DEF BalanceOn
<1>3. Cardinality(Counted(n)) <= Cardinality(FailedOn(n))
  BY <1>1, <1>2 DEF BalanceOn
<1>4. ASSUME ~uncounted, \A q \in Requests : handler[q].pc # "count"
      PROVE  Cardinality(Counted(n)) = Cardinality(FailedOn(n))
  <2>1. PendingOn(n) = {}
    BY <1>4 DEF PendingOn, FailedOn
  <2>2. Cardinality(PendingOn(n)) = 0
    BY <2>1, FS_EmptySet
  <2>3. Cardinality(Counted(n)) + Cardinality(PendingOn(n)) = Cardinality(FailedOn(n))
    BY <1>1, <1>4 DEF BalanceOn
  <2>. QED  BY <1>2, <2>2, <2>3
<1>. QED
  BY <1>3, <1>4

\* Initially nothing is recorded and nothing counted.
LEMMA InitMetric == Init => MetricInv
<1>. SUFFICES ASSUME Init PROVE MetricInv
  OBVIOUS
<1>1. \A q \in Requests : handler[q].pc = "sent" /\ acceptedAt[q] = 0
  BY DEF Init, At
<1>2. ASSUME NEW n \in Nodes
      PROVE  BalanceOn(n)
  <2>1. \A r \in Replicas : 1 .. counter[r][n] = {}
    BY DEF Init
  <2>2. Counted(n) = {} /\ FailedOn(n) = {} /\ PendingOn(n) = {}
    BY <1>1, <2>1 DEF Counted, FailedOn, PendingOn
  <2>3. IsFiniteSet({}) /\ Cardinality({}) = 0
    BY FS_EmptySet
  <2>. QED  BY <2>2, <2>3 DEF BalanceOn
<1>. QED
  BY <1>1, <1>2 DEF MetricInv

\* Steps that record nothing and count nothing.
LEMMA KeepMetric ==
  ASSUME MetricInv, UNCHANGED <<counter, acceptedAt, uncounted>>,
         \A q \in Requests : handler'[q].pc = "count" <=> handler[q].pc = "count"
  PROVE  MetricInv'
<1>1. ASSUME NEW n \in Nodes
      PROVE  BalanceOn(n)'
  <2>1. Counted(n)' = Counted(n) /\ FailedOn(n)' = FailedOn(n) /\ PendingOn(n)' = PendingOn(n)
    BY DEF Counted, FailedOn, PendingOn
  <2>. QED  BY <2>1 DEF MetricInv, BalanceOn
<1>2. \A q \in Requests : handler'[q].pc = "count" => acceptedAt'[q] # 0
  BY DEF MetricInv
<1>. QED
  BY <1>1, <1>2 DEF MetricInv

\* A replica that dies takes its counters and its handlers with it.
LEMMA RestartMetric ==
  ASSUME TypeOK, MetricInv, NEW r \in Replicas, Restart(r)
  PROVE  MetricInv'
<1>1. \A q \in Requests : handler'[q].pc = "count" => handler[q].pc = "count"
  BY DEF Restart, At
<1>2. acceptedAt' = acceptedAt /\ uncounted' = (uncounted \/ HoldsCounts(r))
  BY DEF Restart
<1>3. ASSUME NEW n \in Nodes
      PROVE  BalanceOn(n)'
  <2>1. \A s \in Replicas : counter'[s][n] = IF s = r THEN 0 ELSE counter[s][n]
    BY DEF TypeOK, Restart
  <2>2. \A s \in Replicas : 1 .. counter'[s][n] \subseteq 1 .. counter[s][n]
    BY <2>1 DEF TypeOK
  <2>3. Counted(n)' \subseteq Counted(n)
    BY <2>2 DEF Counted
  <2>4. FailedOn(n)' = FailedOn(n) /\ PendingOn(n)' \subseteq PendingOn(n)
    BY <1>1, <1>2 DEF FailedOn, PendingOn
  <2>5. BalanceOn(n)
    BY DEF MetricInv
  <2>6. /\ IsFiniteSet(Counted(n)')
        /\ Cardinality(Counted(n)') <= Cardinality(Counted(n))
        /\ Cardinality(Counted(n)') \in Nat
        /\ Cardinality(Counted(n)) \in Nat
    BY <2>3, <2>5, FS_Subset, FS_CardinalityType DEF BalanceOn
  <2>7. /\ Cardinality(PendingOn(n)') <= Cardinality(PendingOn(n))
        /\ Cardinality(PendingOn(n)') \in Nat
        /\ Cardinality(PendingOn(n)) \in Nat
        /\ Cardinality(FailedOn(n)) \in Nat
    BY <2>4, PendingFinite, FS_Subset, FS_CardinalityType
  <2>8. Cardinality(Counted(n)') + Cardinality(PendingOn(n)') <= Cardinality(FailedOn(n)')
    BY <2>4, <2>5, <2>6, <2>7 DEF BalanceOn
  \* A replica that held no counts takes nothing away.
  <2>9. ASSUME ~uncounted'
        PROVE  Cardinality(Counted(n)') + Cardinality(PendingOn(n)') = Cardinality(FailedOn(n)')
    <3>1. ~uncounted /\ ~HoldsCounts(r)
      BY <1>2, <2>9
    <3>2. \A s \in Replicas : counter'[s][n] = counter[s][n]
      BY <2>1, <3>1 DEF HoldsCounts
    <3>3. Counted(n)' = Counted(n)
      BY <3>2 DEF Counted
    <3>4. \A q \in Requests : ~q.success /\ handler[q].pc = "count" => handler'[q] = handler[q]
      BY <3>1 DEF HoldsCounts, Restart
    <3>5. PendingOn(n)' = PendingOn(n)
      BY <1>1, <2>4, <3>4 DEF PendingOn, FailedOn
    <3>. QED  BY <2>4, <2>5, <3>1, <3>3, <3>5 DEF BalanceOn
  <2>. QED  BY <2>6, <2>8, <2>9 DEF BalanceOn
<1>. QED
  BY <1>1, <1>2, <1>3 DEF MetricInv

\* A failure that is recorded has still to be counted, unless the handler does
\* not learn of it.
LEMMA AcceptedMetric ==
  ASSUME TypeOK, AcceptInv, MetricInv, NEW q \in Requests, NEW answered \in BOOLEAN,
         UpdateAccepted(q, answered)
  PROVE  MetricInv'
<1>1. q.kind \in Kinds /\ q.success \in BOOLEAN /\ handler[q].pc = "update"
  BY RequestsAssumption DEF UpdateAccepted
<1>2. acceptedAt[q] = 0
  BY <1>1 DEF AcceptInv, OpenNow
<1>3. acceptedAt' = [acceptedAt EXCEPT ![q] = NewVersion(q.kind)] /\ counter' = counter
  BY DEF UpdateAccepted
<1>4. acceptedAt'[q] # 0 /\ \A p \in Requests \ {q} : acceptedAt'[p] = acceptedAt[p]
  BY <1>1, <1>3 DEF TypeOK, NewVersion
<1>5. /\ \A p \in Requests \ {q} : handler'[p] = handler[p]
      /\ answered => handler'[q].pc = "count"
      /\ ~answered => handler'[q].pc = "done"
  BY DEF TypeOK, UpdateAccepted, Step, At, Handler
<1>6. answered => uncounted' = uncounted
  BY DEF UpdateAccepted
<1>7. ~answered => uncounted' = (uncounted \/ ~q.success)
  BY DEF UpdateAccepted
<1>8. \A p \in Requests : handler'[p].pc = "count" => acceptedAt'[p] # 0
  BY <1>4, <1>5 DEF MetricInv
<1>9. ASSUME NEW n \in Nodes
      PROVE  BalanceOn(n)'
  <2>1. BalanceOn(n)
    BY DEF MetricInv
  <2>2. Counted(n)' = Counted(n) /\ Cardinality(Counted(n)) \in Nat
    BY <1>3, <2>1, FS_CardinalityType DEF Counted, BalanceOn
  <2>3. /\ IsFiniteSet(FailedOn(n)) /\ Cardinality(FailedOn(n)) \in Nat
        /\ IsFiniteSet(PendingOn(n)) /\ Cardinality(PendingOn(n)) \in Nat
    BY PendingFinite
  <2>4. CASE q.success \/ q.node # n
    <3>1. FailedOn(n)' = FailedOn(n)
      BY <1>4, <2>4 DEF FailedOn
    <3>2. PendingOn(n)' = PendingOn(n)
      BY <1>1, <1>5, <2>4, <3>1 DEF PendingOn, FailedOn
    <3>3. ~uncounted' => ~uncounted
      BY <1>6, <1>7
    <3>. QED  BY <2>1, <2>2, <3>1, <3>2, <3>3 DEF BalanceOn
  <2>5. CASE ~q.success /\ q.node = n
    <3>1. /\ FailedOn(n)' = FailedOn(n) \cup {q}
          /\ FailedOn(n) \subseteq Requests \ {q}
      BY <1>2, <1>4, <2>5 DEF FailedOn
    <3>2. Cardinality(FailedOn(n)') = Cardinality(FailedOn(n)) + 1
      BY <2>3, <3>1, FS_AddElement
    <3>3. CASE answered
      <4>1. PendingOn(n)' = PendingOn(n) \cup {q} /\ q \notin PendingOn(n)
        BY <1>5, <3>1, <3>3 DEF PendingOn
      <4>2. Cardinality(PendingOn(n)') = Cardinality(PendingOn(n)) + 1
        BY <2>3, <4>1, FS_AddElement
      <4>3. Cardinality(Counted(n)') + Cardinality(PendingOn(n)') <= Cardinality(FailedOn(n)')
        BY <2>1, <2>2, <2>3, <3>2, <4>2 DEF BalanceOn
      <4>4. ASSUME ~uncounted'
            PROVE  Cardinality(Counted(n)') + Cardinality(PendingOn(n)')
                     = Cardinality(FailedOn(n)')
        <5>1. Cardinality(Counted(n)) + Cardinality(PendingOn(n)) = Cardinality(FailedOn(n))
          BY <1>6, <2>1, <3>3, <4>4 DEF BalanceOn
        <5>. QED  BY <2>2, <2>3, <3>2, <4>2, <5>1
      <4>. QED  BY <2>1, <2>2, <4>3, <4>4 DEF BalanceOn
    <3>4. CASE ~answered
      <4>1. PendingOn(n)' = PendingOn(n)
        BY <1>5, <3>1, <3>4 DEF PendingOn
      <4>2. Cardinality(Counted(n)') + Cardinality(PendingOn(n)') <= Cardinality(FailedOn(n)')
        BY <2>1, <2>2, <2>3, <3>2, <4>1 DEF BalanceOn
      <4>3. uncounted'
        BY <1>7, <2>5, <3>4
      <4>. QED  BY <2>1, <2>2, <4>2, <4>3 DEF BalanceOn
    <3>. QED  BY <3>3, <3>4
  <2>. QED  BY <1>1, <2>4, <2>5
<1>. QED
  BY <1>8, <1>9 DEF MetricInv

\* A failure that is counted has no longer to be.
LEMMA CountMetric ==
  ASSUME TypeOK, MetricInv, NEW q \in Requests, Count(q)
  PROVE  MetricInv'
<1> DEFINE r == handler[q].replica
<1>1. /\ r \in Replicas /\ q.node \in Nodes /\ q.success \in BOOLEAN
      /\ handler[q].pc = "count"
  BY RequestsAssumption DEF TypeOK, Count
<1>2. acceptedAt[q] # 0
  BY <1>1 DEF MetricInv
<1>3. acceptedAt' = acceptedAt /\ uncounted' = uncounted
  BY DEF Count
<1>4. /\ \A p \in Requests \ {q} : handler'[p] = handler[p]
      /\ handler'[q].pc = "done"
  BY DEF TypeOK, Count, Step, At
<1>5. /\ q.success => counter' = counter
      /\ ~q.success => counter' = [counter EXCEPT ![r][q.node] = @ + 1]
  BY DEF Count, IncErrored, Counts
<1>. HIDE DEF r
<1>6. \A p \in Requests : handler'[p].pc = "count" => acceptedAt'[p] # 0
  BY <1>3, <1>4 DEF MetricInv
<1>7. ASSUME NEW n \in Nodes
      PROVE  BalanceOn(n)'
  <2>1. BalanceOn(n)
    BY DEF MetricInv
  <2>2. FailedOn(n)' = FailedOn(n)
    BY <1>3 DEF FailedOn
  <2>3. CASE q.success \/ q.node # n
    <3>1. \A s \in Replicas : counter'[s][n] = counter[s][n]
      <4>1. CASE q.success
        BY <1>5, <4>1
      <4>2. CASE ~q.success
        <5>1. counter \in [Replicas -> [Nodes -> Nat]]
          BY DEF TypeOK
        <5>2. counter' = [counter EXCEPT ![r][q.node] = @ + 1] /\ q.node # n
          BY <1>5, <2>3, <4>2
        <5>. QED  BY <1>1, <5>1, <5>2
      <4>. QED  BY <4>1, <4>2
    <3>2. Counted(n)' = Counted(n)
      BY <3>1 DEF Counted
    <3>3. PendingOn(n)' = PendingOn(n)
      BY <1>4, <2>2, <2>3 DEF PendingOn, FailedOn
    <3>. QED  BY <1>3, <2>1, <2>2, <3>2, <3>3 DEF BalanceOn
  <2>4. CASE ~q.success /\ q.node = n
    <3> DEFINE tick == <<r, counter[r][n] + 1>>
    <3>1. /\ \A s \in Replicas : counter[s][n] \in Nat
          /\ \A s \in Replicas \ {r} : counter'[s][n] = counter[s][n]
          /\ counter'[r][n] = counter[r][n] + 1
      BY <1>1, <1>5, <2>4 DEF TypeOK
    <3>2. 1 .. counter'[r][n] = (1 .. counter[r][n]) \cup {counter[r][n] + 1}
      BY <1>1, <3>1
    <3>3. counter[r][n] + 1 \notin 1 .. counter[r][n]
      BY <1>1, <3>1
    <3>4. Counted(n)' = Counted(n) \cup {tick}
      BY <1>1, <3>1, <3>2 DEF Counted
    <3>5. tick \notin Counted(n)
      BY <3>3 DEF Counted
    <3>. HIDE DEF tick
    <3>6. /\ IsFiniteSet(Counted(n)') /\ Cardinality(Counted(n)) \in Nat
          /\ Cardinality(Counted(n)') = Cardinality(Counted(n)) + 1
      BY <2>1, <3>4, <3>5, FS_AddElement, FS_CardinalityType DEF BalanceOn
    <3>7. PendingOn(n)' = PendingOn(n) \ {q} /\ q \in PendingOn(n)
      BY <1>1, <1>2, <1>4, <2>2, <2>4 DEF PendingOn, FailedOn
    <3>8. /\ Cardinality(PendingOn(n)) \in Nat /\ Cardinality(FailedOn(n)) \in Nat
          /\ Cardinality(PendingOn(n)') = Cardinality(PendingOn(n)) - 1
      BY <3>7, PendingFinite, FS_RemoveElement
    <3>9. Cardinality(Counted(n)') + Cardinality(PendingOn(n)')
            = Cardinality(Counted(n)) + Cardinality(PendingOn(n))
      BY <3>6, <3>8
    <3>. QED  BY <1>3, <2>1, <2>2, <3>6, <3>9 DEF BalanceOn
  <2>. QED  BY <1>1, <2>3, <2>4
<1>. QED
  BY <1>6, <1>7 DEF MetricInv

\* Every step keeps the balance.
LEMMA NextMetric ==
  TypeOK /\ AcceptInv /\ MetricInv /\ [Next]_vars => MetricInv'
<1>. SUFFICES ASSUME TypeOK, AcceptInv, MetricInv, [Next]_vars
              PROVE  MetricInv'
  OBVIOUS
<1>1. CASE \E r \in Replicas : Restart(r)
  BY <1>1, RestartMetric
<1>2. CASE \E q \in Requests, answered \in BOOLEAN : UpdateAccepted(q, answered)
  BY <1>2, AcceptedMetric
<1>3. CASE \E q \in Requests : Count(q)
  BY <1>3, CountMetric
<1>4. CASE \/ \E k \in Kinds : Create(k) \/ Rewrite(k) \/ Delete(k)
           \/ \E r \in Replicas, k \in Kinds : Sync(r, k)
           \/ UNCHANGED vars
  <2>1. UNCHANGED <<handler, counter, acceptedAt, uncounted>>
    BY <1>4 DEF Create, Rewrite, Delete, Sync, vars
  <2>. QED  BY <2>1, KeepMetric
<1>5. CASE \E q \in Requests, r \in Replicas : Receive(q, r)
  <2>1. UNCHANGED <<counter, acceptedAt, uncounted>>
    BY <1>5 DEF Receive
  <2>2. \A q \in Requests : handler'[q].pc = "count" <=> handler[q].pc = "count"
    BY <1>5 DEF Receive, Step, TypeOK, Handler
  <2>. QED  BY <2>1, <2>2, KeepMetric
<1>6. CASE \E q \in Requests : Get(q) \/ UpdateRefused(q)
  <2>1. PICK q \in Requests : Get(q) \/ UpdateRefused(q)
    BY <1>6
  <2>2. ~Counts(q, "get")
    BY DEF Counts
  <2>3. counter' = counter
    BY <2>1, <2>2 DEF Get, UpdateRefused, IncErrored
  <2>4. UNCHANGED <<acceptedAt, uncounted>>
    BY <2>1 DEF Get, UpdateRefused
  <2>5. /\ \A p \in Requests \ {q} : handler'[p] = handler[p]
        /\ handler[q].pc # "count"
    BY <2>1 DEF Get, UpdateRefused, Step, TypeOK
  <2>6. handler'[q].pc # "count"
    <3>1. handler[q] \in Handler
      BY DEF TypeOK
    <3>2. CASE Get(q)
      <4> DEFINE copy == copies[handler[q].replica][q.kind]
      <4>1. \/ handler'[q] = [handler[q] EXCEPT !.pc = "update", !.copy = copy]
            \/ handler'[q] = At("done")
        BY <3>2 DEF TypeOK, Get, Step
      <4>. HIDE DEF copy
      <4>2. CASE handler'[q] = At("done")
        BY <4>2 DEF At
      <4>3. CASE handler'[q] = [handler[q] EXCEPT !.pc = "update", !.copy = copy]
        BY <3>1, <4>3 DEF Handler
      <4>. QED  BY <4>1, <4>2, <4>3
    <3>3. CASE UpdateRefused(q)
      <4>1. \/ Step(q, [handler[q] EXCEPT !.pc = "get", !.tries = @ + 1, !.copy = None])
            \/ Step(q, At("done"))
        BY <3>3 DEF UpdateRefused
      <4>2. \/ handler'[q] = [handler[q] EXCEPT !.pc = "get", !.tries = @ + 1, !.copy = None]
            \/ handler'[q] = At("done")
        BY <4>1 DEF TypeOK, Step
      <4>3. CASE handler'[q] = At("done")
        BY <4>3 DEF At
      <4>4. CASE handler'[q] = [handler[q] EXCEPT !.pc = "get", !.tries = @ + 1, !.copy = None]
        BY <3>1, <4>4 DEF Handler
      <4>. QED  BY <4>2, <4>3, <4>4
    <3>. QED  BY <2>1, <3>2, <3>3
  <2>. QED  BY <2>3, <2>4, <2>5, <2>6, KeepMetric
<1>. QED
  BY <1>1, <1>2, <1>3, <1>4, <1>5, <1>6 DEF Next, handleReport

\* sysctl_operator_errored_pods_total, over all replicas, never runs ahead of
\* the failures recorded in status and agrees with them once the handlers are
\* through, unless one was cut off: for any number of replicas and reports.
THEOREM MetricCorrect == Spec => []MetricFollowsStatus
<1>1. Init => TypeOK /\ VersionInv /\ AcceptInv /\ ErroredPodsExact /\ MetricInv
  BY InitType, InitVersion, InitAccept, InitMetric
<1>2. TypeOK /\ VersionInv /\ AcceptInv /\ ErroredPodsExact /\ MetricInv /\ [Next]_vars
        => (TypeOK /\ VersionInv /\ AcceptInv /\ ErroredPodsExact /\ MetricInv)'
  BY NextType, NextVersion, NextAccept, NextMetric
<1>. QED
  BY <1>1, <1>2, MetricFollows, PTL DEF Spec
=============================================================================
