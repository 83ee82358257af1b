--------------------------- MODULE ReportHandlers ---------------------------
(***************************************************************************)
(* The report API on several replicas of the manager.  Each replica serves *)
(* reports (NeedLeaderElection is false) from its own informer's copy of   *)
(* the profiles, while the leader's controllers and users write the same   *)
(* objects.  A handler's Get, its Update and the metric that follows are   *)
(* separate steps: between them other handlers run, the profile is written *)
(* or deleted and re-created, and the replica may die.                     *)
(*                                                                         *)
(* There is one profile of each kind, both of one name.  Of a profile only *)
(* its resourceVersion and what reports write are modelled: a write of     *)
(* anything else is a new version.                                         *)
(***************************************************************************)
EXTENDS NodeStatuses

CONSTANTS
    Replicas,   \* the manager's pods
    Requests,   \* the reports sent: [id, kind, node, hash, success]
    Existing,   \* which profiles may exist to begin with: sets of kinds
    MaxTries,   \* retry.DefaultRetry: attempts of one report (5)
    MaxMoves    \* bound on the moves of users, controllers and failures

ASSUME RequestsAssumption ==
    /\ IsFiniteSet(Requests)
    /\ \A q \in Requests :
        /\ q.kind \in Kinds
        /\ q.node \in Nodes
        /\ q.hash \in Hashes
        /\ q.success \in BOOLEAN
    /\ Existing \subseteq SUBSET Kinds
    /\ MaxTries \in Nat \ {0}
    /\ MaxMoves \in Nat

ASSUME NoReplicaAssumption == None \notin Replicas

VARIABLES
    object,     \* the profile of each kind in the API server, or None
    revision,   \* the last resourceVersion given to an object of each kind
    copies,     \* each replica's cached copy of each profile
    handler,    \* where the handler of each report is
    counter,    \* sysctl_operator_errored_pods_total of each replica, by node
    acceptedAt, \* the revision that recorded each report, 0 if none did
    moves,      \* moves of users, controllers and failures made
    uncounted   \* a recorded failure was never counted, or its count was lost

apiVars == <<object, revision>>
vars == <<apiVars, copies, handler, counter, acceptedAt, moves, uncounted>>

ReportedStatus ==
    [nodeStatuses : [Nodes -> NodeStatus],
     appliedNodes : Nat, failedNodes : Nat, erroredPods : Nat]

Object == [version : Nat, created : Nat, status : ReportedStatus]
MaybeObject == Object \cup {None}

ASSUME NoObjectAssumption == None \notin Object
ASSUME NoStatusAssumption == None \notin ReportedStatus

\* sent: not received yet.  done: answered, or cut off with its replica.
HandlerPC == {"sent", "get", "update", "count", "done"}

Handler ==
    [pc      : HandlerPC,
     replica : Replicas \cup {None},
     tries   : 0 .. MaxTries - 1,
     copy    : MaybeObject]

At(step) == [pc |-> step, replica |-> None, tries |-> 0, copy |-> None]

\* The caches have seen the profiles there are.
Init ==
    /\ \E K \in Existing :
        object = [k \in Kinds |->
                    IF k \in K THEN [version |-> 1, created |-> 1, status |-> NoReports]
                    ELSE None]
    /\ revision = [k \in Kinds |-> 1]
    /\ copies = [r \in Replicas |-> object]
    /\ handler = [q \in Requests |-> At("sent")]
    /\ counter = [r \in Replicas |-> [n \in Nodes |-> 0]]
    /\ acceptedAt = [q \in Requests |-> 0]
    /\ moves = 0
    /\ uncounted = FALSE

----------------------------------------------------------------------------
\* The API server, users, controllers and failures.

Move ==
    /\ moves < MaxMoves
    /\ moves' = moves + 1

NewVersion(k) == revision[k] + 1

\* A write of the object of kind k.
Write(k, obj) ==
    /\ object' = [object EXCEPT ![k] = obj]
    /\ revision' = [revision EXCEPT ![k] = NewVersion(k)]

Create(k) ==
    /\ Move
    /\ object[k] = None
    /\ Write(k, [version |-> NewVersion(k), created |-> NewVersion(k), status |-> NoReports])
    /\ UNCHANGED <<copies, handler, counter, acceptedAt, uncounted>>

\* The controller writes its part of the status, or a user the spec.
Rewrite(k) ==
    /\ Move
    /\ object[k] # None
    /\ Write(k, [object[k] EXCEPT !.version = NewVersion(k)])
    /\ UNCHANGED <<copies, handler, counter, acceptedAt, uncounted>>

Delete(k) ==
    /\ Move
    /\ object[k] # None
    /\ Write(k, None)
    /\ UNCHANGED <<copies, handler, counter, acceptedAt, uncounted>>

\* An informer delivers the last version; the ones before are coalesced or
\* were delivered before this one was written.
Sync(r, k) ==
    /\ copies[r][k] # object[k]
    /\ copies' = [copies EXCEPT ![r][k] = object[k]]
    /\ UNCHANGED <<apiVars, handler, counter, acceptedAt, moves, uncounted>>

\* The failures replica r has counted, or recorded and not counted yet.
HoldsCounts(r) ==
    \/ \E n \in Nodes : counter[r][n] # 0
    \/ \E q \in Requests : handler[q].replica = r /\ handler[q].pc = "count" /\ ~q.success

\* A replica dies with the requests it serves and its counters, and starts
\* again with a first list.
Restart(r) ==
    /\ Move
    /\ handler' = [q \in Requests |->
                     IF handler[q].replica = r THEN At("done") ELSE handler[q]]
    /\ counter' = [counter EXCEPT ![r] = [n \in Nodes |-> 0]]
    /\ copies' = [copies EXCEPT ![r] = object]
    /\ uncounted' = (uncounted \/ HoldsCounts(r))
    /\ UNCHANGED <<apiVars, acceptedAt>>

----------------------------------------------------------------------------
\* The handler of a report.

Step(q, h) == handler' = [handler EXCEPT ![q] = h]

\* The Service hands the POST to any replica.
Receive(q, r) ==
    /\ handler[q].pc = "sent"
    /\ Step(q, [handler[q] EXCEPT !.pc = "get", !.replica = r])
    /\ UNCHANGED <<apiVars, copies, counter, acceptedAt, moves, uncounted>>

\* Mutant: the metric is counted with each attempt.
CountEachAttempt(q, pc) == ~q.success /\ pc = "get"

\* A failed report is counted after the status update succeeded.
Counts(q, pc) == ~q.success /\ pc = "count"

IncErrored(q, pc) ==
    counter' = IF Counts(q, pc)
               THEN [counter EXCEPT ![handler[q].replica][q.node] = @ + 1]
               ELSE counter

\* Get, from the replica's cache.  A profile that is not there: acknowledge
\* and ignore.
Get(q) ==
    LET copy == copies[handler[q].replica][q.kind]
    IN  /\ handler[q].pc = "get"
        /\ Step(q, IF copy = None
                   THEN At("done")
                   ELSE [handler[q] EXCEPT !.pc = "update", !.copy = copy])
        /\ IncErrored(q, "get")
        /\ UNCHANGED <<apiVars, copies, acceptedAt, moves, uncounted>>

\* Mutant: no optimistic concurrency.
AnyVersion(q) == object[q.kind] # None

\* Update is accepted from the version it was made from only.
SameVersion(q) ==
    object[q.kind] # None /\ object[q.kind].version = handler[q].copy.version

\* The status update is accepted.  When its answer does not reach the
\* handler, the handler gives up with an error that is no conflict.
UpdateAccepted(q, answered) ==
    /\ handler[q].pc = "update"
    /\ SameVersion(q)
    /\ Write(q.kind, [version |-> NewVersion(q.kind), created |-> object[q.kind].created,
                      status |-> RecordOn(q.kind, handler[q].copy.status, q)])
    /\ acceptedAt' = [acceptedAt EXCEPT ![q] = NewVersion(q.kind)]
    /\ Step(q, IF answered
               THEN [handler[q] EXCEPT !.pc = "count", !.copy = None]
               ELSE At("done"))
    /\ IF answered THEN UNCHANGED <<moves, uncounted>>
       ELSE Move /\ uncounted' = (uncounted \/ ~q.success)
    /\ UNCHANGED <<copies, counter>>

\* Mutant: one attempt too many.
RetriesLeftOffByOne(tries) == tries + 1 <= MaxTries

RetriesLeft(tries) == tries + 1 < MaxTries

\* The profile is gone (200), or the copy is behind: try again from Get, or
\* answer 500 after the last attempt.
UpdateRefused(q) ==
    /\ handler[q].pc = "update"
    /\ ~SameVersion(q)
    /\ IF object[q.kind] # None /\ RetriesLeft(handler[q].tries)
       THEN Step(q, [handler[q] EXCEPT !.pc = "get", !.tries = @ + 1, !.copy = None])
       ELSE Step(q, At("done"))
    /\ UNCHANGED <<apiVars, copies, counter, acceptedAt, moves, uncounted>>

\* The metric, then the answer 200.
Count(q) ==
    /\ handler[q].pc = "count"
    /\ Step(q, At("done"))
    /\ IncErrored(q, "count")
    /\ UNCHANGED <<apiVars, copies, acceptedAt, moves, uncounted>>

handleReport(q) == Get(q) \/ UpdateAccepted(q, TRUE) \/ UpdateRefused(q) \/ Count(q)

Next ==
    \/ \E k \in Kinds : Create(k) \/ Rewrite(k) \/ Delete(k)
    \/ \E r \in Replicas, k \in Kinds : Sync(r, k)
    \/ \E r \in Replicas : Restart(r)
    \/ \E q \in Requests :
        \/ \E r \in Replicas : Receive(q, r)
        \/ UpdateAccepted(q, FALSE)
        \/ handleReport(q)

Spec == Init /\ [][Next]_vars

----------------------------------------------------------------------------
\* Properties.

\* Every variable has its type; a handler that is running knows its replica,
\* one that updates has a copy, and no report is attempted more than MaxTries
\* times.
TypeOK ==
    /\ object \in [Kinds -> MaybeObject]
    /\ revision \in [Kinds -> Nat]
    /\ copies \in [Replicas -> [Kinds -> MaybeObject]]
    /\ handler \in [Requests -> Handler]
    /\ \A q \in Requests :
        /\ handler[q].pc \in {"get", "update", "count"} => handler[q].replica \in Replicas
        /\ handler[q].pc = "update" => handler[q].copy # None
    /\ counter \in [Replicas -> [Nodes -> Nat]]
    /\ acceptedAt \in [Requests -> Nat]
    /\ moves \in 0 .. MaxMoves
    /\ uncounted \in BOOLEAN

\* Of several replicas with caches of different age, retries, restarts and
\* re-creations nothing is seen but reports that take effect one at a time,
\* once each, on the status of the moment.
Ledger == INSTANCE ReportLedger WITH
    ledger <- [k \in Kinds |-> IF object[k] = None THEN None ELSE object[k].status],
    open   <- {q \in Requests : handler[q].pc \in {"sent", "get", "update"}}

ImplementsLedger == Ledger!LedgerSpec

\* The reports recorded on the present profile of kind k.
RecordedOn(k) ==
    {q \in Requests : q.kind = k /\ acceptedAt[q] >= object[k].created}

\* status.erroredPods is the number of failed reports recorded since the
\* profile was created: no retry counts twice and no concurrent handler's
\* increment is lost.  A ScriptProfile has no such counter.
ErroredPodsExact ==
    \A k \in Kinds : object[k] # None =>
        object[k].status.erroredPods =
            IF k = "SysctlProfile" THEN Cardinality({q \in RecordedOn(k) : ~q.success})
                                   ELSE 0

\* The entry of a node is what its recorded reports, in the order they were
\* accepted, make of it: phase of the last, hash of the last success, number
\* of failures since.
Explains(e, Q) ==
    LET after(q)  == {p \in Q : acceptedAt[p] > acceptedAt[q]}
        successes == {q \in Q : q.success}
        failures  == {q \in Q : ~q.success}
    IN  /\ e.phase = "Absent" <=> Q = {}
        /\ \A q \in Q : after(q) = {} => e.phase = IF q.success THEN "Applied" ELSE "Failed"
        /\ successes = {} => e.appliedHash = None
        /\ \A q \in successes : after(q) \cap successes = {} => e.appliedHash = q.hash
        /\ e.failCount = Cardinality({q \in failures : after(q) \cap successes = {}})

EntriesExplained ==
    \A k \in Kinds : object[k] # None =>
        \A n \in Nodes :
            Explains(object[k].status.nodeStatuses[n], {q \in RecordedOn(k) : q.node = n})

\* The failures of node n that were recorded, on either profile.
FailedOn(n) == {q \in Requests : acceptedAt[q] # 0 /\ ~q.success /\ q.node = n}

\* The increments all replicas have counted for node n, each by its number.
Counted(n) == UNION {{r} \X (1 .. counter[r][n]) : r \in Replicas}

\* The counters of all replicas never run ahead of the failures recorded on
\* both profiles, and once the handlers are through they agree, unless one of
\* a failure was cut off between recording and counting, or a replica died
\* that had counted some: the counters are not persistent.
MetricFollowsStatus ==
    \A n \in Nodes :
        LET total    == Cardinality(Counted(n))
            failures == Cardinality(FailedOn(n))
        IN  /\ total <= failures
            /\ ~uncounted /\ (\A q \in Requests : handler[q].pc # "count") =>
                   total = failures
=============================================================================
