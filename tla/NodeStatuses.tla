---------------------------- MODULE NodeStatuses ----------------------------
(***************************************************************************)
(* The status of a SysctlProfile or a ScriptProfile and the pure functions *)
(* over it: what the report API writes into it (upsertNodeStatus,          *)
(* recomputeCounts and their script variants) and what the controllers     *)
(* decide from it (allNodesApplied).  A ScriptProfile has no erroredPods:  *)
(* in its status the field stays 0.                                        *)
(*                                                                         *)
(* The Go list nodeStatuses is a map keyed by nodeName (listType=map), so  *)
(* it is a function of the node; a node without an entry has NoEntry.      *)
(***************************************************************************)
EXTENDS Naturals, FiniteSets

CONSTANTS
    Nodes,      \* names of the cluster's nodes
    Configs,    \* rendered contents of the drop-in file
    Hashes,     \* config hashes
    HashOf,     \* sha256 of a content, first 16 hex digits
    None        \* the empty string, the absent object

ASSUME NodesAssumption == IsFiniteSet(Nodes)

\* 64 bits of sha256: no two contents in play share a hash.
ASSUME HashAssumption ==
    /\ HashOf \in [Configs -> Hashes]
    /\ \A c, d \in Configs : HashOf[c] = HashOf[d] => c = d

ASSUME NoneAssumption == None \notin Configs \cup Hashes

\* The controller's hash and the worker's hash: two implementations of one
\* function, in two binaries.
hashContent(content) == HashOf[content]
HashBytes(data) == HashOf[data]

MaybeHash == Hashes \cup {None}

NodePhase == {"Absent", "Applied", "Failed"}
NodeStatus == [phase : NodePhase, appliedHash : MaybeHash, failCount : Nat]
NoEntry == [phase |-> "Absent", appliedHash |-> None, failCount |-> 0]

\* The reason of the Ready condition; its status is always True.  Its
\* observedGeneration is readyGeneration.
ReadyReason == {"None", "RollingOut", "RolloutComplete"}

Status ==
    [nodeStatuses : [Nodes -> NodeStatus],
     observedHash : MaybeHash,
     teardownHash : MaybeHash,
     ready        : ReadyReason,
     readyGeneration : Nat,
     desiredNodes : Nat,
     appliedNodes : Nat,
     failedNodes  : Nat,
     erroredPods  : Nat]

EmptyStatus ==
    [nodeStatuses |-> [n \in Nodes |-> NoEntry],
     observedHash |-> None,
     teardownHash |-> None,
     ready        |-> "None",
     readyGeneration |-> 0,
     desiredNodes |-> 0,
     appliedNodes |-> 0,
     failedNodes  |-> 0,
     erroredPods  |-> 0]

\* The part of the status that reports write, when there has been none.
NoReports ==
    [nodeStatuses |-> [n \in Nodes |-> NoEntry],
     appliedNodes |-> 0, failedNodes |-> 0, erroredPods |-> 0]

\* A report as the handler sees it.
Report == [node : Nodes, hash : Hashes, success : BOOLEAN]

InPhase(st, phase) == {n \in Nodes : st.nodeStatuses[n].phase = phase}

\* The entry of a node after a report of it.  Inserting is updating NoEntry:
\* a first failure counts 1 and leaves the hash empty.
Succeeded(hash) == [phase |-> "Applied", appliedHash |-> hash, failCount |-> 0]

\* Mutant: a failure forgets what was applied before it.
FailedForgetsHash(entry) ==
    [phase |-> "Failed", appliedHash |-> None, failCount |-> entry.failCount + 1]

Failed(entry) ==
    [phase |-> "Failed", appliedHash |-> entry.appliedHash,
     failCount |-> entry.failCount + 1]

\* Mutant: a success does not update the hash of an entry that has one.
upsertKeepsHash(st, report) ==
    LET entry == st.nodeStatuses[report.node]
        hash  == IF entry.appliedHash = None THEN report.hash ELSE entry.appliedHash
    IN  IF report.success
        THEN [st EXCEPT !.nodeStatuses[report.node] = Succeeded(hash)]
        ELSE [st EXCEPT !.nodeStatuses[report.node] = Failed(entry),
                        !.erroredPods = @ + 1]

upsertNodeStatus(st, report) ==
    LET entry == st.nodeStatuses[report.node]
    IN  IF report.success
        THEN [st EXCEPT !.nodeStatuses[report.node] = Succeeded(report.hash)]
        ELSE [st EXCEPT !.nodeStatuses[report.node] = Failed(entry),
                        !.erroredPods = @ + 1]

recomputeCounts(st) ==
    [st EXCEPT !.appliedNodes = Cardinality(InPhase(st, "Applied")),
               !.failedNodes  = Cardinality(InPhase(st, "Failed"))]

\* Mutant: the counters are refreshed before the entry is.
RecordedCountsFirst(st, r) == upsertNodeStatus(recomputeCounts(st), r)

\* What a report makes of the status of a SysctlProfile.
Recorded(st, r) == recomputeCounts(upsertNodeStatus(st, r))

\* The script variants: no erroredPods.
upsertScriptNodeStatus(st, report) ==
    [st EXCEPT !.nodeStatuses[report.node] =
        IF report.success THEN Succeeded(report.hash) ELSE Failed(@)]

recomputeScriptCounts(st) == recomputeCounts(st)

\* Mutant: the counters are refreshed before the entry is.
ScriptRecordedCountsFirst(st, r) == upsertScriptNodeStatus(recomputeScriptCounts(st), r)

\* What a report makes of the status of a ScriptProfile.
ScriptRecorded(st, r) == recomputeScriptCounts(upsertScriptNodeStatus(st, r))

Kinds == {"SysctlProfile", "ScriptProfile"}

\* Mutant: a failed script also counts as an errored pod.
RecordAlike(kind, st, r) == Recorded(st, r)

\* A report is routed by its kind.
RecordOn(kind, st, r) ==
    IF kind = "ScriptProfile" THEN ScriptRecorded(st, r) ELSE Recorded(st, r)

\* The node statuses that say "this config is on this node".
AppliedAt(st, hash) ==
    {n \in InPhase(st, "Applied") : st.nodeStatuses[n].appliedHash = hash}

\* Mutant: an entry counts whatever config it is about.
allNodesAppliedAnyHash(st, selected, hash) ==
    /\ selected # {}
    /\ selected \subseteq InPhase(st, "Applied")

allNodesApplied(st, selected, hash) ==
    /\ selected # {}
    /\ selected \subseteq AppliedAt(st, hash)
=============================================================================
