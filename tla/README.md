# A TLA+ model of sysctl-operator

The operator declares sysctls (`SysctlProfile`) or scripts (`ScriptProfile`) per
node group, rolls them out with a DaemonSet of worker pods, learns from the
workers' HTTP reports when a rollout is complete, and then tears the DaemonSet
down. The hard part is not any one function but that the decision "complete" is
taken by one process (the reconciler) from stale copies of a status that another
one (the report API, on every replica of the manager) writes on behalf of a third
(the workers), while users, nodes and the manager's own restarts interfere. These
modules model that loop for both kinds of profile, the report API with several
replicas, and the workers down to single keys and scripts; check them with TLC on
small instances; and prove the core with TLAPS for every instance.

Line numbers are in `PROJECT.json`: `map` names, for every definition, the lines
it models.

## 1. Inventory

| Part | State it keeps | Operations | Interacts with |
|---|---|---|---|
| SysctlProfile controller (`internal/controller/sysctlprofile_controller.go`) | none of its own: the profile's finalizer and status, and the ConfigMap, CronJob and DaemonSet it owns | `Reconcile`: finalizer, cleanup, ConfigMap, CronJob, node listing, roll out or tear down, status write | reads caches, writes the API server; woken by profile, owned-object and node events |
| Node predicate and `profilesForNode` | none | filter node events, map them to profiles | decides what wakes the controller |
| Report API (`internal/server/server.go`) | none: the profile's status | `handleReport`, `applyReport` with retry on conflict, `upsertNodeStatus`, `recomputeCounts` | second writer of the status; reads the same cache |
| Worker (`cmd/worker`, `internal/worker`) | the node's kernel values | load and verify the config, apply, send one report, wait for SIGTERM | started by the DaemonSet or the CronJob; posts to the report API |
| Drift-check CronJob | the CronJob | ensured or removed by `Reconcile` | its pods run the worker |
| ScriptProfile controller (`internal/controller/scriptprofile_controller.go`) | ScriptProfile, its ConfigMap and DaemonSet | `Reconcile`, `cleanupScript`, `renderScripts` | as the other controller |
| Script mode of the worker (`internal/worker/script.go`) | what the scripts do to the node | split the file into scripts, run them in order, report | posts with kind ScriptProfile, handled by `applyScriptReport` |
| Metrics (`internal/metrics`) | one counter per replica, profile and node | incremented after a recorded failure | scraped |
| Manager wiring, CRDs, RBAC, generated deep copies, tests | - | - | - |

What is hard about it:

* **Two writers, stale readers.** `Reconcile` and the report handler both work
  on a copy from the informer's cache and rely on the API server's optimistic
  concurrency.
* **Partial progress.** `Reconcile` and `cleanup` are sequences of API calls;
  any of them may fail, conflict, or be the last before the manager dies.
* **Filtered events.** Node deletions and heartbeats are dropped. An event that
  is dropped and mattered is never made up for.
* **One report per pod.** The worker posts once. Whatever happens to that post
  decides whether the rollout ends.
* **Memory by node name and hash only.** An entry says "Applied at this hash";
  it does not say when, by which pod, or that nothing was written since.

What makes each part correct:

* controller: nothing is created without the finalizer or left after it; when
  the manager rests, the objects match the spec, the nodes and the reports;
  deletion ends; reconciling comes to rest; a rollout ends in teardown;
* report API: a recorded report is not undone; what it counts agrees with what the
  controller decides; a node recorded Applied at a hash had that config written;
* report API on several replicas: seen from outside, every report takes effect
  once, at one moment, or not at all; the counters are exact;
* worker: a content other than the one the pod template names is refused, so that
  a rollout cannot end with it; success of `Apply` and of `Check` means that the keys have their values; a node counts as
  having run the scripts only if one process ran all of them, in order.

## 2. Modules

| Module | Models | EXTENDS |
|---|---|---|
| `NodeStatuses` | the status of a profile and the pure functions over it | - |
| `Cluster` | API server, informers and queue, nodes, DaemonSet and Job controllers, kubelets, users and failures (external), and all the state | `NodeStatuses` |
| `SysctlProfileController` | `Reconcile`, `cleanup`, node events | `Cluster` |
| `Worker` | the worker in apply mode | `Cluster` |
| `ReportServer` | the report API, one attempt per step | `Cluster` |
| `SysctlOperator` | the composition for a SysctlProfile, fairness, the properties | the three above |
| `DocumentedBehaviour` | what documentation and comments say and the code does not do | `SysctlOperator` |
| `SysctlOperatorProofs` | theorems: the finalizer, the copies, the claims of the status | `SysctlOperator` |
| `SettledProofs` | theorems: a manager at rest | `SysctlOperatorProofs` |
| `ScriptBlocks` | `renderScripts` and `ParseScripts` | - |
| `ScriptBlocksProofs` | theorems: what is read back of a rendered list of scripts | `ScriptBlocks` |
| `ScriptProfileController` | `Reconcile` and `cleanupScript` of ScriptProfiles | `SysctlProfileController`, `ScriptBlocks` |
| `ScriptWorker` | the worker in script mode | `Worker`, `ScriptBlocks` |
| `ScriptOperator` | the composition for a ScriptProfile, its properties | `SysctlOperator`, the two above |
| `ScriptOperatorProofs` | theorems: the same and the claims about scripts, for a ScriptProfile | `ScriptOperator`, `SettledProofs`, `ScriptBlocksProofs` |
| `ReportLedger` | abstract: what the report API promises | `NodeStatuses` |
| `ReportHandlers` | the report API step by step on several replicas, and the metric; implements `ReportLedger` | `NodeStatuses` |
| `ReportHandlersProofs` | theorems, the refinement among them | `ReportHandlers` |
| `OwnedObjects` | `CreateOrUpdate` and `Delete` of the owned objects with lagging caches | - |
| `OwnedObjectsProofs` | theorems | `OwnedObjects` |
| `SysctlApply` | `Apply` and `Check` key by key on one kernel | - |
| `SysctlApplyProofs` | theorems | `SysctlApply` |
| `MCSysctlOperator`, `MCScriptOperator`, `MCReportHandlers`, `MCSysctlApply` | values for TLC | the module named, the first also `DocumentedBehaviour` |

In the two compositions there is one profile: profiles do not share objects,
entries or work-queue keys. What they share is modelled apart: the report API and
its metric (`ReportHandlers` has a profile of each kind, of one name) and a node's
kernel (`SysctlApply` has several workers with files of their own).

**State.** `profile` is the object in the API server, `cache` the informer's
copy, `snap` the copy `Reconcile` is working on. Resource versions are two
flags: `cacheFresh` and `snapFresh` say that no write has been made since that
copy was current, and an update from a copy that is not fresh is a conflict.
`generation` and the Ready condition's `readyGeneration` are kept, because a new
generation alone makes `Reconcile` write the status. `pc` is the API call
`Reconcile` makes next; `queued` is the work queue, which holds a key at most
once. `configMap`, `cronJob` and `daemonSet` are the owned objects, reduced to
the content or the hash they carry. `rendered` is every content a ConfigMap has
had, since a kubelet may still mount an old one. `pods` are worker pods with
their `CONFIG_HASH`, their volume and their program counter. `live` is the
config in force in a node's kernel, `None` when it is not wholly one config.
`reports` are posts on their way or being handled. `written`, `mishap` and `env`
are history: which hashes were ever completely applied under a node's name,
whether some report failed, was dropped or took back a success (`TakesBack`:
the report of a pod of another config replaced the success recorded for what the
DaemonSet rolls out), and how many environment moves were made.

**Controller.** One action per API call of `Reconcile`, named after the code:
`ReconcileStart` (Get, and the early returns), `AddFinalizer`, `EnsureConfigMap`,
`ReconcileCronJob`, `SelectNodes`, `ReconcileDaemonSet` (the decision, the
DaemonSet call and the computation of the new status), `UpdateStatus`, and
`CleanupDaemonSet`, `CleanupCronJob`, `CleanupConfigMap`, `RemoveFinalizer`.
`ReconcileError` fails any call. The three writes of the profile are
`UpdateProfile`, which succeeds or conflicts. `NodeCacheSync` is a node event
with the predicate and the mapping applied.

**Report API.** One attempt of `applyReport` is one step, taken when the server
decides the update: the attempt succeeds exactly if no write is newer than the
copy read, and otherwise has no effect but to be counted, so reading earlier
would add no behaviour. A report of a killed pod may still be handled.

**Worker.** `Load`/`LoadRefused` (the hash check), `Apply`/`ApplyFails`,
`sendReport`. One `Apply` is one step here; `SysctlApply` takes it apart.

**ScriptProfiles.** `ScriptProfileController` takes from the other controller the
steps whose code is the same again (the early returns, the finalizer, the status
write, node events) and spells out the rest: no CronJob, rendering of scripts,
its own cleanup order. A spec is a list of scripts, a rendered file a sequence of
lines in which a line that looks like a marker is one. A name or an interpreter is
a sequence of words, of which `parseScriptHeader` reads the first; neither has a
line break. (A word that is a field itself, `name=x`, would replace the first.)
In `ScriptWorker` one step
runs one script; `ran` is what the process in a pod has run so far and is lost
with the container, `completed` (history) the lists that processes ran to the
end without a failure. `hashContent` and `HashBytes` apply to rendered files.

**Report API on several replicas.** In `ReportHandlers` a handler is at `get`,
`update` or `count`. Get reads the replica's copy; the update is accepted if the
object still has the copy's version, and then its answer may be lost; the metric
is a step of its own. Replicas restart, informers lag independently, profiles are
rewritten, deleted and re-created under the same name. Versions are counted per
kind and never reused. `acceptedAt` and `uncounted` are history; `uncounted` says
that the handler of a failure was cut off between recording and counting it, or that
a replica died with failures it had counted, whose counter dies with it.

**Caches of the owned objects.** The compositions read owned objects up to date.
`OwnedObjects` takes that apart: `pending` holds, for each object, the states its
informer has yet to deliver, `CreateOrUpdate` decides from the `cached` one and
writes to the real one, and `Delete` does not read. An object carries the uid of
the profile it was made for, because a profile deleted and created again under
its name finds what the cache still has of the first. Others may delete owned
objects and update the DaemonSet's status. The profile is reduced to what decides
which objects are wanted, with the status's verdict as one flag (`rollout`). One
`CreateOrUpdate` is one step; the module says why. The library's part is written
from how it behaves: Create fails on an object that exists, an Update from an old
copy or of a DaemonSet's selector is refused, and `SetControllerReference` replaces
a reference to an earlier owner of the same name.

**The kernel of a node.** In `SysctlApply` a worker expands one entry at a time
(`NextEntry`, from the interfaces present at that moment) and then writes or
reads one key at a time. A key is a base and an interface. Others write keys and
interfaces come and go with default values (`Env` moves, at most `MaxEnv`);
`disturbed` (history) is, for each worker, what others touched since it started.
A key of an interface whose name has a dot is not reachable: the dot becomes a
slash. A value is a sequence of words; `/proc/sys` shows several words with tabs.
That writing `conf.all` may change what an interface does is left out: it changes
no other key's value in the model.

**Cluster.** Written from what the code relies on: background deletion leaves
pods running as orphans, an object with a finalizer only gets its deletion
timestamp, a restart drops the queue, lists everything again and breaks the
requests being served, a container starts once its volume can be mounted. An
event of an owned object reaches the queue at once, or later as `Resync`.

Nodes have one of four labels: `full` (the whole selector matches), `labels`
(its `matchLabels` do, its `matchExpressions` do not), `other`, `gone`. The
controller lists `full` nodes; the DaemonSet's template carries only
`matchLabels`.

## 3. Runs

`EnvKinds` says which environment moves an instance allows and `MaxEnv` how many
of them; everything else is unbounded except `MaxPodsPerNode` (pods alive on a
node: 2 lets an old and a new pod overlap) and `MaxTries` (attempts of a report;
the code's value is 5, which the `doc_` runs on reports use; fewer attempts only
make giving up come sooner). Of two equal reports of a node the second is sent when
the first has been handled.

| Run | Instance | Shows |
|---|---|---|
| `lifecycle` | 1 node, 2 configs, 2 pods, 3 of create, edit, delete, error, restart, failed write, crash, reboot, lost report, removal, join | `TypeOK`, `NothingOrphaned`, `DaemonSetHasConfigMap`, `ReportsAreNotOverwritten` across every crash, error and re-creation; `AppliedWasWritten`, `TeardownIsEarned` with failures, late reports and overlapping pods |
| `settled` | 2 nodes, 1 config, 3 of create, join, relabel, schedule, error, resync | `SettledMatchesSpec`, `CompleteIsCounted` with changing nodes and schedules |
| `rollout` | 1 node, there or not at first, 2 configs, 2 pods, 3 of create, edit, delete, error, restart, join; fair | `SettledMatchesSpec`, `RolloutCompletes`, `Quiescence`, `DeletionCompletes` |
| `ledger` | 2 replicas, 3 reports (a failure and a success of one profile, a failure of the other), 2 attempts, 2 of create, rewrite, delete, restart, lost answer | `TypeOK`, `ImplementsLedger` (refinement of `ReportLedger`), `ErroredPodsExact`, `EntriesExplained`, `MetricFollowsStatus` |
| `scripts` | 1 node, 2 lists of scripts, 2 pods, 3 of create, edit, delete, failing script, crash, lost report, restart, error, join, relabel | `ScriptTypeOK`, `AppliedRanScripts`, `ScriptsSplitBackApart`, `NothingOrphaned`, `DaemonSetHasConfigMap`, `CompleteIsCounted`, `ScriptSettledMatchesSpec`, `ReportsAreNotOverwritten` |
| `owned` | 2 contents, 3 owned objects, 4 of create, edit, schedule, rollout, delete, status update, deletion by others, restart, error; fair | `TypeOK`, `DaemonSetHasOwnConfigMap`, `SettledAsWanted`, `Converges` |
| `kernel` | 2 workers, 3 files, a plain key and one per interface, 2 interfaces (one with a dot), 2 moves of others | `TypeOK`, `ApplySound`, `CheckSound`, `DriftIsReal`, `AggregatesOnlyByName` |

Why these bounds: the interesting orders need one write to go stale (create plus
one edit or delete) and then a failure, a restart or a re-creation, which is three
moves on one node. What two nodes add is that one is done while the other is not, which
needs creation and two node moves. Two configs are enough for "the right one and
the wrong one"; there and back takes two edits. The theorems of section 5 have
no such bounds. In `ledger`, two attempts let a retry succeed and a report give
up, two moves let a profile be re-created between a Get and its Update, and a
third concurrent report only adds orders of the first two. In `scripts`, the two
lists share a script under different interpreters, so that neither the hash nor
the names alone tell them apart. In `owned`, re-creating a profile before the cache knows that its ConfigMap
is gone takes three moves. In `kernel`, the files have a placeholder, an
entry that overrides it, an aggregate by name and a value of two words. `settled`,
`ledger` and `kernel` use symmetry of nodes, replicas and workers, interchangeable
model values; what they check are invariants and action properties. Deadlock is not checked: a
system whose environment has made its last move and whose manager rests has
nothing left to do, and `Quiescence` says it gets there.

`SettledMatchesSpec` and `RolloutCompletes` are checked without node removal, because
both are false with it. `nodeLabelChanged` drops the event, so `desiredNodes` may be out
of date for good, and when the node that is removed was the last one missing, every
selected node has reported success and nothing makes `Reconcile` tear the DaemonSet down
(two nodes, `create` and `remove` are enough). Only the periodic resync of the informers
or an unrelated event would; neither is assumed.

**Fairness.** Weak fairness of: the reconcile worker, the profile informer, the
report handler, each node's informer, each node's DaemonSet scheduling and cron
firing, in `owned` each owned object's informer, and each pod slot (start, next step of the process, kill). All of them
are loops the code or Kubernetes keeps running. A worker is only assumed to load
the right config when the current ConfigMap is the one its pod wants. Nothing is
assumed of users, nodes or failures, and nothing of which of several reports is
handled first. `RolloutCompletes` is conditional on `[]~mishap`: no write fails,
no report is lost, given up after its last conflict or dropped by a restart, and
none takes back a success. Up to two pods are alive on a node, so pods of a deleted
or replaced DaemonSet go on writing and reporting beside those of the present one;
their reports break nothing unless one comes between the report of the present pod
and the `Reconcile` that would have seen it. In that case the DaemonSet stays for
ever, because its pod has reported and never does so again: `doc_torn_down` shows
it, so this part of the condition is needed, and so is the rest: a report whose
attempts all conflict is answered 500, no worker sends it again, and the DaemonSet
stays. The documentation makes none of these conditions.

### Documented behaviour that the code does not have

Each of these runs checks one documented statement and TLC finds a behaviour of
the code that violates it.

| Run | Statement | What happens |
|---|---|---|
| `doc_drift_check` | drift-check pods inspect live values | they mount a ConfigMap named like the CronJob, which nobody creates |
| `doc_fresh_rollout` | a changed hash triggers a fresh rollout | an edit there and back is taken as complete with the middle config in force |
| `doc_script_blocks` | each script is a block the worker can split back apart | a marker line in a script ends it early; an interpreter loses its arguments; the node reports success |
| `doc_torn_down` | once every selected node has reported success at the current hash, the DaemonSet is torn down | the report of a pod of a deleted profile of the same name replaces that success before `Reconcile` looks; nobody reports again (fair) |
| `doc_applied_nodes` | `appliedNodes` is the number of nodes at the desired config hash | after an edit, the entries at the old hash are counted too |

What `doc_fresh_rollout` checks also fails without an edit, if a node is removed
and joins again under its name (`create`, `remove`, `join`): no entry is ever
removed, so the node counts as Applied and no DaemonSet is made for it, although a
comment of `Reconcile` says that a newly joined node "isn't Applied yet".

Reading the code for the model turned up more of the same kind, which follow
from single lines and have no run of their own: the DaemonSet's template takes
only `matchLabels` of `nodeSelector`, so its pods also write nodes that
`matchExpressions` excludes; the last report handled wins, whatever its age
(`doc_torn_down`), so that `appliedHash` need not be the one "last successfully
applied"; `appliedNodes` of a ScriptProfile counts as `doc_applied_nodes` shows for
the other kind; `failedNodes` ("nodes that exhausted their retries") counts a node
from its first failure on, and nothing retries; `desiredNodes` ("nodes selected by
nodeSelector") goes stale when a node is deleted after teardown, because deletions wake
nobody; `cleanup` ("drain the applier DaemonSet before its ConfigMap") does not wait
for pods; `Check` compares text, so a value of several words, which the kernel shows
with tabs, always counts as drift (`DriftIsReal` is about single words); a failed
script counts in the metric for failed sysctl applies; no worker retries a report, although the report API speaks of pods that
"stop retrying"; `StrategyEnforce` ("continuously re-applies") is read by no
code, so values lost to a reboot after teardown stay lost.

## 4. What the properties say

* `NothingOrphaned`: no profile, no owned objects. Broken if anything is
  created before the finalizer is there, from any stale copy.
* `DaemonSetHasConfigMap`: creation order and cleanup order fit together.
* `ReportsAreNotOverwritten` (action property): an entry changes only when a
  report of that node is consumed. Broken if the status write is not
  conditional on the copy being current.
* `AppliedWasWritten`: every copy of the status is truthful about the past.
  It does not say the config is still in force: reboots, later pods and edits
  see to that (`doc_fresh_rollout`).
* `TeardownIsEarned` (action property): the DaemonSet goes away only with its
  profile, or after every node `Reconcile` listed, at least one, has had the config of
  its copy written completely, however old copy and list are by then. Broken if
  entries of another hash count.
* `SettledMatchesSpec`: when nothing is queued, running or unseen, the objects
  and the status are what the spec, the nodes and the reports call for.
* `CompleteIsCounted`: the controller writes the verdict and `desiredNodes`, the
  report API the counters, each from a copy of its own; at rest, a rollout called
  complete counts at least as many applied as desired nodes. ("At least": nodes that
  left the selection and nodes at an old hash are counted too, `doc_applied_nodes`.)
  Broken if the counters are computed before the entry they are to count.
* `RolloutCompletes`, `DeletionCompletes`, `Quiescence`: liveness. `RolloutCompletes`
  is also what the hash check of `Load` is for: a worker that takes a volume older
  or newer than its template writes and reports a hash nobody asks for.
* `ImplementsLedger`: the handlers implement `ReportLedger`, where recording a
  report is one step. The mapping takes the status of each object for the
  ledger, and the reports whose update has not been accepted or given up for the
  open ones. Broken by a lost update, a report applied twice, a status computed
  from an old copy, or entries that survive a re-creation.
* `ErroredPodsExact`, `EntriesExplained`: `erroredPods`, phase, hash and
  `failCount` are what the accepted reports, in the order of their acceptance,
  make of them; nothing is counted twice and nothing is lost.
* `MetricFollowsStatus`: the metric of a node, counted over all replicas, never runs
  ahead of its recorded failures, and falls behind only while a handler is about to
  count, or for good when one was cut off between the two or when a replica dies with
  the counter it kept.
* `AppliedRanScripts`: an Applied node ran all scripts of a spec with the recorded
  hash, in order, without a failure, in one process.
* `ScriptsSplitBackApart`: every list of scripts a node has run to the end, recorded
  or not, is what some spec asks for. True of the plain specs of `scripts`, false of
  those of `doc_script_blocks`.
* `ScriptSettledMatchesSpec`: `SettledMatchesSpec` for ScriptProfiles.
* `ApplySound`, `CheckSound`: success means that every key of the file that the
  node has, and nobody else touched meanwhile, has the value of the last entry
  about it (after `Apply`) or of every entry about it (after `Check`). So two
  appliers may leave a mixture, but none that `Check` accepts.
* `DaemonSetHasOwnConfigMap`: whatever the cache still has, a DaemonSet exists
  only beside a ConfigMap of the same owner, unless somebody else deleted that.
  Broken if the objects carry no reference to their owner: then the ConfigMap of
  a deleted profile looks right to the next one of its name.
* `SettledAsWanted`, `Converges`: a call that did nothing because the cache was
  behind is made again, since the late event wakes the controller; and no conflict
  recurs for ever. Broken without `Owns`, or if the DaemonSet's selector, which is
  immutable, depended on the config.
* `DriftIsReal`: what `Check` reports of a file with one-word values is a difference,
  or was touched meanwhile. Of values of several words it is not true.
* `AggregatesOnlyByName`: the worker that changes a key of `all`, `default` or `lo` is
  at an entry that names it; a placeholder never does.

## 5. Proofs

`SysctlOperatorProofs` proves, for any finite set of nodes and any configs,
bounds and environment:

* `TypeCorrect`: `Spec => []TypeOK`;
* `NothingOrphanedCorrect`, `DaemonSetHasConfigMapCorrect`;
* `ReportsAreNotOverwrittenCorrect` (an action property);
* `AppliedWasWrittenCorrect`;
* `TeardownIsEarnedCorrect` (an action property).

`SettledProofs` proves, for the same instances as long as no node is removed:

* `SettledCorrect`: `Spec => []SettledMatchesSpec`. The hypothesis is
  `"remove" \notin EnvKinds`. It is not a convenience: `nodeLabelChanged` drops
  the event of a removed node, so `desiredNodes` may be out of date after one and
  the property is then false;
* `CompleteIsCountedCorrect`: `Spec => []CompleteIsCounted`, which rests on it.

`ScriptOperatorProofs` proves, for any finite set of nodes, any specs, pods per
node, bounds and environment of the ScriptProfile composition:

* `ScriptTypeCorrect`: `ScriptSpec => []ScriptTypeOK`, with `RunsInOrder`: a process
  runs its file's scripts in order;
* `ScriptNothingOrphaned`: `ScriptSpec => []NothingOrphaned`;
* `ScriptSettledCorrect`: `ScriptSpec => []ScriptSettledMatchesSpec`. In this
  composition nodes join and change labels and none is removed;
* `ScriptDaemonSetHasConfigMap`, `ScriptReportsNotOverwritten` (an action property),
  `ScriptCompleteIsCounted`: the three properties of the other composition again, for
  the steps, the counting and the cleanup order of this controller;
* `ScriptAppliedRan`: `ScriptSpec => []AppliedRanScripts`, and `ScriptsSplitBack`:
  `ScriptSpec => []ScriptsSplitBackApart`, both for specs of plain scripts
  (`PlainScriptSpecs`): no line like a header or footer, a name and an interpreter of
  at most one word. The hypothesis is needed: `doc_script_blocks` shows what happens
  without it.

`ScriptBlocksProofs` proves, for lists of scripts and files of any length:

* `ParsedArePlain`: whatever lines a file has, `ParseScripts` reads plain scripts;
* `SplitBackIffPlain`: `ParseScripts(renderScripts(s))` is what `s` asks for if and
  only if all its scripts are plain. This says exactly when the comment "a block the
  worker can split back apart" is true. TLC evaluates both sides for the specs of
  `scripts` and `doc_script_blocks` and for a name of two words
  (`PlainSpecsSplitBack`).

`ReportHandlersProofs` proves, for any set of replicas, any finite set of reports
and any bounds:

* `HandlersTypeCorrect`: `Spec => []TypeOK`;
* `VersionCorrect`: no copy is mistaken for the present object;
* `LedgerImplemented`: `Spec => ImplementsLedger`, the refinement of `ReportLedger`;
* `ErroredPodsCorrect`, `EntriesCorrect`;
* `MetricCorrect`: `Spec => []MetricFollowsStatus`.

`OwnedObjectsProofs` proves, for any contents and any number of moves of others:
`TypeCorrect`, `DaemonSetOwnConfigMap` (`DaemonSetHasOwnConfigMap`) and `Settles`
(`SettledAsWanted`).

`SysctlApplyProofs` proves, for any workers, files, interfaces and number of moves
of others: `TypeCorrect`, `ApplyIsSound`, `CheckIsSound`, `DriftReal` and
`AggregatesByName` (an action property).

Assumptions, all named in the modules that declare the constants: nodes and
interfaces are finite; the hash is injective on the configs in play (64 bits of
SHA-256); `None` is no config, hash, profile, replica, object or status; the reports
are finitely many and well typed; no interface is called `all`, `default`, `lo`
or like the placeholder (`NamesAssumption`; expansion leaves the first three out);
the entries of a file name keys, or a base that is there per interface
(`FilesAssumption`); a spec is a list of scripts and its file one of the configs, all
of them sequences of lines (`ScriptSpecsAssumption`, `ScriptFilesAssumption`); the
bounds are natural numbers. TLC evaluates them on the instances it checks.

### The arguments

**Composition.** `NothingOrphaned` is not inductive: the danger is a stale copy
that still carries the finalizer when the profile has gone, or a profile
re-created under the same name. `ControllerInv` strengthens it:

* `CopyInv`: a fresh cache is the profile, and a fresh working copy is the
  profile but for the status about to be written, never in its node entries.
* `FinalizerInv`: nothing is owned unless the profile has its finalizer; a cached
  copy that would make `Reconcile` create something implies that the profile
  still has it; while `Reconcile` is creating, the profile has it; while it is
  cleaning up, its copy is being deleted. The crux is that the finalizer is
  removed only from a current copy, by the only process that creates things.
* `ProgressInv`: what the cleanup steps done so far have deleted, and that
  everything after the ConfigMap step finds the ConfigMap.

`ReportsAreNotOverwritten` follows from `CopyInv`. `AppliedWasWritten` needs
`ClaimInv`: the same claim for reports on their way and for workers about to
send one; `written` only grows. `TeardownIsEarned` follows from both: `Reconcile`
deletes the DaemonSet because its copy has every listed node at the hash, and
`ClaimInv` holds of that copy too.

**Rest.** `SettledMatchesSpec` speaks of `idle` only. `RestInv` extends it to every
step of `Reconcile`: unless the manager is going to look again (the key is queued,
or the informer has something to deliver), the ConfigMap is right once its step is
done, then the CronJob, then the nodes listed, then everything. What makes it
inductive is `StaleIsRedone`: `Reconcile` works on an outdated copy only if it
will run again. So a write, a report, a node event or an owned object's event in
the middle of `Reconcile` need not be noticed by that `Reconcile`; it is enough
that each of them queues the key or outdates the cache, which is checked action by
action, and that an error or a conflict queues it again.

`CompleteIsCounted` needs an auxiliary invariant, `CountsMatch`: in every copy of the
status the counters are the numbers of entries in the phases. It is inductive together
with `ControllerInv`: every status is empty, computed by `Recorded`, which ends with
the recount, or copied with entries and counters from another. At rest, "complete"
means that the selected nodes are entries at the hash (`SettledMatchesSpec`), the
Applied entries include these (`MatchedIsCounted`), and `desiredNodes` is their number.

**Scripts.** The system for a ScriptProfile has other steps, another profile type and
another cleanup order, so nothing carries over by refinement: `CopyInv`,
`FinalizerInv`, `ProgressInv`, `StaleIsRedone` and a `ScriptDoneSoFar` without CronJob
are shown again for its steps. New is what a claim rests on. A success is sent by
the process that ran the scripts, several steps earlier, and other pods on the node,
crashed ones and orphans among them, run in between. `PodsApart` (two pods on a node
have different ids) keeps each process to its own log, and `RunsInOrder` makes that
log a beginning of the file's scripts, so that it is the whole list when none is
left (`PrefixAll`). `ScriptClaimInv` then follows the claim: a hash in `written` is
that of a file all of whose scripts are in `completed` (`RanToTheEnd`), files are
rendered specs (`FilesAreSpecs`), and pods about to report, reports and all copies of
the status claim only such hashes (`ClaimInv`).

**Report handlers.** They need `VersionInv`: versions never exceed the revision,
and a copy, on any replica or in any handler, that has the object's version is the
object. Every write takes a new revision and thereby outdates all copies at once,
so the one update that is accepted is computed from what the object is, which is
the abstract `Record`; every other step leaves the ledger alone or gives reports
up, and creation and deletion map to `Open` and `Close`. `ErroredPodsExact` needs
`AcceptInv` besides: an open report has not been accepted, acceptance dates are at
most the revision, and a profile's creation date lies between 1 and it, so that
none of the earlier reports counts for a re-created profile. `EntriesExplained` is
inductive together with these: the report accepted now is the latest of its node,
so the entry it leaves is explained by it and, for the hash and `failCount`, by
what explained the entry before; entries of other nodes keep their explanation.

**The metric.** `MetricFollowsStatus` is not inductive: a handler that has recorded a
failure and has not counted it yet makes the difference. `BalanceOn` says that, for
each node, what is counted and what is about to be counted together are at most the
failures accepted, and exactly those as long as no handler was cut off and no counter
died with its replica. The metric of
a node is the cardinality of a set with one element per increment (`Counted`): a step
of one replica adds one element to it, a restart of a replica takes its own away.

**Rendering and parsing.** `FoldLeft` and `FlattenSeq` are recursive functions, so the
theorems need induction. The library's principle has an operator as a parameter;
`Induction` says the same of a set of numbers and follows from the well-foundedness
of strict inclusion on finite sets, which the library has as a theorem without
parameters. With it, `ParseRun` turns `ParseScripts` into a sequence of parser states,
one per line, and `FlattenRun` `renderScripts` into a sequence of files, one per
block. `RunType`: every state holds plain scripts only. `BlockRun`: over the block of
a plain script the parser goes through `Reading` its first `j` lines, for each `j`, and
ends with that script appended. Hence plain specs are read back block by block, and a
spec that is read back is plain, since only plain scripts are ever read.

**Owned objects.** Two things are to be shown at once: that nothing wrong is made
from a stale cache, and that what is left undone is done later. For the first,
`LiveCopiesCurrent` and `SeenIsKnown` say that a copy of a profile that is not being
deleted is one of the present profile, and that an object which carries the present
profile's uid, anywhere between the API server and the cache, was made by a
`Reconcile` of that profile. Hence a cached ConfigMap that `CreateOrUpdate` takes for
right was there, and `ConfigMapStays` says it still is unless somebody else deleted
it. For the second, `DeliversLast` says that the last state an informer has to
deliver is the real one, and `RightUnlessWillRun` that the objects `Reconcile` is
through with are right or it will run again.

**The kernel.** The properties speak of finished workers, the invariant of all:
for every key nobody else has touched, what the entries the worker is through with
(`Passed`) left in the kernel (`AppliedSoFar`) or found there (`CheckedSoFar`,
`DriftSoFar`). The current entry counts as passed for the keys no longer in `todo`,
`TodoIsAbout` keeps foreign keys out of it, and `DoneAtEnd` makes the last entry
passed at the end. The interfaces may change between the expansion of an entry and
the writes: a key of an interface that came later is disturbed, one whose interface
has gone is not the node's any more. `SetToSeqLists` is the one lemma about data:
the expansion lists every interface present.

Every inductive invariant was checked with TLC, on the instances of the runs that
check the properties, before it was proved.

### Only model-checked

* All liveness properties (`RolloutCompletes`, `DeletionCompletes`, `Quiescence`,
  `Converges`): out of the prover's reach.

Every invariant and every safety property that a passing run checks is also proved.

## 6. Not modelled

* What is in a rendered sysctl file, in the composition: a content is opaque there, so
  `renderSysctlConf` (`key = value` lines) and `Parse` (which skips comments and lines
  without `=`) are inverse to each other. A value with a line break or a key that looks
  like a comment would be read back differently. `SysctlApply` starts from the entries.
* In `OwnedObjects`, the Update that `CreateOrUpdate` sends even of an object that is
  right, because defaulted fields of the pod template differ: it changes nothing, or
  conflicts if the copy is stale, where the model goes on with the stale copy.
* Edits of `nodeSelector` and `tolerations`; tainted nodes.
* Lagging caches of owned objects in the compositions: they are in `OwnedObjects`,
  without workers, reports and nodes. In the compositions a failure they cause is
  a `ReconcileError`.
* Liveness of the ScriptProfile composition: its loop is the one whose liveness
  `rollout` checks, with one step fewer.
* `Check` in the composition: no pod template sets `MODE=check`.
* Scripts that hang: `RunScripts` has no timeout, the worker then never reports.
  No fairness is assumed of scripts.
* `strategy`, `rollout`, `persistent`, `restoreOnDelete`: no code reads them.
* Invalid requests to the report API, which change nothing; messages, times.
* `cmd/main.go` (flags, TLS, probes), generated deep copies, manifests.

## 7. Plan

1. *Core* (done): one profile, apply mode, the report loop, deletion.
2. *Report API on several replicas* (done): `ReportLedger`, `ReportHandlers`.
3. *ScriptProfiles* (done): controller, script mode, rendering and parsing.
4. *Kernel* (done): keys, expansion, partial failure, `Check`, two appliers.
5. *Caches of owned objects* (done): `OwnedObjects`.
6. *Proofs* (done): the core, the counters, the refinement of `ReportLedger`, the
   entries, the metric, a manager at rest, the owned objects under lagging caches, the
   kernel, rendering and parsing, and types, ownership, rest, reports and claims for
   ScriptProfiles.
